------------------------------ MODULE AdminAccess ------------------------------
(***************************************************************************)
(* Access control of the admin console: the permissions of a role and the  *)
(* roles of a user.                                                        *)
(*                                                                         *)
(* Both are join rows that are deleted softly: a save marks all the rows   *)
(* of its holder deleted and inserts a row for each grant it names.  The   *)
(* unique index on the join rows does not look at the deletion mark, so a  *)
(* row that was ever inserted keeps its key and cannot be inserted again.  *)
(* Every statement commits by itself.                                      *)
(***************************************************************************)
CONSTANTS
  Requests,     \* calls of server actions and route handlers, each made once
  Roles, Users, Permissions

Holders == Roles \cup Users

ASSUME HoldersAssumption == Roles \cap Users = {}

VARIABLES
  rows,         \* role_permissions and user_roles: the state of each possible row
  status,       \* users.status; roles are always active
  audit,        \* the access that the newest audit entry of a holder tells
  pc, req,      \* next statement of each request; its holder and what it asks
  read,         \* the access a request has read back after its writes
  saved,        \* history: the access that the last save of a holder asked for
  refused,      \* history: holders whose last save the unique index refused
  raced,        \* history: holders two requests have worked on at the same time
  interrupted,  \* history: holders a request worked on when it died
  asked         \* history: grants asked for by the saves of a holder that overlap now,
                \* or did so last

history == <<saved, refused, raced, interrupted, asked>>
vars == <<rows, status, audit, pc, req, read, history>>

Grantable(h) == IF h \in Roles THEN Permissions ELSE Roles
Keys == (Roles \X Permissions) \cup (Users \X Roles)

RowState == {"never", "live", "deleted"}
Status == {"absent", "active", "suspended"}
\* A role may be given any permissions; a request gives a user one role or none.
Asked(h) ==
  [grants: IF h \in Roles THEN SUBSET Permissions ELSE {{}} \cup {{o} : o \in Roles},
   status: IF h \in Roles THEN {"active"} ELSE {"active", "suspended"}]

Live(h) == {g \in Grantable(h) : rows[<<h, g>>] = "live"}
Access(h) == [grants |-> Live(h), status |-> status[h]]

None == [grants |-> {}, status |-> "absent"]
NoRequest == [holder |-> "none", wants |-> None]

\* Rows are left from earlier saves; a user has at most one role.
Init ==
  /\ rows \in [Keys -> RowState]
  /\ status \in [Holders -> {"absent", "active"}]
  /\ \A o \in Roles : status[o] = "active"
  /\ \A u \in Users : /\ \A g, h \in Live(u) : g = h
                      /\ status[u] = "absent" => \A g \in Roles : rows[<<u, g>>] = "never"
  /\ audit = [h \in Holders |-> Access(h)]
  /\ pc = [r \in Requests |-> "idle"]
  /\ req = [r \in Requests |-> NoRequest]
  /\ read = [r \in Requests |-> None]
  /\ saved = audit
  /\ refused = {} /\ raced = {} /\ interrupted = {}
  /\ asked = [h \in Holders |-> Live(h)]

-------------------------------------------------------------------------------
Running(r) == pc[r] \notin {"idle", "done", "failed"}
WorkedOn(h) == \E r \in Requests : Running(r) /\ req[r].holder = h

Goto(r, label) == pc' = [pc EXCEPT ![r] = label]

Begin(r, h, wants, label) ==
  /\ pc[r] = "idle"
  /\ Goto(r, label)
  /\ req' = [req EXCEPT ![r] = [holder |-> h, wants |-> wants]]
  /\ raced' = IF WorkedOn(h) THEN raced \cup {h} ELSE raced
  /\ asked' = [asked EXCEPT ![h] = wants.grants \cup (IF WorkedOn(h) THEN @ ELSE {})]
  /\ UNCHANGED <<rows, status, audit, read, saved, refused, interrupted>>

Start(r) ==
  \E h \in Holders : \E wants \in Asked(h) :
    \/ status[h] # "absent" /\ Begin(r, h, wants, "find")
    \/ h \in Users /\ status[h] = "absent" /\ ~WorkedOn(h) /\ Begin(r, h, wants, "insert")

\* The request ends; its last statement decided what of it stands.
Return(r, label) ==
  /\ Goto(r, label)
  /\ req' = [req EXCEPT ![r] = NoRequest]
  /\ read' = [read EXCEPT ![r] = None]

Fail(r) ==
  /\ Running(r)
  /\ Return(r, "failed")
  /\ interrupted' = interrupted \cup {req[r].holder}
  /\ UNCHANGED <<rows, status, audit, saved, refused, raced, asked>>

createUser(r) ==
  /\ pc[r] = "insert"
  /\ status' = [status EXCEPT ![req[r].holder] = req[r].wants.status]
  /\ Goto(r, IF req[r].wants.grants = {} THEN "refresh" ELSE "grant")
  /\ UNCHANGED <<rows, audit, req, read, history>>

\* Mutant: a save of a role that names no permission stops at finding it.
findHolderToGrant(r) ==
  /\ pc[r] = "find"
  /\ Goto(r, IF req[r].holder \in Users THEN "set status"
             ELSE IF req[r].wants.grants = {} THEN "refresh" ELSE "revoke")
  /\ UNCHANGED <<rows, status, audit, req, read, history>>

\* updateRolePermissions and updateUserAccess begin alike: users and roles are
\* never deleted, so the holder is found.
findHolder(r) ==
  /\ pc[r] = "find"
  /\ Goto(r, IF req[r].holder \in Users THEN "set status" ELSE "revoke")
  /\ UNCHANGED <<rows, status, audit, req, read, history>>

updateUserStatus(r) ==
  /\ pc[r] = "set status"
  /\ status' = [status EXCEPT ![req[r].holder] = req[r].wants.status]
  /\ Goto(r, "revoke")
  /\ UNCHANGED <<rows, audit, req, read, history>>

\* Mutant: the join table of the users is forgotten.
RevokedPermissions(h) ==
  [k \in Keys |-> IF k[1] = h /\ h \in Roles /\ rows[k] = "live" THEN "deleted" ELSE rows[k]]

Revoked(h) == [k \in Keys |-> IF k[1] = h /\ rows[k] = "live" THEN "deleted" ELSE rows[k]]

revokeAll(r) ==
  /\ pc[r] = "revoke"
  /\ rows' = Revoked(req[r].holder)
  /\ Goto(r, IF req[r].wants.grants = {} THEN "refresh" ELSE "grant")
  /\ UNCHANGED <<status, audit, req, read, history>>

\* Unique index on the holder and the grant.
KeyIsFree(k) == rows[k] = "never"

\* Mutant: createMany with skipDuplicates.
insertFreeGrants(r) ==
  LET wanted == {<<req[r].holder, g>> : g \in req[r].wants.grants} IN
  /\ pc[r] = "grant"
  /\ rows' = [k \in Keys |-> IF k \in wanted /\ KeyIsFree(k) THEN "live" ELSE rows[k]]
  /\ Goto(r, "refresh")
  /\ UNCHANGED <<status, audit, req, read, history>>

insertGrants(r) ==
  LET h == req[r].holder
      wanted == {<<h, g>> : g \in req[r].wants.grants}
  IN
  /\ pc[r] = "grant"
  /\ IF \A k \in wanted : KeyIsFree(k)
     THEN /\ rows' = [k \in Keys |-> IF k \in wanted THEN "live" ELSE rows[k]]
          /\ Goto(r, "refresh")
          /\ UNCHANGED <<req, read, refused>>
     ELSE /\ Return(r, "failed")
          /\ refused' = refused \cup {h}
          /\ UNCHANGED rows
  /\ UNCHANGED <<status, audit, saved, raced, interrupted, asked>>

readBack(r) ==
  /\ pc[r] = "refresh"
  /\ read' = [read EXCEPT ![r] = Access(req[r].holder)]
  /\ Goto(r, "log")
  /\ UNCHANGED <<rows, status, audit, req, history>>

appendAuditLog(r) ==
  /\ pc[r] = "log"
  /\ audit' = [audit EXCEPT ![req[r].holder] = read[r]]
  /\ saved' = [saved EXCEPT ![req[r].holder] = req[r].wants]
  /\ refused' = refused \ {req[r].holder}
  /\ Return(r, "done")
  /\ UNCHANGED <<rows, status, raced, interrupted, asked>>

Step(r) ==
  \/ Start(r) \/ Fail(r) \/ createUser(r) \/ findHolder(r) \/ updateUserStatus(r)
  \/ revokeAll(r) \/ insertGrants(r) \/ readBack(r) \/ appendAuditLog(r)

Next == \E r \in Requests : Step(r)

Spec == Init /\ [][Next]_vars
-------------------------------------------------------------------------------
AccessRecord == [grants: SUBSET (Permissions \cup Roles), status: Status]

\* Every variable has its type.
TypeOK ==
  /\ rows \in [Keys -> RowState]
  /\ status \in [Holders -> Status]
  /\ audit \in [Holders -> AccessRecord]
  /\ pc \in [Requests -> {"idle", "insert", "find", "set status", "revoke", "grant",
                          "refresh", "log", "done", "failed"}]
  /\ req \in [Requests -> [holder: Holders \cup {"none"}, wants: AccessRecord]]
  /\ read \in [Requests -> AccessRecord]
  /\ saved \in [Holders -> AccessRecord]
  /\ refused \in SUBSET Holders /\ raced \in SUBSET Holders /\ interrupted \in SUBSET Holders
  /\ asked \in [Holders -> SUBSET (Permissions \cup Roles)]

\* After saves that did not overlap and did not die, a holder has exactly the access
\* that the last one asked for, and the audit log says so; or that save was refused,
\* and the holder has lost everything it had been granted.
AccessAsSaved ==
  \A h \in Holders \ (raced \cup interrupted) :
    ~WorkedOn(h) =>
      IF h \in refused THEN Live(h) = {} ELSE Access(h) = saved[h] /\ audit[h] = saved[h]

\* A user has one role at most, in the middle of a save and after one that died too,
\* unless saves of the user overlapped: each then removes the other's rows before
\* both insert theirs.
OneRolePerUser ==
  \A u \in Users \ raced : \A g, h \in Live(u) : g = h

\* However the saves of a holder overlap, and whichever of them the unique index
\* refuses, a holder ends up with nothing that none of them asked for: each has deleted
\* all the rows before it inserts, so no grant of an earlier time gets past them.
NoLeftoverGrants ==
  \A h \in Holders \ interrupted : ~WorkedOn(h) => Live(h) \subseteq asked[h]
================================================================================
