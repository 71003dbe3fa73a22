--------------------------- MODULE AdminAccessProofs ---------------------------
(***************************************************************************)
(* Proofs about AdminAccess, for any number of requests, roles, users and  *)
(* permissions.  As long as no other request works on a holder, a request  *)
(* finds the rows of the holder as its last statement left them: that is   *)
(* what Progress says, statement by statement.                             *)
(***************************************************************************)
EXTENDS AdminAccess, TLAPS

Labels == {"idle", "insert", "find", "set status", "revoke", "grant", "refresh", "log",
           "done", "failed"}

\* A holder that was never contended has one request at most working on it.
Alone ==
  \A r, q \in Requests :
    Running(r) /\ Running(q) /\ req[r].holder = req[q].holder /\ req[r].holder \notin raced
      => r = q

\* What a request works on is a holder, and what it wants can be asked of it.
Asking ==
  \A r \in Requests : Running(r) =>
    req[r].holder \in Holders /\ req[r].wants \in Asked(req[r].holder)

\* A role is always active; a user that does not exist has never had a role, and no
\* request but the one that makes it is past finding it.
Existing ==
  /\ \A o \in Roles : status[o] = "active"
  /\ \A u \in Users : status[u] = "absent" => \A g \in Roles : rows[<<u, g>>] = "never"
  /\ \A r \in Requests : Running(r) /\ pc[r] # "insert" => status[req[r].holder] # "absent"

\* What a request has made of the rows of its holder.
ProgressOf(r) ==
  LET h == req[r].holder IN
  /\ pc[r] = "insert" => h \in Users /\ status[h] = "absent"
  /\ pc[r] \in {"revoke", "grant", "refresh", "log"} => status[h] = req[r].wants.status
  /\ pc[r] = "set status" => h \in Users
  /\ pc[r] = "grant" => Live(h) = {}
  /\ pc[r] \in {"refresh", "log"} => Live(h) = req[r].wants.grants
  /\ pc[r] = "log" => read[r] = req[r].wants

Progress == \A r \in Requests : Running(r) /\ req[r].holder \notin raced => ProgressOf(r)

IInv ==
  TypeOK /\ Alone /\ Asking /\ Existing /\ Progress /\ AccessAsSaved /\ OneRolePerUser

-------------------------------------------------------------------------------
\* The rows of a holder are keyed by what it can be granted.
LEMMA KeysOfHolder ==
  ASSUME NEW h \in Holders, NEW g \in Grantable(h)
  PROVE  <<h, g>> \in Keys
BY HoldersAssumption DEF Holders, Grantable, Keys

\* What may be asked of a holder, and what it has, are records of access.
LEMMA AccessTyped ==
  ASSUME TypeOK, NEW h \in Holders
  PROVE  /\ Asked(h) \subseteq AccessRecord
         /\ Access(h) \in AccessRecord
         /\ None \in AccessRecord
         /\ \A wants \in Asked(h) : wants.grants \subseteq Grantable(h)
                                    /\ wants.status \in {"active", "suspended"}
                                    /\ (h \in Roles => wants.status = "active")
                                    /\ wants = [grants |-> wants.grants, status |-> wants.status]
<1>1. Live(h) \in SUBSET (Permissions \cup Roles)
  BY HoldersAssumption DEF Live, Grantable
<1>2. status[h] \in Status
  BY DEF TypeOK
<1>3. Access(h) \in AccessRecord
  BY <1>1, <1>2 DEF Access, AccessRecord
<1>4. None \in AccessRecord
  BY DEF None, AccessRecord, Status
<1>5. ASSUME NEW wants \in Asked(h)
      PROVE  /\ wants \in AccessRecord
             /\ wants.grants \subseteq Grantable(h)
             /\ wants.status \in {"active", "suspended"}
             /\ (h \in Roles => wants.status = "active")
             /\ wants = [grants |-> wants.grants, status |-> wants.status]
  <2>1. CASE h \in Roles
    <3>1. wants \in [grants : SUBSET Permissions, status : {"active"}]
      BY <2>1, <1>5 DEF Asked
    <3> QED
      BY <2>1, <3>1 DEF AccessRecord, Status, Grantable
  <2>2. CASE h \notin Roles
    <3>1. wants \in [grants : {{}} \cup {{o} : o \in Roles}, status : {"active", "suspended"}]
      BY <2>2, <1>5 DEF Asked
    <3>2. wants.grants \subseteq Roles
      BY <3>1
    <3> QED
      BY <2>2, <3>1, <3>2 DEF AccessRecord, Status, Grantable
  <2> QED
    BY <2>1, <2>2
<1> QED
  BY <1>3, <1>4, <1>5

\* A user is asked to have one role at most.
LEMMA OneRoleAsked ==
  ASSUME NEW u \in Users, NEW wants \in Asked(u)
  PROVE  \A g, h \in wants.grants : g = h
<1>1. u \notin Roles
  BY HoldersAssumption
<1>2. wants.grants \in {{}} \cup {{o} : o \in Roles}
  BY <1>1 DEF Asked
<1> QED
  BY <1>2

\* The initial state satisfies the invariant.
LEMMA InitIInv == Init => IInv
<1> SUFFICES ASSUME Init PROVE IInv
  OBVIOUS
<1>1. /\ rows \in [Keys -> RowState] /\ status \in [Holders -> Status]
      /\ \A h \in Holders : Live(h) \in SUBSET (Permissions \cup Roles)
  BY HoldersAssumption DEF Init, Status, Live, Grantable
<1>2. \A h \in Holders : Access(h) \in AccessRecord
  BY <1>1 DEF Access, AccessRecord
<1>3. audit \in [Holders -> AccessRecord] /\ saved \in [Holders -> AccessRecord]
  BY <1>2 DEF Init
<1>4. None \in AccessRecord
  BY DEF None, AccessRecord, Status
<1>5. NoRequest \in [holder: Holders \cup {"none"}, wants: AccessRecord]
  BY <1>4 DEF NoRequest
<1>6. TypeOK
  BY <1>1, <1>3, <1>4, <1>5 DEF Init, TypeOK
<1>7. \A r \in Requests : ~Running(r)
  BY DEF Init, Running
<1>8. Alone /\ Asking /\ Progress
  BY <1>7 DEF Alone, Asking, Progress
<1>9. Existing /\ OneRolePerUser
  BY <1>7 DEF Init, Existing, OneRolePerUser
<1>10. AccessAsSaved
  BY DEF AccessAsSaved, Init
<1> QED
  BY <1>6, <1>8, <1>9, <1>10 DEF IInv

-------------------------------------------------------------------------------
\* What the last save has left of a holder.
SavedOf(h) ==
  IF h \in refused THEN Live(h) = {} ELSE Access(h) = saved[h] /\ audit[h] = saved[h]

\* A statement of r touches the rows, the status and the history of its holder only.
Owned(r) ==
  LET h == req[r].holder IN
  /\ \A q \in Requests \ {r} : pc'[q] = pc[q] /\ req'[q] = req[q] /\ read'[q] = read[q]
  /\ req'[r] = req[r] \/ pc'[r] \in {"done", "failed"}
  /\ \A k \in Keys : k[1] # h => rows'[k] = rows[k]
  /\ \A x \in Holders \ {h} :
       /\ status'[x] = status[x] /\ audit'[x] = audit[x] /\ saved'[x] = saved[x]
       /\ x \in refused' <=> x \in refused
       /\ x \in interrupted' <=> x \in interrupted
  /\ raced' = raced

\* What a holder can be granted is a matter of the rows of that holder.
LEMMA LiveOfOthers ==
  ASSUME NEW h, NEW x \in Holders \ {h}, \A k \in Keys : k[1] # h => rows'[k] = rows[k]
  PROVE  Live(x)' = Live(x)
<1>1. \A g \in Grantable(x) : rows'[<<x, g>>] = rows[<<x, g>>]
  BY KeysOfHolder
<1> QED
  BY <1>1 DEF Live

\* Such a statement keeps what is known of the other requests and holders.
LEMMA OwnStep ==
  ASSUME IInv, TypeOK', NEW r \in Requests, Running(r), Owned(r)
  PROVE  /\ Alone' /\ Asking'
         /\ \A q \in Requests \ {r} :
              Running(q)' /\ req'[q].holder \notin raced' => ProgressOf(q)'
         /\ \A x \in Holders \ {req[r].holder} :
              /\ x \notin raced' \cup interrupted' /\ ~WorkedOn(x)' => SavedOf(x)'
              /\ x \in Users \ raced' => \A g, g2 \in Live(x)' : g = g2
         /\ \A u \in Users \ {req[r].holder} :
              status'[u] = "absent" => \A g \in Roles : rows'[<<u, g>>] = "never"
<1> DEFINE h == req[r].holder
<1>0. h \in Holders
  BY DEF IInv, Asking
<1>1. \A q \in Requests : Running(q)' =>
        /\ Running(q) /\ req'[q] = req[q]
        /\ q # r => pc'[q] = pc[q] /\ read'[q] = read[q]
  BY DEF Owned, Running
<1>2. Alone' /\ Asking'
  BY <1>1 DEF Owned, IInv, Alone, Asking, Asked
<1>3. \A x \in Holders \ {h} : Live(x)' = Live(x) /\ status'[x] = status[x]
  BY LiveOfOthers DEF Owned
<1>4. ASSUME NEW q \in Requests \ {r}, Running(q)', req'[q].holder \notin raced'
      PROVE  ProgressOf(q)'
  <2>1. /\ Running(q) /\ req'[q] = req[q] /\ pc'[q] = pc[q] /\ read'[q] = read[q]
        /\ req[q].holder \notin raced /\ raced' = raced
    BY <1>1, <1>4 DEF Owned
  <2>2. req[q].holder # h /\ req[q].holder \in Holders
    BY <2>1 DEF IInv, Alone, Asking
  <2>3. ProgressOf(q)
    BY <2>1 DEF IInv, Progress
  <2>4. PICK x \in Holders \ {h} : x = req[q].holder
    BY <2>2
  <2>5. Live(x)' = Live(x) /\ status'[x] = status[x]
    BY <1>3
  <2>6. Live(req[q].holder)' = Live(req[q].holder)
    <3>1. req'[q].holder = x /\ req[q].holder = x
      BY <2>1, <2>4
    <3>2. Live(req[q].holder)' = Live(x)' /\ Live(req[q].holder) = Live(x)
      BY <3>1 DEF Live
    <3> QED
      BY <2>5, <3>2
  <2>7. status'[req[q].holder] = status[req[q].holder]
    BY <2>4, <2>5
  <2> QED
    BY <2>1, <2>3, <2>6, <2>7 DEF ProgressOf
<1>5. ASSUME NEW x \in Holders \ {h}, x \notin raced' \cup interrupted', ~WorkedOn(x)'
      PROVE  SavedOf(x)'
  <2>1. x \notin raced \cup interrupted
    BY <1>5 DEF Owned
  <2>2. \A q \in Requests : Running(q) /\ req[q].holder = x => Running(q)' /\ req'[q].holder = x
    BY <1>5 DEF Owned, Running
  <2>3. ~WorkedOn(x)
    BY <1>5, <2>2 DEF WorkedOn
  <2>4. SavedOf(x)
    BY <2>1, <2>3 DEF IInv, AccessAsSaved, SavedOf
  <2>5. Access(x)' = Access(x)
    BY <1>3 DEF Access
  <2> QED
    BY <1>3, <2>4, <2>5 DEF SavedOf, Owned
<1>6. ASSUME NEW x \in Holders \ {h}, x \in Users \ raced' PROVE \A g, g2 \in Live(x)' : g = g2
  <2>1. \A g, g2 \in Live(x) : g = g2
    BY <1>6 DEF Owned, IInv, OneRolePerUser
  <2> QED
    BY <1>3, <2>1
<1>7. ASSUME NEW u \in Users \ {h}, status'[u] = "absent", NEW g \in Roles
      PROVE  rows'[<<u, g>>] = "never"
  <2>1. status[u] = "absent" /\ u \in Holders
    BY <1>7 DEF Owned, Holders
  <2>2. rows[<<u, g>>] = "never"
    BY <2>1 DEF IInv, Existing
  <2>3. <<u, g>> \in Keys /\ <<u, g>>[1] = u
    BY DEF Keys
  <2> QED
    BY <2>2, <2>3 DEF Owned
<1> QED
  BY <1>2, <1>4, <1>5, <1>6, <1>7

\* What is left to show of a statement is what it does to its holder.
LEMMA OwnInv ==
  ASSUME IInv, TypeOK', NEW r \in Requests, Running(r), Owned(r),
         NEW h \in Holders, h = req[r].holder,
         Running(r)' /\ h \notin raced => ProgressOf(r)',
         h \notin raced' \cup interrupted' /\ ~WorkedOn(h)' => SavedOf(h)',
         h \in Users \ raced => \A g, g2 \in Live(h)' : g = g2,
         h \in Roles => status'[h] = "active",
         status[h] # "absent" \/ Running(r)' => status'[h] # "absent",
         h \in Users /\ status'[h] = "absent" => \A g \in Roles : rows'[<<h, g>>] = "never"
  PROVE  IInv'
<1>1. raced' = raced
  BY DEF Owned
<1>2. Alone' /\ Asking'
  BY OwnStep
<1>3. Progress'
  <2> SUFFICES ASSUME NEW q \in Requests, Running(q)', req'[q].holder \notin raced'
               PROVE  ProgressOf(q)'
    BY DEF Progress
  <2>1. CASE q = r
    <3>1. req'[r] = req[r]
      BY <2>1 DEF Owned, Running
    <3> QED
      BY <1>1, <2>1, <3>1
  <2>2. CASE q # r
    BY <2>2, OwnStep
  <2> QED
    BY <2>1, <2>2
<1>4. Existing'
  <2>1. ASSUME NEW o \in Roles PROVE status'[o] = "active"
    <3>1. CASE o = h
      BY <3>1
    <3>2. CASE o # h
      BY <3>2 DEF Owned, Holders, IInv, Existing
    <3> QED
      BY <3>1, <3>2
  <2>2. ASSUME NEW u \in Users, status'[u] = "absent"
        PROVE  \A g \in Roles : rows'[<<u, g>>] = "never"
    <3>1. CASE u = h
      BY <2>2, <3>1
    <3>2. CASE u # h
      BY <2>2, <3>2, OwnStep
    <3> QED
      BY <3>1, <3>2
  <2>3. ASSUME NEW q \in Requests, Running(q)', pc'[q] # "insert"
        PROVE  status'[req'[q].holder] # "absent"
    <3>1. CASE q = r
      <4>1. req'[r] = req[r]
        BY <2>3, <3>1 DEF Owned, Running
      <4> QED
        BY <2>3, <3>1, <4>1
    <3>2. CASE q # r
      <4>1. Running(q) /\ pc[q] # "insert" /\ req'[q] = req[q]
        BY <2>3, <3>2 DEF Owned, Running
      <4>2. status[req[q].holder] # "absent" /\ req[q].holder \in Holders
        BY <4>1 DEF IInv, Existing, Asking
      <4> QED
        BY <4>1, <4>2 DEF Owned
    <3> QED
      BY <3>1, <3>2
  <2> QED
    BY <2>1, <2>2, <2>3 DEF Existing
<1>5. AccessAsSaved'
  <2> SUFFICES ASSUME NEW x \in Holders \ (raced' \cup interrupted'), ~WorkedOn(x)'
               PROVE  SavedOf(x)'
    BY DEF AccessAsSaved, SavedOf
  <2>1. CASE x = h
    BY <2>1
  <2>2. CASE x # h
    BY <2>2, OwnStep
  <2> QED
    BY <2>1, <2>2
<1>6. OneRolePerUser'
  <2> SUFFICES ASSUME NEW u \in Users \ raced' PROVE \A g, g2 \in Live(u)' : g = g2
    BY DEF OneRolePerUser
  <2>1. CASE u = h
    BY <2>1, <1>1
  <2>2. CASE u # h
    BY <2>2, OwnStep DEF Holders
  <2> QED
    BY <2>1, <2>2
<1> QED
  BY <1>2, <1>3, <1>4, <1>5, <1>6 DEF IInv

-------------------------------------------------------------------------------
\* A request begins: its holder is contended if another request works on it.
LEMMA StartInv ==
  ASSUME IInv, NEW r \in Requests, Start(r)
  PROVE  IInv'
<1>0. PICK h \in Holders : \E wants \in Asked(h) :
        \/ status[h] # "absent" /\ Begin(r, h, wants, "find")
        \/ h \in Users /\ status[h] = "absent" /\ ~WorkedOn(h) /\ Begin(r, h, wants, "insert")
  BY DEF Start
<1>a. PICK wants \in Asked(h) :
        \/ status[h] # "absent" /\ Begin(r, h, wants, "find")
        \/ h \in Users /\ status[h] = "absent" /\ ~WorkedOn(h) /\ Begin(r, h, wants, "insert")
  BY <1>0
<1>1. PICK label \in {"find", "insert"} :
        /\ Begin(r, h, wants, label)
        /\ label = "find" => status[h] # "absent"
        /\ label = "insert" => h \in Users /\ status[h] = "absent"
  BY <1>a
<1>2. /\ pc' = [pc EXCEPT ![r] = label]
      /\ req' = [req EXCEPT ![r] = [holder |-> h, wants |-> wants]]
      /\ raced' = IF WorkedOn(h) THEN raced \cup {h} ELSE raced
      /\ asked' = [asked EXCEPT ![h] = wants.grants \cup (IF WorkedOn(h) THEN asked[h] ELSE {})]
      /\ UNCHANGED <<rows, status, audit, read, saved, refused, interrupted>>
      /\ pc[r] = "idle"
  BY <1>1 DEF Begin, Goto
<1>3. TypeOK'
  <2>1. wants \in AccessRecord
    BY AccessTyped DEF IInv
  <2>2. pc' \in [Requests -> Labels]
    BY <1>2 DEF IInv, TypeOK, Labels
  <2>3. req' \in [Requests -> [holder: Holders \cup {"none"}, wants: AccessRecord]]
    BY <1>2, <2>1 DEF IInv, TypeOK
  <2>4. wants.grants \subseteq Permissions \cup Roles
    BY <2>1 DEF AccessRecord
  <2>5. asked' \in [Holders -> SUBSET (Permissions \cup Roles)]
    BY <1>2, <2>4 DEF IInv, TypeOK
  <2> QED
    BY <1>2, <2>2, <2>3, <2>5 DEF IInv, TypeOK, Labels
<1>4. /\ pc'[r] = label /\ req'[r].holder = h /\ req'[r].wants = wants
      /\ \A q \in Requests \ {r} : pc'[q] = pc[q] /\ req'[q] = req[q]
  BY <1>2 DEF IInv, TypeOK
<1>5. \A q \in Requests \ {r} : Running(q)' <=> Running(q)
  BY <1>4 DEF Running
<1>6. raced \subseteq raced'
  BY <1>2
<1>7. Alone'
  <2> SUFFICES ASSUME NEW p \in Requests, NEW q \in Requests, Running(p)', Running(q)',
                      req'[p].holder = req'[q].holder, req'[p].holder \notin raced'
               PROVE  p = q
    BY DEF Alone
  <2>1. CASE p # r /\ q # r
    BY <2>1, <1>4, <1>5, <1>6 DEF IInv, Alone
  <2>2. ASSUME NEW o \in Requests \ {r}, Running(o)', req'[o].holder = h PROVE h \in raced'
    BY <2>2, <1>2, <1>4, <1>5 DEF WorkedOn
  <2> QED
    BY <2>1, <2>2, <1>4
<1>8. Asking'
  BY <1>4, <1>5 DEF IInv, Asking, Asked
<1>9. \A x \in Holders : Live(x)' = Live(x) /\ Access(x)' = Access(x)
  BY <1>2 DEF Live, Access
<1>10. Progress'
  <2> SUFFICES ASSUME NEW q \in Requests, Running(q)', req'[q].holder \notin raced'
               PROVE  ProgressOf(q)'
    BY DEF Progress
  <2>1. CASE q = r
    BY <1>1, <1>2, <1>4, <2>1 DEF ProgressOf
  <2>2. CASE q # r
    <3>1. ProgressOf(q)
      BY <2>2, <1>4, <1>5, <1>6 DEF IInv, Progress
    <3>2. pc'[q] = pc[q] /\ req'[q] = req[q] /\ read' = read /\ status' = status /\ rows' = rows
      BY <1>2, <1>4, <2>2
    <3>3. Live(req[q].holder)' = Live(req[q].holder)
      BY <3>2 DEF Live
    <3> QED
      BY <3>1, <3>2, <3>3 DEF ProgressOf
  <2> QED
    BY <2>1, <2>2
<1>11. AccessAsSaved'
  <2> SUFFICES ASSUME NEW x \in Holders, x \notin raced' \cup interrupted', ~WorkedOn(x)'
               PROVE  SavedOf(x)'
    BY DEF AccessAsSaved, SavedOf
  <2>1. ~WorkedOn(x)
    <3>1. ASSUME NEW q \in Requests, Running(q), req[q].holder = x PROVE FALSE
      <4>1. q # r
        BY <3>1, <1>2 DEF Running
      <4> QED
        BY <3>1, <4>1, <1>4, <1>5 DEF WorkedOn
    <3> QED
      BY <3>1 DEF WorkedOn
  <2>2. SavedOf(x)
    BY <2>1, <1>2, <1>6 DEF IInv, AccessAsSaved, SavedOf
  <2> QED
    BY <2>2, <1>2, <1>9 DEF SavedOf
<1>12. Existing'
  <2>1. ASSUME NEW q \in Requests, Running(q)', pc'[q] # "insert"
        PROVE  status'[req'[q].holder] # "absent"
    <3>1. CASE q = r
      BY <1>1, <1>2, <1>4, <2>1, <3>1
    <3>2. CASE q # r
      BY <1>2, <1>4, <1>5, <2>1, <3>2 DEF IInv, Existing
    <3> QED
      BY <3>1, <3>2
  <2> QED
    BY <1>2, <2>1 DEF IInv, Existing
<1>13. OneRolePerUser'
  BY <1>2, <1>6, <1>9 DEF IInv, OneRolePerUser, Holders
<1> QED
  BY <1>3, <1>7, <1>8, <1>10, <1>11, <1>12, <1>13 DEF IInv

\* A request dies: its holder counts as interrupted.
LEMMA FailInv ==
  ASSUME IInv, NEW r \in Requests, Fail(r)
  PROVE  IInv'
<1>1. PICK h \in Holders : h = req[r].holder /\ Running(r)
  BY DEF IInv, Asking, Fail
<1>2. /\ pc' = [pc EXCEPT ![r] = "failed"]
      /\ req' = [req EXCEPT ![r] = NoRequest]
      /\ read' = [read EXCEPT ![r] = None]
      /\ interrupted' = interrupted \cup {h}
      /\ UNCHANGED <<rows, status, audit, saved, refused, raced, asked>>
  BY <1>1 DEF Fail, Return, Goto
<1>3. TypeOK'
  <2>1. None \in AccessRecord /\ NoRequest \in [holder: Holders \cup {"none"}, wants: AccessRecord]
    BY <1>1, AccessTyped DEF IInv, NoRequest
  <2> QED
    BY <1>2, <2>1 DEF IInv, TypeOK
<1>4. Owned(r)
  BY <1>1, <1>2 DEF Owned, IInv, TypeOK
<1>5. Live(h)' = Live(h) /\ ~Running(r)'
  BY <1>2 DEF Live, IInv, TypeOK, Running
<1>6. h \in Users \ raced => \A g, g2 \in Live(h)' : g = g2
  BY <1>5 DEF IInv, OneRolePerUser
<1>7. /\ h \in Roles => status'[h] = "active"
      /\ status[h] # "absent" => status'[h] # "absent"
      /\ h \in Users /\ status'[h] = "absent" => \A g \in Roles : rows'[<<h, g>>] = "never"
  BY <1>2 DEF IInv, Existing
<1>8. h \in interrupted'
  BY <1>2
<1> QED
  BY <1>1, <1>3, <1>4, <1>5, <1>6, <1>7, <1>8, OwnInv

\* A user is made: it has no role yet.
LEMMA CreateInv ==
  ASSUME IInv, NEW r \in Requests, createUser(r)
  PROVE  IInv'
<1>1. PICK h \in Holders : h = req[r].holder /\ Running(r) /\ req[r].wants \in Asked(h)
  BY DEF IInv, Asking, Running, createUser
<1> DEFINE wants == req[r].wants
<1> DEFINE label == IF wants.grants = {} THEN "refresh" ELSE "grant"
<1>2. /\ pc' = [pc EXCEPT ![r] = label]
      /\ status' = [status EXCEPT ![h] = wants.status]
      /\ UNCHANGED <<rows, audit, req, read, saved, refused, raced, interrupted, asked>>
      /\ pc[r] = "insert"
  BY <1>1 DEF createUser, Goto, history
<1>3. /\ wants.status \in {"active", "suspended"}
      /\ h \in Roles => wants.status = "active"
  BY <1>1, AccessTyped DEF IInv
<1>4. /\ pc'[r] = label /\ status'[h] = wants.status
      /\ \A q \in Requests \ {r} : pc'[q] = pc[q]
      /\ \A x \in Holders \ {h} : status'[x] = status[x]
  BY <1>2 DEF IInv, TypeOK
<1>5. TypeOK'
  <2>1. status' \in [Holders -> Status]
    BY <1>2, <1>3 DEF IInv, TypeOK, Status
  <2> QED
    BY <1>2, <2>1 DEF IInv, TypeOK
<1>6. Owned(r)
  BY <1>1, <1>2, <1>4 DEF Owned
<1>7. ASSUME h \notin raced PROVE h \in Users /\ Live(h) = {}
  <2>1. h \in Users /\ status[h] = "absent"
    BY <1>1, <1>2, <1>7 DEF IInv, Progress, ProgressOf
  <2>2. Grantable(h) = Roles
    BY <2>1, HoldersAssumption DEF Grantable
  <2> QED
    BY <2>1, <2>2 DEF IInv, Existing, Live
<1>8. Live(h)' = Live(h)
  BY <1>2 DEF Live
<1>9. ASSUME h \notin raced PROVE ProgressOf(r)'
  <2>1. req'[r].holder = h /\ req'[r].wants = wants
    BY <1>1, <1>2
  <2>2. Live(req[r].holder)' = {}
    BY <1>7, <1>8, <1>9, <2>1 DEF Live
  <2>3. status'[h] # "absent" /\ status'[h] = wants.status
    BY <1>3, <1>4
  <2> QED
    BY <1>4, <1>7, <1>9, <2>1, <2>2, <2>3 DEF ProgressOf
<1>10. WorkedOn(h)'
  BY <1>1, <1>2, <1>4 DEF WorkedOn, Running
<1>11. h \in Users \ raced => \A g, g2 \in Live(h)' : g = g2
  BY <1>7, <1>8
<1> QED
  BY <1>1, <1>3, <1>4, <1>5, <1>6, <1>9, <1>10, <1>11, OwnInv

\* A statement that finds the holder of the request.
LEMMA FindInv ==
  ASSUME IInv, NEW r \in Requests, findHolder(r)
  PROVE  IInv'
<1>1. PICK h \in Holders : h = req[r].holder /\ Running(r) /\ req[r].wants \in Asked(h)
  BY DEF IInv, Asking, Running, findHolder
<1> DEFINE label == IF h \in Users THEN "set status" ELSE "revoke"
<1>2. /\ pc' = [pc EXCEPT ![r] = label]
      /\ UNCHANGED <<rows, status, audit, req, read, saved, refused, raced, interrupted, asked>>
      /\ pc[r] = "find"
  BY <1>1 DEF findHolder, Goto, history
<1>3. pc'[r] = label /\ \A q \in Requests \ {r} : pc'[q] = pc[q]
  BY <1>2 DEF IInv, TypeOK
<1>4. TypeOK'
  BY <1>2 DEF IInv, TypeOK
<1>5. Owned(r)
  BY <1>1, <1>2, <1>3 DEF Owned
<1>6. Live(h)' = Live(h)
  BY <1>2 DEF Live
<1>7. h \in Roles => status[h] = "active" /\ req[r].wants.status = "active"
  BY <1>1, AccessTyped DEF IInv, Existing
<1>8. ASSUME h \notin raced PROVE ProgressOf(r)'
  <2>2. req'[r].holder = h /\ req'[r].wants = req[r].wants /\ status' = status
    BY <1>1, <1>2
  <2>3. CASE h \in Users
    <3>1. pc'[r] = "set status"
      BY <1>3, <2>3
    <3> QED
      BY <2>2, <2>3, <3>1 DEF ProgressOf
  <2>4. CASE h \in Roles
    <3>1. pc'[r] = "revoke"
      BY <1>3, <2>4, HoldersAssumption
    <3> QED
      BY <1>7, <2>2, <2>4, <3>1 DEF ProgressOf
  <2> QED
    BY <2>3, <2>4 DEF Holders
<1>9. WorkedOn(h)' /\ status[h] # "absent"
  <2>0. pc'[r] \in {"set status", "revoke"} /\ req' = req
    <3>1. label \in {"set status", "revoke"}
      OBVIOUS
    <3> QED
      BY <1>2, <1>3, <3>1
  <2>1. Running(r)' /\ req'[r].holder = h
    BY <1>1, <2>0 DEF Running
  <2>2. status[h] # "absent"
    BY <1>1, <1>2 DEF IInv, Existing
  <2> QED
    BY <2>1, <2>2 DEF WorkedOn
<1>10. /\ status'[h] # "absent"
       /\ h \in Roles => status'[h] = "active"
       /\ h \in Users /\ status'[h] = "absent" => \A g \in Roles : rows'[<<h, g>>] = "never"
       /\ h \in Users \ raced => \A g, g2 \in Live(h)' : g = g2
  BY <1>2, <1>6, <1>9 DEF IInv, Existing, OneRolePerUser
<1> QED
  BY <1>1, <1>4, <1>5, <1>8, <1>9, <1>10, OwnInv

\* The status of a user is set.
LEMMA SetStatusInv ==
  ASSUME IInv, NEW r \in Requests, updateUserStatus(r)
  PROVE  IInv'
<1>1. PICK h \in Holders : h = req[r].holder /\ Running(r) /\ req[r].wants \in Asked(h)
  BY DEF IInv, Asking, Running, updateUserStatus
<1> DEFINE wants == req[r].wants
<1>2. /\ pc' = [pc EXCEPT ![r] = "revoke"]
      /\ status' = [status EXCEPT ![h] = wants.status]
      /\ UNCHANGED <<rows, audit, req, read, saved, refused, raced, interrupted, asked>>
      /\ pc[r] = "set status"
  BY <1>1 DEF updateUserStatus, Goto, history
<1>3. /\ wants.status \in {"active", "suspended"}
      /\ h \in Roles => wants.status = "active"
  BY <1>1, AccessTyped DEF IInv
<1>4. /\ pc'[r] = "revoke" /\ status'[h] = wants.status
      /\ \A q \in Requests \ {r} : pc'[q] = pc[q]
      /\ \A x \in Holders \ {h} : status'[x] = status[x]
  BY <1>2 DEF IInv, TypeOK
<1>5. TypeOK'
  <2>1. status' \in [Holders -> Status]
    BY <1>2, <1>3 DEF IInv, TypeOK, Status
  <2> QED
    BY <1>2, <2>1 DEF IInv, TypeOK
<1>6. Owned(r)
  BY <1>1, <1>2, <1>4 DEF Owned
<1>7. ProgressOf(r)'
  BY <1>1, <1>2, <1>3, <1>4 DEF ProgressOf
<1>8. WorkedOn(h)'
  BY <1>1, <1>2, <1>4 DEF WorkedOn, Running
<1>9. h \in Users \ raced => \A g, g2 \in Live(h)' : g = g2
  BY <1>2 DEF IInv, OneRolePerUser, Live
<1> QED
  BY <1>1, <1>3, <1>4, <1>5, <1>6, <1>7, <1>8, <1>9, OwnInv

\* Every live row of the holder is marked deleted.
LEMMA RevokedRows ==
  ASSUME IInv, NEW h \in Holders, rows' = Revoked(h)
  PROVE  /\ rows' \in [Keys -> RowState]
         /\ Live(h)' = {}
         /\ \A k \in Keys : k[1] # h => rows'[k] = rows[k]
         /\ \A k \in Keys : rows[k] = "never" => rows'[k] = "never"
<1>1. \A k \in Keys :
        rows'[k] = IF k[1] = h /\ rows[k] = "live" THEN "deleted" ELSE rows[k]
  BY DEF Revoked
<1>2. rows' \in [Keys -> RowState]
  BY DEF Revoked, IInv, TypeOK, RowState
<1>3. ASSUME NEW g \in Grantable(h), rows'[<<h, g>>] = "live" PROVE FALSE
  <2>1. <<h, g>> \in Keys /\ <<h, g>>[1] = h
    BY KeysOfHolder
  <2> QED
    BY <1>1, <1>3, <2>1
<1>4. Live(h)' = {}
  BY <1>3 DEF Live
<1> QED
  BY <1>1, <1>2, <1>4

\* All that the holder was granted is revoked.
LEMMA RevokeInv ==
  ASSUME IInv, NEW r \in Requests, revokeAll(r)
  PROVE  IInv'
<1>1. PICK h \in Holders : h = req[r].holder /\ Running(r) /\ req[r].wants \in Asked(h)
  BY DEF IInv, Asking, Running, revokeAll
<1> DEFINE wants == req[r].wants
<1> DEFINE label == IF wants.grants = {} THEN "refresh" ELSE "grant"
<1>2. /\ pc' = [pc EXCEPT ![r] = label]
      /\ rows' = Revoked(h)
      /\ UNCHANGED <<status, audit, req, read, saved, refused, raced, interrupted, asked>>
      /\ pc[r] = "revoke"
  BY <1>1 DEF revokeAll, Goto, history
<1>3. pc'[r] = label /\ \A q \in Requests \ {r} : pc'[q] = pc[q]
  BY <1>2 DEF IInv, TypeOK
<1>4. /\ rows' \in [Keys -> RowState]
      /\ Live(h)' = {}
      /\ \A k \in Keys : k[1] # h => rows'[k] = rows[k]
      /\ \A k \in Keys : rows[k] = "never" => rows'[k] = "never"
  BY <1>2, RevokedRows
<1>5. TypeOK'
  BY <1>2, <1>4 DEF IInv, TypeOK
<1>6. Owned(r)
  BY <1>1, <1>2, <1>3, <1>4 DEF Owned
<1>7. ASSUME h \notin raced PROVE ProgressOf(r)'
  <2>1. status[h] = wants.status
    BY <1>1, <1>2, <1>7 DEF IInv, Progress, ProgressOf
  <2>2. req'[r].holder = h /\ req'[r].wants = wants /\ status' = status
    BY <1>1, <1>2
  <2>3. Live(req[r].holder)' = {}
    BY <1>4, <2>2 DEF Live
  <2> QED
    BY <1>3, <2>1, <2>2, <2>3 DEF ProgressOf
<1>8. WorkedOn(h)' /\ status'[h] # "absent"
  BY <1>1, <1>2, <1>3 DEF WorkedOn, Running, IInv, Existing
<1>9. h \in Roles => status'[h] = "active"
  BY <1>2 DEF IInv, Existing
<1>10. h \in Users /\ status'[h] = "absent" => \A g \in Roles : rows'[<<h, g>>] = "never"
  BY <1>2, <1>4 DEF IInv, Existing, Keys
<1> QED
  BY <1>1, <1>4, <1>5, <1>6, <1>7, <1>8, <1>9, <1>10, OwnInv

\* The rows of the grants that were asked for are inserted.
LEMMA InsertedRows ==
  ASSUME IInv, NEW h \in Holders, NEW wants \in Asked(h),
         rows' = [k \in Keys |-> IF k \in {<<h, g>> : g \in wants.grants} THEN "live" ELSE rows[k]]
  PROVE  /\ rows' \in [Keys -> RowState]
         /\ \A k \in Keys : k[1] # h => rows'[k] = rows[k]
         /\ Live(h)' = Live(h) \cup wants.grants
<1>1. \A k \in Keys :
        rows'[k] = IF k \in {<<h, g>> : g \in wants.grants} THEN "live" ELSE rows[k]
  OBVIOUS
<1>2. rows' \in [Keys -> RowState]
  BY DEF IInv, TypeOK, RowState
<1>3. \A g \in Grantable(h) : rows'[<<h, g>>] = IF g \in wants.grants THEN "live" ELSE rows[<<h, g>>]
  <2> SUFFICES ASSUME NEW g \in Grantable(h)
               PROVE rows'[<<h, g>>] = IF g \in wants.grants THEN "live" ELSE rows[<<h, g>>]
    OBVIOUS
  <2>1. <<h, g>> \in Keys
    BY KeysOfHolder
  <2>2. <<h, g>> \in {<<h, g2>> : g2 \in wants.grants} <=> g \in wants.grants
    OBVIOUS
  <2> QED
    BY <1>1, <2>1, <2>2
<1>4. wants.grants \subseteq Grantable(h)
  BY AccessTyped DEF IInv
<1>5. Live(h)' = Live(h) \cup wants.grants
  BY <1>3, <1>4 DEF Live
<1> QED
  BY <1>1, <1>2, <1>5

\* The grants are inserted, or the unique index refuses one and the request ends.
LEMMA GrantInv ==
  ASSUME IInv, NEW r \in Requests, insertGrants(r)
  PROVE  IInv'
<1>1. PICK h \in Holders : h = req[r].holder /\ Running(r) /\ req[r].wants \in Asked(h)
  BY DEF IInv, Asking, Running, insertGrants
<1> DEFINE wants == req[r].wants
<1> DEFINE wanted == {<<h, g>> : g \in wants.grants}
<1>2. pc[r] = "grant" /\ UNCHANGED <<status, audit, saved, raced, interrupted, asked>>
  BY DEF insertGrants
<1>3. h \notin raced => Live(h) = {} /\ status[h] = wants.status
  BY <1>1, <1>2 DEF IInv, Progress, ProgressOf
<1>4. CASE \A k \in wanted : KeyIsFree(k)
  <2>1. /\ rows' = [k \in Keys |-> IF k \in wanted THEN "live" ELSE rows[k]]
        /\ pc' = [pc EXCEPT ![r] = "refresh"]
        /\ UNCHANGED <<req, read, refused>>
    BY <1>1, <1>4 DEF insertGrants, Goto
  <2>2. pc'[r] = "refresh" /\ \A q \in Requests \ {r} : pc'[q] = pc[q]
    BY <2>1 DEF IInv, TypeOK
  <2>3. /\ rows' \in [Keys -> RowState]
        /\ \A k \in Keys : k[1] # h => rows'[k] = rows[k]
        /\ Live(h)' = Live(h) \cup wants.grants
    BY <1>1, <2>1, InsertedRows
  <2>4. TypeOK'
    BY <1>2, <2>1, <2>3 DEF IInv, TypeOK
  <2>5. Owned(r)
    BY <1>1, <1>2, <2>1, <2>2, <2>3 DEF Owned
  <2>6. ASSUME h \notin raced PROVE ProgressOf(r)'
    <3>1. req'[r].holder = h /\ req'[r].wants = wants /\ status' = status
      BY <1>1, <1>2, <2>1
    <3>2. Live(req[r].holder)' = wants.grants
      BY <1>3, <2>3, <2>6, <3>1 DEF Live
    <3> QED
      BY <1>3, <2>2, <2>6, <3>1, <3>2 DEF ProgressOf
  <2>7. WorkedOn(h)' /\ status'[h] # "absent"
    BY <1>1, <1>2, <2>1, <2>2 DEF WorkedOn, Running, IInv, Existing
  <2>8. h \in Roles => status'[h] = "active"
    BY <1>2 DEF IInv, Existing
  <2>9. h \in Users \ raced => \A g, g2 \in Live(h)' : g = g2
    BY <1>1, <1>3, <2>3, OneRoleAsked
  <2> QED
    BY <1>1, <2>4, <2>5, <2>6, <2>7, <2>8, <2>9, OwnInv
<1>5. CASE ~ \A k \in wanted : KeyIsFree(k)
  <2>1. /\ pc' = [pc EXCEPT ![r] = "failed"]
        /\ req' = [req EXCEPT ![r] = NoRequest]
        /\ read' = [read EXCEPT ![r] = None]
        /\ refused' = refused \cup {h}
        /\ rows' = rows
    BY <1>1, <1>5 DEF insertGrants, Return, Goto
  <2>2. TypeOK'
    <3>1. None \in AccessRecord /\ NoRequest \in [holder: Holders \cup {"none"}, wants: AccessRecord]
      BY <1>1, AccessTyped DEF IInv, NoRequest
    <3> QED
      BY <1>2, <2>1, <3>1 DEF IInv, TypeOK
  <2>3. Owned(r)
    BY <1>1, <1>2, <2>1 DEF Owned, IInv, TypeOK
  <2>4. ~Running(r)' /\ Live(h)' = Live(h)
    BY <2>1 DEF IInv, TypeOK, Running, Live
  <2>5. h \notin raced' \cup interrupted' => SavedOf(h)'
    BY <1>2, <1>3, <2>1, <2>4 DEF SavedOf
  <2>6. /\ h \in Roles => status'[h] = "active"
        /\ status[h] # "absent" => status'[h] # "absent"
        /\ h \in Users /\ status'[h] = "absent" => \A g \in Roles : rows'[<<h, g>>] = "never"
        /\ h \in Users \ raced => \A g, g2 \in Live(h)' : g = g2
    BY <1>2, <2>1, <2>4 DEF IInv, Existing, OneRolePerUser
  <2> QED
    BY <1>1, <2>2, <2>3, <2>4, <2>5, <2>6, OwnInv
<1> QED
  BY <1>4, <1>5

\* The request reads back what the holder has.
LEMMA ReadInv ==
  ASSUME IInv, NEW r \in Requests, readBack(r)
  PROVE  IInv'
<1>1. PICK h \in Holders : h = req[r].holder /\ Running(r) /\ req[r].wants \in Asked(h)
  BY DEF IInv, Asking, Running, readBack
<1> DEFINE wants == req[r].wants
<1>2. /\ pc' = [pc EXCEPT ![r] = "log"]
      /\ read' = [read EXCEPT ![r] = Access(h)]
      /\ UNCHANGED <<rows, status, audit, req, saved, refused, raced, interrupted, asked>>
      /\ pc[r] = "refresh"
  BY <1>1 DEF readBack, Goto, history
<1>3. /\ pc'[r] = "log" /\ read'[r] = Access(h)
      /\ \A q \in Requests \ {r} : pc'[q] = pc[q] /\ read'[q] = read[q]
  BY <1>2 DEF IInv, TypeOK
<1>4. TypeOK'
  <2>1. Access(h) \in AccessRecord
    BY AccessTyped DEF IInv
  <2> QED
    BY <1>2, <2>1 DEF IInv, TypeOK
<1>5. Owned(r)
  BY <1>1, <1>2, <1>3 DEF Owned
<1>6. Live(h)' = Live(h)
  BY <1>2 DEF Live
<1>7. ASSUME h \notin raced PROVE ProgressOf(r)'
  <2>1. status[h] = wants.status /\ Live(h) = wants.grants
    BY <1>1, <1>2, <1>7 DEF IInv, Progress, ProgressOf
  <2>2. wants = [grants |-> wants.grants, status |-> wants.status]
    BY <1>1, AccessTyped DEF IInv
  <2>3. read'[r] = wants
    BY <1>3, <2>1, <2>2 DEF Access
  <2>4. req'[r].holder = h /\ req'[r].wants = wants /\ status' = status /\ rows' = rows
    BY <1>1, <1>2
  <2>5. Live(req[r].holder)' = wants.grants
    BY <1>6, <2>1, <2>4 DEF Live
  <2> QED
    BY <1>3, <2>1, <2>3, <2>4, <2>5 DEF ProgressOf
<1>8. WorkedOn(h)' /\ status'[h] # "absent"
  BY <1>1, <1>2, <1>3 DEF WorkedOn, Running, IInv, Existing
<1>9. /\ h \in Roles => status'[h] = "active"
      /\ h \in Users /\ status'[h] = "absent" => \A g \in Roles : rows'[<<h, g>>] = "never"
      /\ h \in Users \ raced => \A g, g2 \in Live(h)' : g = g2
  BY <1>2, <1>6 DEF IInv, Existing, OneRolePerUser
<1> QED
  BY <1>1, <1>4, <1>5, <1>7, <1>8, <1>9, OwnInv

\* The audit log tells what was read back, and the request ends.
LEMMA LogInv ==
  ASSUME IInv, NEW r \in Requests, appendAuditLog(r)
  PROVE  IInv'
<1>1. PICK h \in Holders : h = req[r].holder /\ Running(r) /\ req[r].wants \in Asked(h)
  BY DEF IInv, Asking, Running, appendAuditLog
<1> DEFINE wants == req[r].wants
<1>2. /\ pc' = [pc EXCEPT ![r] = "done"]
      /\ req' = [req EXCEPT ![r] = NoRequest]
      /\ read' = [read EXCEPT ![r] = None]
      /\ audit' = [audit EXCEPT ![h] = read[r]]
      /\ saved' = [saved EXCEPT ![h] = wants]
      /\ refused' = refused \ {h}
      /\ UNCHANGED <<rows, status, raced, interrupted, asked>>
      /\ pc[r] = "log"
  BY <1>1 DEF appendAuditLog, Return, Goto
<1>3. TypeOK'
  <2>1. /\ None \in AccessRecord /\ NoRequest \in [holder: Holders \cup {"none"}, wants: AccessRecord]
        /\ wants \in AccessRecord /\ read[r] \in AccessRecord
    BY <1>1, AccessTyped DEF IInv, NoRequest, TypeOK
  <2> QED
    BY <1>2, <2>1 DEF IInv, TypeOK
<1>4. Owned(r)
  BY <1>1, <1>2 DEF Owned, IInv, TypeOK
<1>5. /\ ~Running(r)' /\ Live(h)' = Live(h) /\ Access(h)' = Access(h)
      /\ audit'[h] = read[r] /\ saved'[h] = wants /\ h \notin refused'
  BY <1>2 DEF IInv, TypeOK, Running, Live, Access
<1>6. ASSUME h \notin raced PROVE SavedOf(h)'
  <2>1. status[h] = wants.status /\ Live(h) = wants.grants /\ read[r] = wants
    BY <1>1, <1>2, <1>6 DEF IInv, Progress, ProgressOf
  <2>2. wants = [grants |-> wants.grants, status |-> wants.status]
    BY <1>1, AccessTyped DEF IInv
  <2>3. Access(h) = wants
    BY <2>1, <2>2 DEF Access
  <2> QED
    BY <1>5, <2>1, <2>3 DEF SavedOf
<1>7. /\ h \in Roles => status'[h] = "active"
      /\ status[h] # "absent" => status'[h] # "absent"
      /\ h \in Users /\ status'[h] = "absent" => \A g \in Roles : rows'[<<h, g>>] = "never"
      /\ h \in Users \ raced => \A g, g2 \in Live(h)' : g = g2
  BY <1>2, <1>5 DEF IInv, Existing, OneRolePerUser
<1> QED
  BY <1>1, <1>2, <1>3, <1>4, <1>5, <1>6, <1>7, OwnInv

-------------------------------------------------------------------------------
\* Every step keeps the invariant.
LEMMA NextIInv == IInv /\ [Next]_vars => IInv'
<1> SUFFICES ASSUME IInv, [Next]_vars PROVE IInv'
  OBVIOUS
<1>1. CASE UNCHANGED vars
  <2>1. \A h \in Holders : Live(h)' = Live(h) /\ Access(h)' = Access(h)
    BY <1>1 DEF vars, history, Live, Access
  <2>2. TypeOK' /\ Alone' /\ Asking' /\ Existing'
    BY <1>1 DEF vars, history, IInv, TypeOK, Alone, Asking, Asked, Existing, Running
  <2>3. Progress'
    BY <1>1 DEF vars, history, IInv, Progress, ProgressOf, Running, Live
  <2>4. AccessAsSaved'
    BY <1>1, <2>1 DEF vars, history, IInv, AccessAsSaved, WorkedOn, Running
  <2>5. OneRolePerUser'
    BY <1>1, <2>1 DEF vars, history, IInv, OneRolePerUser, Holders
  <2> QED
    BY <2>2, <2>3, <2>4, <2>5 DEF IInv
<1>2. CASE Next
  BY <1>2, StartInv, FailInv, CreateInv, FindInv, SetStatusInv, RevokeInv, GrantInv, ReadInv,
     LogInv DEF Next, Step
<1> QED
  BY <1>1, <1>2

\* The invariant holds of every reachable state.
LEMMA Invariance == Spec => []IInv
  BY InitIInv, NextIInv, PTL DEF Spec

\* Every variable has its type: a request works on a role or a user there is, and
\* asks what can be asked of it.
THEOREM TypeCorrect == Spec => []TypeOK
<1>1. IInv => TypeOK
  BY DEF IInv
<1> QED
  BY <1>1, Invariance, PTL

\* Saves that neither overlap nor die leave a holder with the access the last one
\* asked for, and an audit log that says so; a refused one leaves it with none.
THEOREM SavedAccessStands == Spec => []AccessAsSaved
<1>1. IInv => AccessAsSaved
  BY DEF IInv
<1> QED
  BY <1>1, Invariance, PTL

\* A user has one role at most unless saves of the user overlapped.
THEOREM UserHasOneRole == Spec => []OneRolePerUser
<1>1. IInv => OneRolePerUser
  BY DEF IInv
<1> QED
  BY <1>1, Invariance, PTL

-------------------------------------------------------------------------------
(* What is left of earlier grants, however the saves of a holder overlap.  *)

\* A request that makes a user works on it alone, and the user is not there yet.
Fresh ==
  \A r \in Requests : pc[r] = "insert" =>
    /\ req[r].holder \in Users /\ status[req[r].holder] = "absent"
    /\ \A q \in Requests : Running(q) /\ req[q].holder = req[r].holder => q = r

\* What a request wants is among what is asked of its holder.
AskedFor ==
  \A r \in Requests : Running(r) => req[r].wants.grants \subseteq asked[req[r].holder]

PastRevoke == {"grant", "refresh", "log"}

\* Once one of the saves at work has deleted the rows, what is live was asked for by
\* one of them, and it stays so when they have all ended.
Cleared(h) == \E r \in Requests : pc[r] \in PastRevoke /\ req[r].holder = h
NothingLeft ==
  \A h \in Holders \ interrupted : Cleared(h) \/ ~WorkedOn(h) => Live(h) \subseteq asked[h]

Leftover == Fresh /\ AskedFor /\ NothingLeft

\* A statement of r keeps all this if it leaves its holder with nothing but what was
\* asked for, or touches no row and is not past the deletion itself.
LEMMA LeftoverStep ==
  ASSUME IInv, Leftover, NEW r \in Requests, NEW h \in Holders,
         Running(r), h = req[r].holder,
         asked' = asked, interrupted \subseteq interrupted',
         \A q \in Requests \ {r} : pc'[q] = pc[q] /\ req'[q] = req[q],
         req'[r] = req[r] \/ pc'[r] \in {"done", "failed"},
         pc'[r] # "insert",
         \A k \in Keys : k[1] # h => rows'[k] = rows[k],
         \A x \in Holders \ {h} : status'[x] = status[x],
         \/ h \in interrupted'
         \/ Live(h)' \subseteq asked[h]
         \/ rows' = rows /\ req'[r] = req[r] /\ pc'[r] \in {"set status", "revoke"}
  PROVE  Leftover'
<1>1. \A q \in Requests : Running(q)' =>
        /\ Running(q) /\ req'[q] = req[q]
        /\ q # r => pc'[q] = pc[q]
  BY DEF Running
<1>2. Fresh'
  <2> SUFFICES ASSUME NEW p \in Requests, pc'[p] = "insert"
               PROVE  /\ req'[p].holder \in Users /\ status'[req'[p].holder] = "absent"
                      /\ \A q \in Requests : Running(q)' /\ req'[q].holder = req'[p].holder => q = p
    BY DEF Fresh
  <2>1. p # r /\ pc[p] = "insert" /\ req'[p] = req[p]
    OBVIOUS
  <2>2. /\ req[p].holder \in Users /\ status[req[p].holder] = "absent"
        /\ \A q \in Requests : Running(q) /\ req[q].holder = req[p].holder => q = p
    BY <2>1 DEF Leftover, Fresh
  <2>3. req[p].holder \in Holders \ {h}
    BY <2>1, <2>2 DEF Holders
  <2>4. ASSUME NEW q \in Requests, Running(q)', req'[q].holder = req'[p].holder PROVE q = p
    BY <1>1, <2>1, <2>2, <2>4
  <2> QED
    BY <2>1, <2>2, <2>3, <2>4
<1>3. AskedFor'
  BY <1>1 DEF Leftover, AskedFor
<1>4. NothingLeft'
  <2> SUFFICES ASSUME NEW x \in Holders, x \notin interrupted', Cleared(x)' \/ ~WorkedOn(x)'
               PROVE  Live(x)' \subseteq asked[x]
    BY DEF NothingLeft
  <2>1. CASE x = h /\ Live(h)' \subseteq asked[h]
    BY <2>1
  <2>2. CASE x # h \/ (rows' = rows /\ req'[r] = req[r] /\ pc'[r] \in {"set status", "revoke"})
    <3>1. Cleared(x)' => Cleared(x)
      <4> SUFFICES ASSUME NEW q \in Requests, pc'[q] \in PastRevoke, req'[q].holder = x
                   PROVE  Cleared(x)
        BY DEF Cleared
      <4>1. q # r
        BY <2>2 DEF PastRevoke
      <4> QED
        BY <4>1 DEF Cleared
    <3>2. ~WorkedOn(x)' => ~WorkedOn(x)
      <4> SUFFICES ASSUME NEW q \in Requests, Running(q), req[q].holder = x PROVE WorkedOn(x)'
        BY DEF WorkedOn
      <4>1. Running(q)' /\ req'[q].holder = x
        BY <2>2 DEF Running
      <4> QED
        BY <4>1 DEF WorkedOn
    <3>3. Live(x)' = Live(x)
      <4>1. CASE x # h
        <5>1. \A g \in Grantable(x) : <<x, g>> \in Keys /\ <<x, g>>[1] = x
          BY KeysOfHolder
        <5>2. \A g \in Grantable(x) : rows'[<<x, g>>] = rows[<<x, g>>]
          BY <4>1, <5>1
        <5> QED
          BY <5>2 DEF Live
      <4>2. CASE rows' = rows
        BY <4>2 DEF Live
      <4> QED
        BY <2>2, <4>1, <4>2
    <3>4. x \notin interrupted
      OBVIOUS
    <3> QED
      BY <3>1, <3>2, <3>3, <3>4 DEF Leftover, NothingLeft
  <2> QED
    BY <2>1, <2>2
<1> QED
  BY <1>2, <1>3, <1>4 DEF Leftover

\* A save begins: what its holder has may be left from before until it deletes the rows.
LEMMA LeftoverStart ==
  ASSUME IInv, Leftover, NEW r \in Requests, Start(r)
  PROVE  Leftover'
<1>0. PICK h \in Holders : \E wants \in Asked(h) :
        \/ status[h] # "absent" /\ Begin(r, h, wants, "find")
        \/ h \in Users /\ status[h] = "absent" /\ ~WorkedOn(h) /\ Begin(r, h, wants, "insert")
  BY DEF Start
<1>a. PICK wants \in Asked(h) :
        \/ status[h] # "absent" /\ Begin(r, h, wants, "find")
        \/ h \in Users /\ status[h] = "absent" /\ ~WorkedOn(h) /\ Begin(r, h, wants, "insert")
  BY <1>0
<1>1. PICK label \in {"find", "insert"} :
        /\ Begin(r, h, wants, label)
        /\ label = "find" => status[h] # "absent"
        /\ label = "insert" => h \in Users /\ status[h] = "absent" /\ ~WorkedOn(h)
  BY <1>a
<1>2. /\ pc' = [pc EXCEPT ![r] = label]
      /\ req' = [req EXCEPT ![r] = [holder |-> h, wants |-> wants]]
      /\ asked' = [asked EXCEPT ![h] = wants.grants \cup (IF WorkedOn(h) THEN asked[h] ELSE {})]
      /\ UNCHANGED <<rows, status, interrupted>>
      /\ pc[r] = "idle"
  BY <1>1 DEF Begin, Goto
<1>3. /\ pc'[r] = label /\ req'[r].holder = h /\ req'[r].wants = wants
      /\ \A q \in Requests \ {r} : pc'[q] = pc[q] /\ req'[q] = req[q]
      /\ asked'[h] = wants.grants \cup (IF WorkedOn(h) THEN asked[h] ELSE {})
      /\ \A x \in Holders \ {h} : asked'[x] = asked[x]
  BY <1>2 DEF IInv, TypeOK
<1>4. /\ ~Running(r) /\ Running(r)'
      /\ \A q \in Requests \ {r} : Running(q)' <=> Running(q)
  BY <1>2, <1>3 DEF Running
<1>5. Fresh'
  <2> SUFFICES ASSUME NEW p \in Requests, pc'[p] = "insert",
                      NEW q \in Requests, Running(q)', req'[q].holder = req'[p].holder
               PROVE  /\ req'[p].holder \in Users /\ status'[req'[p].holder] = "absent"
                      /\ q = p
    <3>1. ASSUME NEW p \in Requests, pc'[p] = "insert" PROVE Running(p)'
      BY <3>1 DEF Running
    <3> QED
      BY <3>1 DEF Fresh
  <2>1. CASE p = r
    <3>1. h \in Users /\ status[h] = "absent" /\ ~WorkedOn(h)
      BY <1>1, <1>3, <2>1
    <3>2. ASSUME q # r PROVE FALSE
      <4>1. Running(q) /\ req[q].holder = h
        BY <1>3, <1>4, <2>1, <3>2
      <4> QED
        BY <3>1, <4>1 DEF WorkedOn
    <3> QED
      BY <1>2, <1>3, <2>1, <3>1, <3>2
  <2>2. CASE p # r
    <3>1. pc[p] = "insert" /\ req'[p] = req[p]
      BY <1>3, <2>2
    <3>2. /\ req[p].holder \in Users /\ status[req[p].holder] = "absent"
          /\ \A o \in Requests : Running(o) /\ req[o].holder = req[p].holder => o = p
      BY <3>1 DEF Leftover, Fresh
    <3>3. q # r
      <4>1. ASSUME q = r PROVE FALSE
        <5>1. req[p].holder = h /\ status[h] = "absent"
          BY <1>3, <3>1, <3>2, <4>1
        <5>2. ~WorkedOn(h)
          BY <1>1, <5>1
        <5>3. Running(p)
          BY <3>1 DEF Running
        <5> QED
          BY <5>1, <5>2, <5>3 DEF WorkedOn
      <4> QED
        BY <4>1
    <3> QED
      BY <1>2, <1>3, <1>4, <3>1, <3>2, <3>3
  <2> QED
    BY <2>1, <2>2
<1>6. AskedFor'
  <2> SUFFICES ASSUME NEW q \in Requests, Running(q)'
               PROVE  req'[q].wants.grants \subseteq asked'[req'[q].holder]
    BY DEF AskedFor
  <2>1. CASE q = r
    BY <1>3, <2>1
  <2>2. CASE q # r
    <3>1. Running(q) /\ req'[q] = req[q] /\ req[q].holder \in Holders
      BY <1>3, <1>4, <2>2 DEF IInv, Asking
    <3>2. req[q].wants.grants \subseteq asked[req[q].holder]
      BY <3>1 DEF Leftover, AskedFor
    <3>3. req[q].holder = h => WorkedOn(h)
      BY <3>1 DEF WorkedOn
    <3> QED
      BY <1>3, <3>1, <3>2, <3>3
  <2> QED
    BY <2>1, <2>2
<1>7. NothingLeft'
  <2> SUFFICES ASSUME NEW x \in Holders, x \notin interrupted', Cleared(x)' \/ ~WorkedOn(x)'
               PROVE  Live(x)' \subseteq asked'[x]
    BY DEF NothingLeft
  <2>1. Live(x)' = Live(x) /\ x \notin interrupted
    BY <1>2 DEF Live
  <2>2. Cleared(x)' => Cleared(x) /\ WorkedOn(x)
    <3> SUFFICES ASSUME NEW q \in Requests, pc'[q] \in PastRevoke, req'[q].holder = x
                 PROVE  Cleared(x) /\ WorkedOn(x)
      BY DEF Cleared
    <3>1. q # r
      BY <1>3 DEF PastRevoke
    <3>2. pc[q] \in PastRevoke /\ req[q].holder = x /\ Running(q)
      BY <1>3, <3>1 DEF PastRevoke, Running
    <3> QED
      BY <3>2 DEF Cleared, WorkedOn
  <2>3. WorkedOn(h)'
    BY <1>3, <1>4 DEF WorkedOn
  <2>4. CASE x = h
    <3>1. Cleared(h) /\ WorkedOn(h)
      BY <2>2, <2>3, <2>4
    <3>2. Live(h) \subseteq asked[h]
      BY <2>1, <2>4, <3>1 DEF Leftover, NothingLeft
    <3> QED
      BY <1>3, <2>1, <2>4, <3>1, <3>2
  <2>5. CASE x # h
    <3>1. ~WorkedOn(x)' => ~WorkedOn(x)
      <4> SUFFICES ASSUME NEW q \in Requests, Running(q), req[q].holder = x PROVE WorkedOn(x)'
        BY DEF WorkedOn
      <4>1. Running(q)' /\ req'[q].holder = x
        BY <1>3, <1>4
      <4> QED
        BY <4>1 DEF WorkedOn
    <3>2. Live(x) \subseteq asked[x]
      BY <2>1, <2>2, <3>1 DEF Leftover, NothingLeft
    <3> QED
      BY <1>3, <2>1, <2>5, <3>2
  <2> QED
    BY <2>4, <2>5
<1> QED
  BY <1>5, <1>6, <1>7 DEF Leftover

\* The statements before the deletion touch no row, and the row of a new user is the
\* first thing there is of it.
LEMMA LeftoverBefore ==
  ASSUME IInv, Leftover, NEW r \in Requests, createUser(r) \/ findHolder(r) \/ updateUserStatus(r)
  PROVE  Leftover'
<1>1. PICK h \in Holders : h = req[r].holder /\ Running(r)
  BY DEF IInv, Asking, Running, createUser, findHolder, updateUserStatus
<1>2. UNCHANGED <<rows, req, interrupted, asked>>
  BY DEF createUser, findHolder, updateUserStatus, history
<1>3. CASE createUser(r)
  <2>1. /\ pc[r] = "insert"
        /\ pc' = [pc EXCEPT ![r] = IF req[r].wants.grants = {} THEN "refresh" ELSE "grant"]
        /\ status' = [status EXCEPT ![h] = req[r].wants.status]
    BY <1>1, <1>3 DEF createUser, Goto
  <2>2. /\ pc'[r] # "insert" /\ \A q \in Requests \ {r} : pc'[q] = pc[q]
        /\ \A x \in Holders \ {h} : status'[x] = status[x]
    BY <2>1 DEF IInv, TypeOK
  <2>3. h \in Users /\ status[h] = "absent"
    BY <1>1, <2>1 DEF Leftover, Fresh
  <2>4. Grantable(h) = Roles
    BY <2>3, HoldersAssumption DEF Grantable
  <2>5. Live(h)' = {}
    BY <1>2, <2>3, <2>4 DEF IInv, Existing, Live
  <2> QED
    BY <1>1, <1>2, <2>2, <2>5, LeftoverStep
<1>4. CASE findHolder(r)
  <2>1. /\ pc' = [pc EXCEPT ![r] = IF h \in Users THEN "set status" ELSE "revoke"]
        /\ status' = status
    BY <1>1, <1>4 DEF findHolder, Goto
  <2>2. pc'[r] \in {"set status", "revoke"} /\ \A q \in Requests \ {r} : pc'[q] = pc[q]
    BY <2>1 DEF IInv, TypeOK
  <2> QED
    BY <1>1, <1>2, <2>1, <2>2, LeftoverStep
<1>5. CASE updateUserStatus(r)
  <2>1. /\ pc' = [pc EXCEPT ![r] = "revoke"]
        /\ status' = [status EXCEPT ![h] = req[r].wants.status]
    BY <1>1, <1>5 DEF updateUserStatus, Goto
  <2>2. /\ pc'[r] = "revoke" /\ \A q \in Requests \ {r} : pc'[q] = pc[q]
        /\ \A x \in Holders \ {h} : status'[x] = status[x]
    BY <2>1 DEF IInv, TypeOK
  <2> QED
    BY <1>1, <1>2, <2>2, LeftoverStep
<1> QED
  BY <1>3, <1>4, <1>5

\* The deletion leaves nothing live, and an insertion only what was asked for.
LEMMA LeftoverWrites ==
  ASSUME IInv, Leftover, NEW r \in Requests, revokeAll(r) \/ insertGrants(r)
  PROVE  Leftover'
<1>1. PICK h \in Holders : h = req[r].holder /\ Running(r) /\ req[r].wants \in Asked(h)
  BY DEF IInv, Asking, Running, revokeAll, insertGrants
<1> DEFINE wanted == {<<h, g>> : g \in req[r].wants.grants}
<1>2. UNCHANGED <<status, interrupted, asked>>
  BY DEF revokeAll, insertGrants, history
<1>3. CASE revokeAll(r)
  <2>1. /\ pc' = [pc EXCEPT ![r] = IF req[r].wants.grants = {} THEN "refresh" ELSE "grant"]
        /\ rows' = Revoked(h) /\ req' = req
    BY <1>1, <1>3 DEF revokeAll, Goto
  <2>2. pc'[r] # "insert" /\ \A q \in Requests \ {r} : pc'[q] = pc[q]
    BY <2>1 DEF IInv, TypeOK
  <2>3. Live(h)' = {} /\ \A k \in Keys : k[1] # h => rows'[k] = rows[k]
    BY <2>1, RevokedRows
  <2> QED
    BY <1>1, <1>2, <2>1, <2>2, <2>3, LeftoverStep
<1>4. ASSUME insertGrants(r), h \notin interrupted
      PROVE  Live(h) \subseteq asked[h] /\ req[r].wants.grants \subseteq asked[h]
  <2>1. pc[r] \in PastRevoke
    BY <1>4 DEF insertGrants, PastRevoke
  <2>2. Cleared(h)
    BY <1>1, <2>1 DEF Cleared
  <2> QED
    BY <1>1, <1>4, <2>2 DEF Leftover, NothingLeft, AskedFor
<1>5. CASE insertGrants(r) /\ \A k \in wanted : KeyIsFree(k)
  <2>1. /\ rows' = [k \in Keys |-> IF k \in wanted THEN "live" ELSE rows[k]]
        /\ pc' = [pc EXCEPT ![r] = "refresh"]
        /\ req' = req
    BY <1>1, <1>5 DEF insertGrants, Goto
  <2>2. pc'[r] = "refresh" /\ \A q \in Requests \ {r} : pc'[q] = pc[q]
    BY <2>1 DEF IInv, TypeOK
  <2>3. /\ \A k \in Keys : k[1] # h => rows'[k] = rows[k]
        /\ Live(h)' = Live(h) \cup req[r].wants.grants
    BY <1>1, <2>1, InsertedRows
  <2>4. h \in interrupted' \/ Live(h)' \subseteq asked[h]
    BY <1>2, <1>4, <1>5, <2>3
  <2> QED
    BY <1>1, <1>2, <2>1, <2>2, <2>3, <2>4, LeftoverStep
<1>6. CASE insertGrants(r) /\ ~ \A k \in wanted : KeyIsFree(k)
  <2>1. /\ pc' = [pc EXCEPT ![r] = "failed"]
        /\ req' = [req EXCEPT ![r] = NoRequest]
        /\ rows' = rows
    BY <1>1, <1>6 DEF insertGrants, Return, Goto
  <2>2. pc'[r] = "failed" /\ \A q \in Requests \ {r} : pc'[q] = pc[q] /\ req'[q] = req[q]
    BY <2>1 DEF IInv, TypeOK
  <2>3. Live(h)' = Live(h)
    BY <2>1 DEF Live
  <2>4. h \in interrupted' \/ Live(h)' \subseteq asked[h]
    BY <1>2, <1>4, <1>6, <2>3
  <2> QED
    BY <1>1, <1>2, <2>1, <2>2, <2>4, LeftoverStep
<1> QED
  BY <1>3, <1>5, <1>6

\* What comes after the writes, and a death, touch no row.
LEMMA LeftoverAfter ==
  ASSUME IInv, Leftover, NEW r \in Requests, readBack(r) \/ appendAuditLog(r) \/ Fail(r)
  PROVE  Leftover'
<1>1. PICK h \in Holders : h = req[r].holder /\ Running(r)
  BY DEF IInv, Asking, Running, readBack, appendAuditLog, Fail
<1>2. UNCHANGED <<rows, status, asked>> /\ interrupted \subseteq interrupted'
  BY DEF readBack, appendAuditLog, Fail, history
<1>3. h \in interrupted' \/ Live(h)' \subseteq asked[h]
  <2>1. CASE Fail(r)
    BY <1>1, <2>1 DEF Fail
  <2>2. CASE readBack(r) \/ appendAuditLog(r)
    <3>1. pc[r] \in PastRevoke
      BY <2>2 DEF readBack, appendAuditLog, PastRevoke
    <3>2. Cleared(h)
      BY <1>1, <3>1 DEF Cleared
    <3> QED
      BY <1>2, <3>2 DEF Leftover, NothingLeft, Live
  <2> QED
    BY <2>1, <2>2
<1>4. PICK label \in {"log", "done", "failed"} :
        /\ pc' = [pc EXCEPT ![r] = label]
        /\ IF label = "log" THEN req' = req ELSE req' = [req EXCEPT ![r] = NoRequest]
  BY DEF readBack, appendAuditLog, Fail, Return, Goto
<1>5. /\ pc'[r] = label
      /\ \A q \in Requests \ {r} : pc'[q] = pc[q] /\ req'[q] = req[q]
      /\ req'[r] = req[r] \/ label \in {"done", "failed"}
  BY <1>4 DEF IInv, TypeOK
<1> QED
  BY <1>1, <1>2, <1>3, <1>5, LeftoverStep

\* However the saves of a holder overlap, once they have ended without dying it has
\* nothing live but what one of them asked for.
THEOREM NothingLeftOver == Spec => []NoLeftoverGrants
<1>1. Init => Leftover
  <2> SUFFICES ASSUME Init PROVE Leftover
    OBVIOUS
  <2>1. \A r \in Requests : ~Running(r) /\ pc[r] # "insert"
    BY DEF Init, Running
  <2> QED
    BY <2>1 DEF Init, Leftover, Fresh, AskedFor, NothingLeft
<1>2. IInv /\ Leftover /\ [Next]_vars => Leftover'
  <2> SUFFICES ASSUME IInv, Leftover, [Next]_vars PROVE Leftover'
    OBVIOUS
  <2>1. CASE UNCHANGED vars
    BY <2>1 DEF vars, history, Leftover, Fresh, AskedFor, NothingLeft, Cleared, WorkedOn, Running,
       Live
  <2>2. CASE Next
    BY <2>2, LeftoverStart, LeftoverBefore, LeftoverWrites, LeftoverAfter DEF Next, Step
  <2> QED
    BY <2>1, <2>2
<1>3. Leftover => NoLeftoverGrants
  BY DEF Leftover, NothingLeft, NoLeftoverGrants
<1> QED
  BY <1>1, <1>2, <1>3, Invariance, PTL DEF Spec
===============================================================================
