------------------------------ MODULE ChessSlots ------------------------------
(***************************************************************************)
(* Seats of the chess academy's schedule slots, and the bookings that      *)
(* claim them.                                                             *)
(*                                                                         *)
(* Every HTTP request runs in one database session, that is in one         *)
(* PostgreSQL transaction at READ COMMITTED, and commits at its end.       *)
(* Requests interleave at each SQL statement.  A row therefore has its     *)
(* committed version (slots, bookings), the version its current writer     *)
(* has drafted (slotDraft, bookingDraft) and the request that holds its    *)
(* lock (slotLock, bookingLock).  A SELECT sees committed rows and the     *)
(* request's own drafts.  An UPDATE whose WHERE clause fails on what it    *)
(* sees touches nothing and does not wait; otherwise it waits for the      *)
(* lock and evaluates the clause again on the newest version.              *)
(***************************************************************************)
EXTENDS Integers, FiniteSets

CONSTANTS
  Workers,     \* request tasks of the API server, one transaction each
  Slots,       \* keys (tenant, service, starts_at) of chess_course_schedule_slots
  Bookings,    \* booking references
  Capacities,  \* capacities an operator may give to a slot
  Workload,    \* kinds of requests the clients issue
  Targets,     \* what a reschedule may name as its new slot
  BadSlot,     \* text that is not the id of any slot
  Renewed,     \* a meeting made anew for one booking; such meetings are not told apart
  None         \* SQL NULL: no slot, no meeting, no lock holder

RequestKinds ==
  {"create", "reschedule", "cancel", "complete", "confirm", "regenerate",
   "publish", "admin"}

ASSUME ConstantsAssumption ==
  /\ None \notin Workers \cup Slots \cup Bookings
  /\ BadSlot \notin Slots \cup {None}
  /\ Renewed \notin Bookings \cup {None}
  /\ Capacities \subseteq Nat \ {0}
  /\ Workload \subseteq RequestKinds
  /\ Targets \subseteq Slots \cup {None, BadSlot}

VARIABLES
  slots, slotDraft, slotLock,           \* chess_course_schedule_slots
  bookings, bookingDraft, bookingLock,  \* booking_intents
  pc, req       \* next statement of each request, and the request

slotVars == <<slotDraft, slotLock>>
bookingVars == <<bookingDraft, bookingLock>>
committed == <<slots, bookings>>
vars == <<slots, slotDraft, slotLock, bookings, bookingDraft, bookingLock,
          pc, req>>

SlotStatus == {"absent", "open", "full", "cancelled", "completed"}

\* "confirmed" stands for the statuses a booking can be rescheduled in (paid,
\* confirmed, pending); "completed" for completed, no_show, refunded and
\* in_progress; an "absent" row has not been inserted.
BookingStatus == {"absent", "captured", "confirmed", "cancelled", "completed"}

SlotRow == [status: SlotStatus, capacity: Nat, enrolled: Nat,
            meeting: Bookings \cup {None}]
\* scheduleSlot is metadata.schedule_slot_id, slot is metadata.slot_id.
BookingRow == [status: BookingStatus, scheduleSlot: Slots \cup {None},
               slot: Slots \cup {None}, meeting: Bookings \cup {Renewed, None}]

AbsentSlot == [status |-> "absent", capacity |-> 0, enrolled |-> 0, meeting |-> None]
AbsentBooking ==
  [status |-> "absent", scheduleSlot |-> None, slot |-> None, meeting |-> None]

\* slot is the slot asked for, seen and room the slot and the meeting read from
\* the booking's metadata, status the status to write, "absent" for none; capacity
\* and todo belong to a publication.
Request == [kind: RequestKinds \cup {"none"}, booking: Bookings \cup {None},
            slot: Slots \cup {None, BadSlot}, seen: Slots \cup {None},
            room: Bookings \cup {Renewed, None}, status: BookingStatus,
            capacity: Nat, todo: SUBSET Slots]
NoRequest == [kind |-> "none", booking |-> None, slot |-> None, seen |-> None,
              room |-> None, status |-> "absent", capacity |-> 0, todo |-> {}]

PC == {"idle", "reserve_seat", "insert", "release", "reserve", "assign",
       "read", "write", "publish", "commit", "aborted"}

\* Migrations 037 and 045 seed the table with open slots nobody has enrolled in;
\* 048 marks those full that were booked before there were bookings here.
OpenSlot(capacity) == [AbsentSlot EXCEPT !.status = "open", !.capacity = capacity]
BusySlot(capacity) ==
  [AbsentSlot EXCEPT !.status = "full", !.capacity = capacity, !.enrolled = capacity]
SeededSlots == {AbsentSlot} \cup UNION {{OpenSlot(c), BusySlot(c)} : c \in Capacities}

Init ==
  /\ slots \in [Slots -> SeededSlots]
  /\ slotDraft = slots
  /\ slotLock = [s \in Slots |-> None]
  /\ bookings = [b \in Bookings |-> AbsentBooking]
  /\ bookingDraft = bookings
  /\ bookingLock = [b \in Bookings |-> None]
  /\ pc = [w \in Workers |-> "idle"]
  /\ req = [w \in Workers |-> NoRequest]

-------------------------------------------------------------------------------
(* Rows and transactions.                                                  *)

SlotSeenBy(w, s) == IF slotLock[s] = w THEN slotDraft[s] ELSE slots[s]

WriteSlot(w, s, row) ==
  /\ slotLock[s] \in {w, None}
  /\ slotDraft' = [slotDraft EXCEPT ![s] = row]
  /\ slotLock' = [slotLock EXCEPT ![s] = w]

WriteBooking(w, b, row) ==
  /\ bookingLock[b] \in {w, None}
  /\ bookingDraft' = [bookingDraft EXCEPT ![b] = row]
  /\ bookingLock' = [bookingLock EXCEPT ![b] = w]

Unlock(lock, w) == [r \in DOMAIN lock |-> IF lock[r] = w THEN None ELSE lock[r]]

\* session.commit(): the drafts of w become the committed rows.
CommitTransaction(w) ==
  /\ slots' = [s \in Slots |-> IF slotLock[s] = w THEN slotDraft[s] ELSE slots[s]]
  /\ bookings' =
       [b \in Bookings |-> IF bookingLock[b] = w THEN bookingDraft[b] ELSE bookings[b]]
  /\ slotLock' = Unlock(slotLock, w)
  /\ bookingLock' = Unlock(bookingLock, w)
  /\ UNCHANGED <<slotDraft, bookingDraft>>

\* Mutant: the seat was taken in a transaction of its own.
RollbackKeepingSeats(w) ==
  /\ slots' = [s \in Slots |-> IF slotLock[s] = w THEN slotDraft[s] ELSE slots[s]]
  /\ bookingDraft' =
       [b \in Bookings |-> IF bookingLock[b] = w THEN bookings[b] ELSE bookingDraft[b]]
  /\ slotLock' = Unlock(slotLock, w)
  /\ bookingLock' = Unlock(bookingLock, w)
  /\ UNCHANGED <<slotDraft, bookings>>

\* Mutant: the session is left open after the error.
RollbackKeepingLocks(w) ==
  UNCHANGED <<committed, slotVars, bookingVars>>

\* A failed statement, or a session closed without commit.
RollbackTransaction(w) ==
  /\ slotDraft' = [s \in Slots |-> IF slotLock[s] = w THEN slots[s] ELSE slotDraft[s]]
  /\ bookingDraft' =
       [b \in Bookings |-> IF bookingLock[b] = w THEN bookings[b] ELSE bookingDraft[b]]
  /\ slotLock' = Unlock(slotLock, w)
  /\ bookingLock' = Unlock(bookingLock, w)
  /\ UNCHANGED committed

Goto(w, label) == pc' = [pc EXCEPT ![w] = label]

Begin(w, label, request) ==
  /\ pc[w] = "idle"
  /\ request.kind \in Workload
  /\ Goto(w, label)
  /\ req' = [req EXCEPT ![w] = request]
  /\ UNCHANGED <<committed, slotVars, bookingVars>>

EndRequest(w) ==
  /\ Goto(w, "idle")
  /\ req' = [req EXCEPT ![w] = NoRequest]

-------------------------------------------------------------------------------
(* reserve_capacity and release_capacity: one UPDATE each.                 *)

\* Mutant: the clause on enrolled_count is dropped.
HasOpenStatus(row) == row.status = "open"

HasFreeSeat(row) == row.status = "open" /\ row.enrolled < row.capacity

Reserved(row) ==
  [row EXCEPT !.enrolled = @ + 1,
              !.status = IF row.enrolled + 1 >= row.capacity THEN "full" ELSE @]

\* Mutant: the UPDATE trusts the lookup and has no WHERE clause.
ReserveUnguarded(w, s) == WriteSlot(w, s, Reserved(SlotSeenBy(w, s)))

ReserveCapacity(w, s) ==
  /\ HasFreeSeat(SlotSeenBy(w, s))
  /\ WriteSlot(w, s, Reserved(SlotSeenBy(w, s)))

\* Mutant: cancelled rows are released as well.
ReleasableCancelled(row) == row.status # "absent"

Releasable(row) == row.status \notin {"absent", "cancelled"}

\* Mutant: the greatest(..., 0) is dropped.
ReleasedBelowZero(row) ==
  [row EXCEPT !.enrolled = @ - 1,
              !.status = IF row.status = "full" /\ row.enrolled - 1 < row.capacity
                         THEN "open" ELSE @]

Released(row) ==
  LET left == IF row.enrolled > 0 THEN row.enrolled - 1 ELSE 0
  IN  [row EXCEPT !.enrolled = left,
                  !.status = IF row.status = "full" /\ left < row.capacity
                             THEN "open" ELSE @]

ReleaseCapacity(w, s) ==
  /\ Releasable(SlotSeenBy(w, s))
  /\ WriteSlot(w, s, Released(SlotSeenBy(w, s)))

-------------------------------------------------------------------------------
(* create_booking_intent.                                                  *)

\* A booking reference is a fresh uuid.
Unused(b) == bookings[b].status = "absent" /\ \A w \in Workers : req[w].booking # b

\* The request looks the slot up; a slot that is missing, not open or full
\* ends it with a validation error that changes nothing.
BeginCreate(w, b, s) ==
  /\ Unused(b)
  /\ s \in Slots => HasFreeSeat(slots[s])
  /\ Begin(w, IF s = None THEN "insert" ELSE "reserve_seat",
           [NoRequest EXCEPT !.kind = "create", !.booking = b, !.slot = s])

\* The seat is taken after the lookup; a slot filled meanwhile raises.
ReserveSeat(w) ==
  /\ pc[w] = "reserve_seat"
  /\ \/ /\ ReserveCapacity(w, req[w].slot)
        /\ Goto(w, "insert")
        /\ UNCHANGED <<req, committed, bookingVars>>
     \/ /\ ~HasFreeSeat(SlotSeenBy(w, req[w].slot))
        /\ RollbackTransaction(w)
        /\ EndRequest(w)

\* Mutant: a meeting is created for every booking, cohort or not.
InsertBookingOwnRoom(w) ==
  LET b == req[w].booking
      s == req[w].slot
  IN
  /\ pc[w] = "insert"
  /\ WriteBooking(w, b, [status |-> "captured", scheduleSlot |-> s,
                         slot |-> None, meeting |-> b])
  /\ IF s = None
     THEN UNCHANGED slotVars
     ELSE WriteSlot(w, s, [slotDraft[s] EXCEPT !.meeting = b])
  /\ Goto(w, "commit")
  /\ UNCHANGED <<req, committed>>

\* The meeting of the row reserve_capacity returned is reused.  Otherwise Zoho
\* either creates one for this booking, which is attached to the slot, or fails
\* and the booking goes on without.  The meeting of a booking is named after it.
InsertBooking(w) ==
  LET b == req[w].booking
      s == req[w].slot
      room == IF s = None THEN None ELSE slotDraft[s].meeting
  IN
  /\ pc[w] = "insert"
  /\ \E meeting \in IF room = None THEN {None, b} ELSE {room} :
       /\ WriteBooking(w, b, [status |-> "captured", scheduleSlot |-> s,
                              slot |-> None, meeting |-> meeting])
       /\ IF s = None
          THEN UNCHANGED slotVars
          ELSE WriteSlot(w, s, [slotDraft[s] EXCEPT !.meeting = meeting])
  /\ Goto(w, "commit")
  /\ UNCHANGED <<req, committed>>

-------------------------------------------------------------------------------
(* orchestrate_booking_rescheduled.                                        *)

\* Where the request goes once the old slot, if any, has been dealt with.
AfterRelease(newSlot) == IF newSlot = None THEN "assign" ELSE "reserve"

\* The context is read once: status and metadata.slot_id are what was
\* committed then.  schedule_slot_id is not consulted.
BeginReschedule(w, b, newSlot) ==
  /\ bookings[b].status = "confirmed"
  /\ newSlot \in Slots => slots[newSlot].status # "absent"
  /\ Begin(w, IF bookings[b].slot = None THEN AfterRelease(newSlot) ELSE "release",
           [NoRequest EXCEPT !.kind = "reschedule", !.booking = b,
                             !.slot = newSlot, !.seen = bookings[b].slot])

ReleaseOldSlot(w) ==
  /\ pc[w] = "release"
  /\ \/ ReleaseCapacity(w, req[w].seen)
     \/ ~Releasable(SlotSeenBy(w, req[w].seen)) /\ UNCHANGED slotVars
  /\ Goto(w, AfterRelease(req[w].slot))
  /\ UNCHANGED <<req, committed, bookingVars>>

\* A slot without a free seat leaves a warning, and the request goes on to
\* update_slot_assignment.
ReserveNewSlot(w) ==
  /\ pc[w] = "reserve"
  /\ req[w].slot \in Slots
  /\ \/ ReserveCapacity(w, req[w].slot)
     \/ ~HasFreeSeat(SlotSeenBy(w, req[w].slot)) /\ UNCHANGED slotVars
  /\ Goto(w, "read")
  /\ UNCHANGED <<req, committed, bookingVars>>

\* The cast of a slot id that is not a uuid fails, which aborts the
\* transaction; the exception is caught and the request goes on, in vain.
RejectBadSlot(w) ==
  /\ pc[w] = "reserve"
  /\ req[w].slot = BadSlot
  /\ RollbackTransaction(w)
  /\ Goto(w, "aborted")
  /\ UNCHANGED req

\* Without a new slot, update_slot_assignment writes the date and the time only.
AssignDate(w) ==
  /\ pc[w] = "assign"
  /\ WriteBooking(w, req[w].booking, bookings[req[w].booking])
  /\ Goto(w, "commit")
  /\ UNCHANGED <<req, committed, slotVars>>

-------------------------------------------------------------------------------
(* The metadata of a booking: update_slot_assignment with a new slot,      *)
(* sync_callback_status (cancellation, status update, automation callback) *)
(* and update_zoho_meeting_metadata (regenerated meeting) all read the     *)
(* whole of it and write the whole of it back.                             *)

BeginUpdate(w, b, kind, status) ==
  /\ bookings[b].status # "absent"
  /\ kind = "cancel" => bookings[b].status # "cancelled"
  /\ Begin(w, "read", [NoRequest EXCEPT !.kind = kind, !.booking = b, !.status = status])

BeginCancel(w, b) == BeginUpdate(w, b, "cancel", "cancelled")
BeginStatusUpdate(w, b) == BeginUpdate(w, b, "complete", "completed")
BeginCallback(w, b) == BeginUpdate(w, b, "confirm", "confirmed")
BeginRegenerate(w, b) == BeginUpdate(w, b, "regenerate", "absent")

\* The metadata is read by one statement ...
ReadMetadata(w) ==
  /\ pc[w] = "read"
  /\ req' = [req EXCEPT ![w].seen = bookings[req[w].booking].slot,
                        ![w].room = bookings[req[w].booking].meeting]
  /\ Goto(w, "write")
  /\ UNCHANGED <<committed, slotVars, bookingVars>>

\* ... and written back by the next, with what the request is about.  Zoho may
\* make a calendar event without a meeting.
WriteMetadata(w) ==
  LET b == req[w].booking
      row == bookings[b]
      status == IF req[w].status = "absent" THEN row.status ELSE req[w].status
      slot == IF req[w].slot = None THEN req[w].seen ELSE req[w].slot
      renewed == IF req[w].kind = "regenerate" THEN {Renewed} ELSE {}
  IN
  /\ pc[w] = "write"
  /\ \E meeting \in {req[w].room} \cup renewed :
       WriteBooking(w, b, [status |-> status, scheduleSlot |-> row.scheduleSlot,
                           slot |-> slot, meeting |-> meeting])
  /\ Goto(w, "commit")
  /\ UNCHANGED <<req, committed, slotVars>>

-------------------------------------------------------------------------------
(* The operator's requests.                                                *)

\* create_tenant_chess_course_slots: a recurrence upserts several slots in one
\* transaction; slot is the next one, todo the ones after it, in any order: an
\* explicit starts_at comes before the recurrence, which is sorted.
BeginPublish(w, batch, first, capacity) ==
  /\ first \in batch
  /\ Begin(w, "publish", [NoRequest EXCEPT !.kind = "publish", !.slot = first,
                             !.capacity = capacity, !.todo = batch \ {first}])

AtLeast(n, floor) == IF n >= floor THEN n ELSE floor

\* create_slot: insert, or on conflict update.  The conflict is with the newest
\* version of the row, and its enrolled_count bounds the capacity from below.
CreateSlot(w) ==
  LET s == req[w].slot
      row == slotDraft[s]
  IN
  /\ pc[w] = "publish"
  /\ WriteSlot(w, s, [row EXCEPT !.status = "open",
                                 !.capacity = AtLeast(req[w].capacity, row.enrolled)])
  /\ \/ /\ req[w].todo = {}
        /\ Goto(w, "commit")
        /\ UNCHANGED req
     \/ \E next \in req[w].todo :
          /\ req' = [req EXCEPT ![w].slot = next, ![w].todo = @ \ {next}]
          /\ UNCHANGED pc
  /\ UNCHANGED <<committed, bookingVars>>

\* update_slot and its commit: one statement, so one step once the row is free.
\* Either argument may be null; delete_tenant_chess_course_slot is the call with
\* status "cancelled".
UpdateSlot(s, capacity, status) ==
  LET row == slots[s]
      patched == [row EXCEPT
        !.capacity = IF capacity = None THEN @ ELSE AtLeast(capacity, row.enrolled),
        !.status = IF status = None THEN @ ELSE status]
  IN
  /\ "admin" \in Workload
  /\ row.status # "absent"
  /\ slotLock[s] = None
  /\ slots' = [slots EXCEPT ![s] = patched]
  /\ slotDraft' = [slotDraft EXCEPT ![s] = patched]
  /\ UNCHANGED <<slotLock, bookings, bookingVars, pc, req>>

-------------------------------------------------------------------------------
(* The ends of a request.                                                  *)

Commit(w) ==
  /\ pc[w] = "commit"
  /\ CommitTransaction(w)
  /\ EndRequest(w)

\* The row lock a request needs for its next statement and another one holds.
WaitsFor(w, other) ==
  /\ other # w
  /\ \/ /\ pc[w] \in {"reserve_seat", "reserve"}
        /\ req[w].slot \in Slots
        /\ slotLock[req[w].slot] = other
        /\ HasFreeSeat(slots[req[w].slot])
     \/ /\ pc[w] = "release"
        /\ slotLock[req[w].seen] = other
        /\ Releasable(slots[req[w].seen])
     \/ pc[w] = "publish" /\ slotLock[req[w].slot] = other
     \/ pc[w] \in {"assign", "write"} /\ bookingLock[req[w].booking] = other

\* w is on a cycle of requests each of which waits for the next.
Deadlocked(w) ==
  \E cycle \in SUBSET Workers :
    /\ w \in cycle
    /\ \A x \in cycle : \E y \in cycle : WaitsFor(x, y)
    /\ \A x \in cycle : \E y \in cycle : WaitsFor(y, x)

\* PostgreSQL cancels a statement of a deadlocked request, which rolls its
\* transaction back.  A reschedule catches the exception and goes on with every
\* later statement failing; the publication answers with an error.
DeadlockVictim(w) ==
  /\ Deadlocked(w)
  /\ RollbackTransaction(w)
  /\ IF req[w].kind = "reschedule"
     THEN Goto(w, "aborted") /\ UNCHANGED req
     ELSE EndRequest(w)

\* The commit of an aborted transaction first inserts the conversation events that
\* orchestrate_communication_touch added to the session, which fails as every
\* statement of it does: the handler answers 502.
RejectAborted(w) ==
  /\ pc[w] = "aborted"
  /\ EndRequest(w)
  /\ UNCHANGED <<committed, slotVars, bookingVars>>

\* An exception outside the guarded blocks, or the death of the process: the
\* session is closed without commit.
Crash(w) ==
  /\ pc[w] # "idle"
  /\ RollbackTransaction(w)
  /\ EndRequest(w)

-------------------------------------------------------------------------------
Start(w) ==
  \/ \E b \in Bookings :
       \/ \E s \in Slots \cup {None} : BeginCreate(w, b, s)
       \/ \E s \in Targets : BeginReschedule(w, b, s)
       \/ BeginCancel(w, b)
       \/ BeginStatusUpdate(w, b)
       \/ BeginCallback(w, b)
       \/ BeginRegenerate(w, b)
  \/ \E batch \in SUBSET Slots, first \in Slots, c \in Capacities :
       BeginPublish(w, batch, first, c)

Step(w) ==
  \/ ReserveSeat(w) \/ InsertBooking(w)
  \/ ReleaseOldSlot(w) \/ ReserveNewSlot(w) \/ RejectBadSlot(w)
  \/ AssignDate(w)
  \/ ReadMetadata(w) \/ WriteMetadata(w)
  \/ CreateSlot(w)
  \/ Commit(w) \/ RejectAborted(w)

Next ==
  \/ \E w \in Workers : Start(w) \/ Step(w) \/ DeadlockVictim(w) \/ Crash(w)
  \/ \E s \in Slots, c \in Capacities \cup {None}, st \in (SlotStatus \ {"absent"}) \cup {None} :
       UpdateSlot(s, c, st)

Spec == Init /\ [][Next]_vars

\* A request is a task of the event loop that goes on as long as it can, row
\* locks are granted in the order they were asked for, and PostgreSQL looks for
\* deadlocks after deadlock_timeout.
Fairness ==
  \A w \in Workers : SF_vars(Step(w)) /\ WF_vars(DeadlockVictim(w))

FairSpec == Spec /\ Fairness

-------------------------------------------------------------------------------
(* Properties.                                                             *)

\* Types of the variables; in particular enrolled_count never goes below zero,
\* however often release_capacity runs.
TypeOK ==
  /\ slots \in [Slots -> SlotRow]
  /\ slotDraft \in [Slots -> SlotRow]
  /\ slotLock \in [Slots -> Workers \cup {None}]
  /\ bookings \in [Bookings -> BookingRow]
  /\ bookingDraft \in [Bookings -> BookingRow]
  /\ bookingLock \in [Bookings -> Workers \cup {None}]
  /\ pc \in [Workers -> PC]
  /\ req \in [Workers -> Request]

\* A slot never has more enrolments than seats, whatever requests race for the
\* last seat and whatever the operator does to the capacity meanwhile
\* (reserve_capacity's WHERE clause, the greatest() of create_slot, update_slot).
SeatsWithinCapacity ==
  \A s \in Slots : slots[s].enrolled <= slots[s].capacity

\* The students who book a cohort are all given the cohort's one meeting room:
\* create_booking_intent reuses the room of the row that reserve_capacity returned
\* while it holds the lock of the slot, and attach_meeting_metadata replaces none.
SharedRoom ==
  [][\A s \in Slots :
       /\ slots[s].meeting # None => slots'[s].meeting = slots[s].meeting
       /\ \A b \in Bookings :
            bookings[b].status = "absent" /\ bookings'[b].scheduleSlot = s =>
              bookings'[b].meeting = slots'[s].meeting]_vars

\* Without reschedules, enrolled_count rises with the number of bookings made for
\* the slot and never falls: no crash, lost race or edit of the slot loses or
\* invents a seat.
SeatsMatchBookings ==
  [][\A s \in Slots :
       LET new == {b \in Bookings :
                     bookings[b].scheduleSlot # s /\ bookings'[b].scheduleSlot = s}
       IN  slots'[s].enrolled = slots[s].enrolled + Cardinality(new)]_vars

\* A booking appears in the same commit as the seat it took, and the slot was
\* open with a seat free when it did.
BookingTakesSeat ==
  [][\A b \in Bookings, s \in Slots :
       bookings[b].status = "absent" /\ bookings'[b].scheduleSlot = s =>
         HasFreeSeat(slots[s]) /\ slots'[s].enrolled = slots[s].enrolled + 1]_vars

\* "We never touch a cancelled row" (release_capacity): no seat of a cancelled
\* slot is taken or given back, by a request that read it earlier either.
CancelledSlotFrozen ==
  [][\A s \in Slots :
       slots[s].status = "cancelled" => slots'[s].enrolled = slots[s].enrolled]_vars

\* The slots are a pool of seats (SeatPool): committed rows only.
Pool == INSTANCE SeatPool WITH
  Sessions <- Slots,
  seats <- [s \in Slots |-> slots[s].capacity],
  taken <- [s \in Slots |-> slots[s].enrolled]
ImplementsSeatPool == Pool!Spec

\* Every request ends, however their row locks cross.
RequestsEnd == \A w \in Workers : pc[w] # "idle" ~> pc[w] = "idle"

-------------------------------------------------------------------------------
(* What the documentation says and the code does not do.                   *)

Live(b) == bookings[b].status \notin {"absent", "cancelled"}

\* The slot a booking is on: the one it was moved to, else the one it was made for.
CurrentSlot(b) ==
  IF bookings[b].slot # None THEN bookings[b].slot ELSE bookings[b].scheduleSlot

\* "capacity INTEGER -- max enrolments" (migration 037, line 19): no more live
\* bookings are on a slot than it has seats.
NoOverbooking ==
  \A s \in Slots :
    Cardinality({b \in Bookings : Live(b) /\ CurrentSlot(b) = s}) <= slots[s].capacity
===============================================================================
