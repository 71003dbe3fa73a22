--------------------------- MODULE ChessSlotsProofs ---------------------------
(***************************************************************************)
(* Proofs about ChessSlots, for any number of workers, slots and bookings. *)
(* None of the properties is inductive: each speaks of committed rows, and *)
(* what a commit writes was decided statements earlier.  IInv says what a  *)
(* request may have drafted in the rows it has locked at each of its       *)
(* statements.                                                             *)
(***************************************************************************)
EXTENDS ChessSlots, FiniteSetTheorems, TLAPS

\* What the next statement of a request relies on.
Control ==
  \A w \in Workers :
    /\ pc[w] \in {"reserve_seat", "publish"} => req[w].slot \in Slots
    /\ pc[w] \in {"insert", "assign", "read", "write"} => req[w].slot \in Slots \cup {None}
    /\ pc[w] = "reserve" => req[w].slot \in Slots \cup {BadSlot}
    /\ pc[w] = "release" => req[w].seen \in Slots
    /\ pc[w] = "publish" => req[w].kind = "publish"
    /\ pc[w] \notin {"idle", "publish", "commit"}
         => req[w].booking \in Bookings
    /\ pc[w] \in {"release", "reserve", "assign", "read", "write"}
         => bookings[req[w].booking].status # "absent"

\* A creation works on a booking nobody else works on and that does not exist yet.
Fresh ==
  \A w \in Workers :
    pc[w] \in {"reserve_seat", "insert"} =>
      /\ bookings[req[w].booking].status = "absent"
      /\ \A v \in Workers \ {w} : req[v].booking # req[w].booking

\* The moves of SeatPool, between two versions of a row.
SeatMove(old, new) ==
  \/ /\ old.enrolled < old.capacity
     /\ new.enrolled = old.enrolled + 1
     /\ new.capacity = old.capacity
  \/ /\ old.enrolled > 0
     /\ new.enrolled = old.enrolled - 1
     /\ new.capacity = old.capacity
  \/ /\ new.enrolled = old.enrolled
     /\ new.enrolled <= new.capacity

\* What the holder of a slot's lock has drafted is one move of the pool, and
\* leaves the enrolments of a cancelled slot and a room once given alone.
SlotLocks ==
  \A s \in Slots :
    /\ slotLock[s] = None => slotDraft[s] = slots[s]
    /\ \A w \in Workers : slotLock[s] = w =>
         /\ pc[w] \in {"insert", "reserve", "assign", "read", "write", "publish", "commit"}
         /\ SeatMove(slots[s], slotDraft[s])
         /\ slots[s].status = "cancelled" => slotDraft[s].enrolled = slots[s].enrolled
         /\ slots[s].meeting # None => slotDraft[s].meeting = slots[s].meeting
         /\ pc[w] = "reserve" => Releasable(slots[s]) /\ slotDraft[s] = Released(slots[s])
         /\ pc[w] = "publish" => slotDraft[s].enrolled = slots[s].enrolled

SeatTaken(w, s) ==
  /\ slotLock[s] = w
  /\ HasFreeSeat(slots[s])
  /\ slotDraft[s].enrolled = slots[s].enrolled + 1

\* A booking being created has its seat, and its slot's room, in the same
\* transaction; any other booking stays on the slot it was made for.
BookingLocks ==
  /\ \A w \in Workers, s \in Slots : pc[w] = "insert" /\ req[w].slot = s => SeatTaken(w, s)
  /\ \A b \in Bookings :
       /\ bookings[b].status = "absent" => bookings[b].scheduleSlot = None
       /\ bookingLock[b] = None => bookingDraft[b] = bookings[b]
       /\ \A w \in Workers : bookingLock[b] = w =>
            /\ pc[w] = "commit" /\ req[w].booking = b
            /\ bookingDraft[b].status # "absent"
            /\ bookings[b].status # "absent" =>
                 bookingDraft[b].scheduleSlot = bookings[b].scheduleSlot
            /\ bookings[b].status = "absent" =>
                 \A s \in Slots : bookingDraft[b].scheduleSlot = s =>
                   SeatTaken(w, s) /\ slotDraft[s].meeting = bookingDraft[b].meeting

IInv ==
  /\ TypeOK /\ Control /\ Fresh /\ SlotLocks /\ BookingLocks /\ SeatsWithinCapacity

-------------------------------------------------------------------------------
(* Rows.                                                                   *)

\* reserve_capacity and release_capacity write rows of the right type.
LEMMA RowTypes ==
  ASSUME NEW row \in SlotRow
  PROVE  Reserved(row) \in SlotRow /\ Released(row) \in SlotRow
<1>1. Reserved(row) \in SlotRow
  <2> DEFINE status == IF row.enrolled + 1 >= row.capacity THEN "full" ELSE row.status
  <2>1. row.enrolled + 1 \in Nat /\ status \in SlotStatus
    BY DEF SlotRow, SlotStatus
  <2>2. Reserved(row) = [row EXCEPT !.enrolled = row.enrolled + 1, !.status = status]
    BY DEF Reserved
  <2> HIDE DEF status
  <2> QED
    BY <2>1, <2>2 DEF SlotRow
<1>2. Released(row) \in SlotRow
  <2> DEFINE left == IF row.enrolled > 0 THEN row.enrolled - 1 ELSE 0
  <2>1. row.enrolled \in Nat /\ row.status \in SlotStatus
    BY DEF SlotRow
  <2>2. left \in Nat
    BY <2>1
  <2>3. Released(row) = [row EXCEPT !.enrolled = left,
                           !.status = IF row.status = "full" /\ left < row.capacity
                                      THEN "open" ELSE row.status]
    BY DEF Released
  <2> HIDE DEF left
  <2> QED
    BY <2>1, <2>2, <2>3 DEF SlotRow, SlotStatus
<1> QED
  BY <1>1, <1>2

\* release_capacity gives one seat back, or finds none taken.
LEMMA ReleaseMoves ==
  ASSUME NEW row \in SlotRow, row.enrolled <= row.capacity
  PROVE  SeatMove(row, Released(row)) /\ Released(row).meeting = row.meeting
BY DEF SlotRow, SlotStatus, Released, SeatMove

\* reserve_capacity takes a free seat.
LEMMA ReserveMoves ==
  ASSUME NEW row \in SlotRow, HasFreeSeat(row)
  PROVE  /\ SeatMove(row, Reserved(row)) /\ Reserved(row).meeting = row.meeting
         /\ Reserved(row).enrolled = row.enrolled + 1
         /\ row.status # "cancelled"
BY DEF SlotRow, SlotStatus, Reserved, SeatMove, HasFreeSeat

\* A request that gives a seat of a slot back and then takes one of the same
\* slot has, all in all, made one move or none.
LEMMA ReleaseThenReserve ==
  ASSUME NEW row \in SlotRow, row.enrolled <= row.capacity,
         HasFreeSeat(Released(row))
  PROVE  /\ SeatMove(row, Reserved(Released(row)))
         /\ Reserved(Released(row)).meeting = row.meeting
BY DEF SlotRow, SlotStatus, Reserved, Released, SeatMove, HasFreeSeat

\* The rows the migrations leave have the right type and no more enrolments than seats.
LEMMA SeededType ==
  /\ SeededSlots \subseteq SlotRow
  /\ \A row \in SeededSlots : row.enrolled <= row.capacity
<1> SUFFICES ASSUME NEW row \in SeededSlots
             PROVE  row \in SlotRow /\ row.enrolled <= row.capacity
  OBVIOUS
<1>1. AbsentSlot \in SlotRow /\ AbsentSlot.enrolled = 0 /\ AbsentSlot.capacity = 0
  BY DEF AbsentSlot, SlotRow, SlotStatus
<1>2. ASSUME NEW c \in Capacities, row = OpenSlot(c) \/ row = BusySlot(c)
      PROVE  row \in SlotRow /\ row.enrolled <= row.capacity
  <2>1. c \in Nat
    BY ConstantsAssumption
  <2>2. OpenSlot(c) \in SlotRow /\ BusySlot(c) \in SlotRow
    BY <2>1 DEF SlotRow, SlotStatus, AbsentSlot, OpenSlot, BusySlot
  <2>3. /\ OpenSlot(c).enrolled = 0 /\ OpenSlot(c).capacity = c
        /\ BusySlot(c).enrolled = c /\ BusySlot(c).capacity = c
    BY DEF AbsentSlot, OpenSlot, BusySlot
  <2> QED
    BY <1>2, <2>1, <2>2, <2>3
<1> QED
  BY <1>1, <1>2 DEF SeededSlots

\* The initial state satisfies the invariant: no request has locks or drafts.
LEMMA InitIInv == Init => IInv
<1> SUFFICES ASSUME Init PROVE IInv
  OBVIOUS
<1> USE ConstantsAssumption DEF Init
<1>1. TypeOK
  <2>1. SeededSlots \subseteq SlotRow
    BY SeededType
  <2>2. AbsentBooking \in BookingRow
    BY DEF BookingRow, BookingStatus, AbsentBooking
  <2>3. NoRequest \in Request
    BY DEF Request, RequestKinds, NoRequest, BookingStatus
  <2>4. slots \in [Slots -> SlotRow] /\ slotDraft \in [Slots -> SlotRow]
    BY <2>1
  <2>5. bookings \in [Bookings -> BookingRow] /\ bookingDraft \in [Bookings -> BookingRow]
    BY <2>2
  <2> QED
    BY <2>3, <2>4, <2>5 DEF TypeOK, PC
<1>2. Control /\ Fresh
  BY DEF Control, Fresh
<1>3. SlotLocks
  BY DEF SlotLocks
<1>4. BookingLocks
  BY DEF BookingLocks, AbsentBooking
<1>5. SeatsWithinCapacity
  BY SeededType DEF SeatsWithinCapacity
<1> QED
  BY <1>1, <1>2, <1>3, <1>4, <1>5 DEF IInv

-------------------------------------------------------------------------------
(* Transactions.                                                           *)

\* Beginning a request locks nothing.
LEMMA BeginInv ==
  ASSUME IInv, NEW w \in Workers, NEW label \in PC, NEW request \in Request,
         Begin(w, label, request),
         label \notin {"insert", "reserve_seat"} => request.booking = None
           \/ bookings[request.booking].status # "absent",
         label \in {"insert", "reserve_seat"} => Unused(request.booking),
         label \in {"reserve_seat", "publish"} => request.slot \in Slots,
         label = "publish" => request.kind = "publish",
         label = "insert" => request.slot = None,
         label \in {"assign", "read"} => request.slot \in Slots \cup {None},
         label = "reserve" => request.slot \in Slots \cup {BadSlot},
         label = "release" => request.seen \in Slots,
         label \notin {"idle", "publish", "commit", "aborted"} => request.booking \in Bookings,
         label \notin {"idle", "write", "commit", "aborted"}
  PROVE  IInv'
<1> USE ConstantsAssumption DEF Begin, Goto, IInv
<1>1. TypeOK'
  BY DEF TypeOK, slotVars, bookingVars, committed
<1>2. Control'
  BY DEF Control, TypeOK, slotVars, bookingVars, committed
<1>3. Fresh'
  BY DEF Fresh, Control, TypeOK, Unused, slotVars, bookingVars, committed
<1>4. SlotLocks'
  BY DEF SlotLocks, TypeOK, slotVars, bookingVars, committed
<1>5. BookingLocks'
  BY DEF BookingLocks, SeatTaken, TypeOK, slotVars, bookingVars, committed
<1>6. SeatsWithinCapacity'
  BY DEF SeatsWithinCapacity, committed
<1> QED
  BY <1>1, <1>2, <1>3, <1>4, <1>5, <1>6

\* A rollback puts the committed rows back in place of the drafts.
LEMMA RollbackInv ==
  ASSUME IInv, NEW w \in Workers, NEW label \in {"idle", "aborted"},
         RollbackTransaction(w), Goto(w, label),
         \/ req' = [req EXCEPT ![w] = NoRequest] /\ label = "idle"
         \/ req' = req /\ req[w].booking \in Bookings
  PROVE  IInv'
<1> USE ConstantsAssumption DEF RollbackTransaction, Goto, Unlock, IInv
<1>1. TypeOK'
  <2>1. req' \in [Workers -> Request] /\ pc' \in [Workers -> PC]
    <3>1. NoRequest \in Request
      BY DEF Request, NoRequest, RequestKinds, BookingStatus
    <3> QED
      BY <3>1 DEF TypeOK, PC
  <2>2. slotDraft' \in [Slots -> SlotRow] /\ slotLock' \in [Slots -> Workers \cup {None}]
    BY DEF TypeOK
  <2>3. /\ bookingDraft' \in [Bookings -> BookingRow]
        /\ bookingLock' \in [Bookings -> Workers \cup {None}]
    BY DEF TypeOK
  <2> HIDE DEF RollbackTransaction
  <2>4. UNCHANGED <<slots, bookings>>
    BY DEF RollbackTransaction, committed
  <2> QED
    BY <2>1, <2>2, <2>3, <2>4 DEF TypeOK
<1>2. Control'
  BY DEF Control, TypeOK, committed
<1>3. Fresh'
  <2>1. \A v \in Workers \ {w} : pc'[v] = pc[v] /\ req'[v] = req[v]
    BY DEF TypeOK
  <2>2. req'[w].booking \in {req[w].booking, None} /\ pc'[w] = label
    BY DEF TypeOK, NoRequest
  <2>3. bookings' = bookings
    BY DEF committed
  <2> QED
    BY <2>1, <2>2, <2>3 DEF Fresh, Control
<1>4. SlotLocks'
  BY DEF SlotLocks, TypeOK, committed
<1>5. BookingLocks'
  BY DEF BookingLocks, SeatTaken, TypeOK, committed
<1>6. SeatsWithinCapacity'
  BY DEF SeatsWithinCapacity, committed
<1> QED
  BY <1>1, <1>2, <1>3, <1>4, <1>5, <1>6

-------------------------------------------------------------------------------
(* Statements.                                                             *)

\* A statement that writes a slot, by a request that goes on to another label.
LEMMA SlotWriteInv ==
  ASSUME IInv, NEW w \in Workers, NEW s \in Slots, NEW row \in SlotRow, NEW label \in PC,
         WriteSlot(w, s, row), Goto(w, label),
         UNCHANGED <<committed, bookingVars>>,
         req' \in [Workers -> Request],
         \A v \in Workers \ {w} : req'[v] = req[v],
         req'[w].booking = req[w].booking,
         req'[w].kind = req[w].kind,
         \/ req'[w].slot = req[w].slot
         \/ label = "publish" /\ req'[w].slot \in Slots,
         SeatMove(slots[s], row),
         slots[s].status = "cancelled" => row.enrolled = slots[s].enrolled,
         slots[s].meeting # None => row.meeting = slots[s].meeting,
         label \in {"insert", "reserve", "assign", "read", "publish", "commit"},
         label = "insert" => /\ pc[w] = "reserve_seat" /\ req[w].slot = s
                             /\ HasFreeSeat(slots[s]) /\ row.enrolled = slots[s].enrolled + 1,
         label = "reserve" => /\ pc[w] = "release" /\ req[w].slot \in Slots \cup {BadSlot}
                              /\ Releasable(slots[s]) /\ row = Released(slots[s]),
         label = "assign" => pc[w] = "release" /\ req[w].slot \in Slots \cup {None},
         label = "read" => pc[w] = "reserve" /\ req[w].slot \in Slots,
         label = "publish" => pc[w] = "publish" /\ row.enrolled = slots[s].enrolled,
         label = "commit" => pc[w] = "publish"
  PROVE  IInv'
<1> USE ConstantsAssumption DEF Goto, WriteSlot, IInv
<1>1. TypeOK'
  BY DEF TypeOK, bookingVars, committed
<1>2. Control'
  BY DEF Control, TypeOK, bookingVars, committed
<1>3. Fresh'
  BY DEF Fresh, Control, TypeOK, bookingVars, committed
<1>4. SlotLocks'
  BY DEF SlotLocks, TypeOK, bookingVars, committed
<1>5. BookingLocks'
  BY DEF BookingLocks, SlotLocks, SeatTaken, TypeOK, bookingVars, committed
<1>6. SeatsWithinCapacity'
  BY DEF SeatsWithinCapacity, committed
<1> QED
  BY <1>1, <1>2, <1>3, <1>4, <1>5, <1>6

\* A statement that writes no slot and no booking.
LEMMA NoWriteInv ==
  ASSUME IInv, NEW w \in Workers, NEW label \in PC, Goto(w, label),
         UNCHANGED <<committed, slotVars, bookingVars>>,
         req' \in [Workers -> Request],
         \A v \in Workers \ {w} : req'[v] = req[v],
         req'[w].booking = req[w].booking /\ req'[w].slot = req[w].slot,
         \/ pc[w] = "release" /\ label \in {"reserve", "assign"}
         \/ pc[w] = "reserve" /\ label = "read"
         \/ pc[w] = "read" /\ label = "write",
         label = "reserve" => req[w].slot \in Slots \cup {BadSlot},
         label \in {"assign", "read"} => req[w].slot \in Slots \cup {None}
  PROVE  IInv'
<1> USE ConstantsAssumption DEF Goto, IInv
<1>1. TypeOK'
  BY DEF TypeOK, slotVars, bookingVars, committed
<1>2. Control'
  BY DEF Control, TypeOK, slotVars, bookingVars, committed
<1>3. Fresh'
  BY DEF Fresh, Control, TypeOK, slotVars, bookingVars, committed
<1>4. SlotLocks'
  BY DEF SlotLocks, TypeOK, slotVars, bookingVars, committed
<1>5. BookingLocks'
  BY DEF BookingLocks, SeatTaken, TypeOK, slotVars, bookingVars, committed
<1>6. SeatsWithinCapacity'
  BY DEF SeatsWithinCapacity, committed
<1> QED
  BY <1>1, <1>2, <1>3, <1>4, <1>5, <1>6

\* A statement that writes an existing booking, the last before the commit.
LEMMA BookingWriteInv ==
  ASSUME IInv, NEW w \in Workers, pc[w] \in {"assign", "write"},
         NEW row \in BookingRow, WriteBooking(w, req[w].booking, row),
         row.status # "absent",
         row.scheduleSlot = bookings[req[w].booking].scheduleSlot,
         Goto(w, "commit"), UNCHANGED <<req, committed, slotVars>>
  PROVE  IInv'
<1> USE ConstantsAssumption DEF Goto, WriteBooking, IInv
<1>1. TypeOK'
  BY DEF TypeOK, slotVars, committed, PC
<1>2. Control'
  BY DEF Control, TypeOK, slotVars, committed
<1>3. Fresh'
  BY DEF Fresh, Control, TypeOK, slotVars, committed
<1>4. SlotLocks'
  BY DEF SlotLocks, TypeOK, slotVars, committed
<1>5. BookingLocks'
  BY DEF BookingLocks, Control, SeatTaken, TypeOK, slotVars, committed
<1>6. SeatsWithinCapacity'
  BY DEF SeatsWithinCapacity, committed
<1> QED
  BY <1>1, <1>2, <1>3, <1>4, <1>5, <1>6

\* The insertion of the booking, with the room its slot gives it.
LEMMA InsertBookingInv ==
  ASSUME IInv, NEW w \in Workers, InsertBooking(w)
  PROVE  IInv'
<1> DEFINE b == req[w].booking
           s == req[w].slot
<1> USE ConstantsAssumption DEF IInv
<1>1. /\ pc[w] = "insert" /\ b \in Bookings /\ s \in Slots \cup {None}
      /\ bookings[b].status = "absent"
      /\ \A v \in Workers \ {w} : req[v].booking # b
  BY DEF InsertBooking, Control, Fresh
<1>2. PICK meeting \in Bookings \cup {None} :
        /\ s \in Slots /\ slotDraft[s].meeting # None => meeting = slotDraft[s].meeting
        /\ WriteBooking(w, b, [status |-> "captured", scheduleSlot |-> s,
                               slot |-> None, meeting |-> meeting])
        /\ IF s = None
           THEN UNCHANGED slotVars
           ELSE WriteSlot(w, s, [slotDraft[s] EXCEPT !.meeting = meeting])
  BY <1>1 DEF InsertBooking, TypeOK, SlotRow
<1> DEFINE row == [status |-> "captured", scheduleSlot |-> s, slot |-> None, meeting |-> meeting]
           held == [slotDraft[s] EXCEPT !.meeting = meeting]
<1>3. /\ row \in BookingRow /\ row.status # "absent"
      /\ row.scheduleSlot = s /\ row.meeting = meeting
  BY <1>1 DEF BookingRow, BookingStatus
<1>4. s \in Slots =>
        /\ held \in SlotRow /\ held.enrolled = slotDraft[s].enrolled
        /\ held.capacity = slotDraft[s].capacity /\ held.meeting = meeting
        /\ SeatTaken(w, s)
  <2> SUFFICES ASSUME s \in Slots
               PROVE  /\ held \in SlotRow /\ held.enrolled = slotDraft[s].enrolled
                      /\ held.capacity = slotDraft[s].capacity /\ held.meeting = meeting
                      /\ SeatTaken(w, s)
    OBVIOUS
  <2>1. slotDraft[s] \in SlotRow
    BY DEF TypeOK
  <2>2. /\ held \in SlotRow /\ held.enrolled = slotDraft[s].enrolled
        /\ held.capacity = slotDraft[s].capacity /\ held.meeting = meeting
    BY <2>1 DEF SlotRow
  <2>3. SeatTaken(w, s)
    BY <1>1 DEF BookingLocks
  <2> QED
    BY <2>2, <2>3
<1>5. WriteBooking(w, b, row) /\ IF s = None THEN UNCHANGED slotVars ELSE WriteSlot(w, s, held)
  BY <1>2
<1>6. Goto(w, "commit") /\ UNCHANGED <<req, committed>>
  BY DEF InsertBooking
<1> HIDE DEF row, held
<1>7. TypeOK'
  BY <1>1, <1>3, <1>4, <1>5, <1>6
     DEF TypeOK, WriteBooking, WriteSlot, Goto, slotVars, committed, PC
<1>8. Control'
  BY <1>6 DEF Control, TypeOK, Goto, committed
<1>9. Fresh'
  BY <1>6 DEF Fresh, TypeOK, Goto, committed
<1>10. SlotLocks'
  BY <1>1, <1>2, <1>4, <1>5, <1>6
     DEF SlotLocks, SeatTaken, SeatMove, TypeOK, WriteSlot, Goto, slotVars, committed
<1>11. BookingLocks'
  BY <1>1, <1>3, <1>4, <1>5, <1>6
     DEF BookingLocks, SeatTaken, TypeOK, WriteBooking, WriteSlot, Goto, slotVars, committed
<1>12. SeatsWithinCapacity'
  BY <1>6 DEF SeatsWithinCapacity, committed
<1> QED
  BY <1>7, <1>8, <1>9, <1>10, <1>11, <1>12

\* A commit turns the drafts of the request into the committed rows.
LEMMA CommitInv ==
  ASSUME IInv, NEW w \in Workers, Commit(w)
  PROVE  IInv'
<1> USE ConstantsAssumption DEF Commit, CommitTransaction, Unlock, EndRequest, Goto, IInv
<1>1. TypeOK'
  BY DEF TypeOK, PC, Request, NoRequest, RequestKinds, BookingStatus
<1>2. Control'
  BY DEF Control, BookingLocks, TypeOK
<1>3. Fresh'
  BY DEF Fresh, Control, BookingLocks, TypeOK, NoRequest
<1>4. SlotLocks'
  BY DEF SlotLocks, TypeOK
<1>5. BookingLocks'
  BY DEF BookingLocks, SeatTaken, TypeOK
<1>6. SeatsWithinCapacity'
  BY DEF SeatsWithinCapacity, SlotLocks, SeatMove, TypeOK, SlotRow
<1> QED
  BY <1>1, <1>2, <1>3, <1>4, <1>5, <1>6

\* The operator's edit waits for the lock, so it disturbs no draft.
LEMMA UpdateSlotInv ==
  ASSUME IInv, NEW s \in Slots, NEW capacity \in Capacities \cup {None},
         NEW status \in (SlotStatus \ {"absent"}) \cup {None}, UpdateSlot(s, capacity, status)
  PROVE  IInv'
<1> DEFINE row == slots[s]
           patched == [row EXCEPT
             !.capacity = IF capacity = None THEN @ ELSE AtLeast(capacity, row.enrolled),
             !.status = IF status = None THEN @ ELSE status]
<1> USE ConstantsAssumption DEF IInv
<1>1. row \in SlotRow /\ row.enrolled <= row.capacity
  BY DEF TypeOK, SeatsWithinCapacity
<1>2. /\ patched.capacity \in Nat /\ patched.status \in SlotStatus
      /\ patched.enrolled = row.enrolled /\ patched.meeting = row.meeting
      /\ patched.enrolled <= patched.capacity
  BY <1>1 DEF SlotRow, AtLeast
<1>3. patched \in SlotRow
  BY <1>1, <1>2 DEF SlotRow
<1>4. /\ slotLock[s] = None /\ slots' = [slots EXCEPT ![s] = patched]
      /\ slotDraft' = [slotDraft EXCEPT ![s] = patched]
      /\ UNCHANGED <<slotLock, bookings, bookingVars, pc, req>>
  BY DEF UpdateSlot
<1> HIDE DEF row, patched
<1>5. TypeOK'
  BY <1>3, <1>4 DEF TypeOK, bookingVars
<1>6. Control' /\ Fresh'
  BY <1>4 DEF Control, Fresh
<1>7. SlotLocks'
  BY <1>4 DEF SlotLocks, TypeOK
<1>8. BookingLocks'
  BY <1>4 DEF BookingLocks, SeatTaken, TypeOK, bookingVars
<1>9. SeatsWithinCapacity'
  BY <1>2, <1>4 DEF SeatsWithinCapacity, TypeOK
<1> QED
  BY <1>5, <1>6, <1>7, <1>8, <1>9

-------------------------------------------------------------------------------
(* Steps.                                                                  *)

\* The request of an idle worker is well typed and names no booking.
LEMMA NoRequestType == NoRequest \in Request /\ NoRequest.booking = None
BY DEF NoRequest, Request, RequestKinds, BookingStatus

\* What a request begins with is a request, on rows that allow its first statement.
LEMMA StartInv ==
  ASSUME IInv, NEW w \in Workers, Start(w)
  PROVE  IInv'
<1> USE ConstantsAssumption DEF IInv
<1>1. ASSUME NEW b \in Bookings, NEW s \in Slots \cup {None}, BeginCreate(w, b, s)
      PROVE  IInv'
  <2> DEFINE label == IF s = None THEN "insert" ELSE "reserve_seat"
             request == [NoRequest EXCEPT !.kind = "create", !.booking = b, !.slot = s]
  <2>1. NoRequest \in Request
    BY NoRequestType
  <2>2. request \in Request /\ request.booking = b /\ request.slot = s
    BY <2>1 DEF Request, RequestKinds, BookingStatus
  <2>3. Begin(w, label, request) /\ Unused(b)
    BY <1>1 DEF BeginCreate
  <2>4. label \in PC
    BY DEF PC
  <2> HIDE DEF request
  <2> QED
    BY <2>2, <2>3, <2>4, BeginInv
<1>2. ASSUME NEW b \in Bookings, NEW s \in Targets, BeginReschedule(w, b, s)
      PROVE  IInv'
  <2> DEFINE label == IF bookings[b].slot = None THEN AfterRelease(s) ELSE "release"
             request == [NoRequest EXCEPT !.kind = "reschedule", !.booking = b,
                                          !.slot = s, !.seen = bookings[b].slot]
  <2>1. NoRequest \in Request
    BY NoRequestType
  <2>2. /\ request \in Request /\ request.booking = b /\ request.slot = s
        /\ request.seen = bookings[b].slot /\ bookings[b].slot \in Slots \cup {None}
    BY <2>1 DEF Request, RequestKinds, BookingStatus, TypeOK, BookingRow
  <2>3. Begin(w, label, request) /\ bookings[b].status # "absent"
    BY <1>2 DEF BeginReschedule
  <2>4. label \in PC \cap {"assign", "reserve", "release"}
    BY DEF PC, AfterRelease
  <2> HIDE DEF request
  <2> QED
    BY <2>2, <2>3, <2>4, BeginInv DEF AfterRelease
<1>3. ASSUME NEW b \in Bookings, NEW kind \in RequestKinds,
             NEW status \in BookingStatus, BeginUpdate(w, b, kind, status)
      PROVE  IInv'
  <2> DEFINE request == [NoRequest EXCEPT !.kind = kind, !.booking = b, !.status = status]
  <2>1. NoRequest \in Request
    BY NoRequestType
  <2>2. request \in Request /\ request.booking = b /\ request.slot = None
    BY <2>1 DEF Request, NoRequest
  <2>3. Begin(w, "read", request) /\ bookings[b].status # "absent"
    BY <1>3 DEF BeginUpdate
  <2>4. "read" \in PC
    BY DEF PC
  <2> HIDE DEF request
  <2> QED
    BY <2>2, <2>3, <2>4, BeginInv
<1>4. ASSUME NEW batch \in SUBSET Slots, NEW first \in Slots, NEW c \in Capacities,
             BeginPublish(w, batch, first, c)
      PROVE  IInv'
  <2> DEFINE request == [NoRequest EXCEPT !.kind = "publish", !.slot = first,
                                          !.capacity = c, !.todo = batch \ {first}]
  <2>1. NoRequest \in Request
    BY NoRequestType
  <2>2. request \in Request /\ request.booking = None /\ request.slot = first
        /\ request.kind = "publish"
    BY NoRequestType DEF Request, RequestKinds, BookingStatus
  <2>3. Begin(w, "publish", request) /\ "publish" \in PC
    BY <1>4 DEF BeginPublish, PC
  <2> HIDE DEF request
  <2> QED
    BY <2>2, <2>3, BeginInv
<1> QED
  BY <1>1, <1>2, <1>3, <1>4
     DEF Start, BeginCancel, BeginStatusUpdate, BeginCallback, BeginRegenerate,
         RequestKinds, BookingStatus

\* Each statement of a request keeps the invariant.
LEMMA StepInv ==
  ASSUME IInv, NEW w \in Workers, Step(w)
  PROVE  IInv'
<1> USE ConstantsAssumption DEF IInv
<1>0. /\ pc[w] \in PC /\ req[w] \in Request /\ req \in [Workers -> Request]
      /\ \A s \in Slots : slots[s] \in SlotRow /\ slotDraft[s] \in SlotRow
      /\ \A s \in Slots : slots[s].enrolled <= slots[s].capacity
      /\ \A b \in Bookings : bookings[b] \in BookingRow
  BY DEF TypeOK, SeatsWithinCapacity
<1>1. ASSUME ReserveSeat(w) PROVE IInv'
  <2> DEFINE s == req[w].slot
  <2>1. s \in Slots /\ pc[w] = "reserve_seat"
    BY <1>1 DEF ReserveSeat, Control
  <2>2. SlotSeenBy(w, s) = slots[s]
    BY <2>1 DEF SlotSeenBy, SlotLocks
  <2>3. CASE ReserveCapacity(w, s) /\ Goto(w, "insert")
               /\ UNCHANGED <<req, committed, bookingVars>>
    BY <1>0, <1>1, <2>1, <2>2, <2>3, RowTypes, ReserveMoves, SlotWriteInv
       DEF ReserveCapacity, ReserveSeat, PC
  <2>4. CASE RollbackTransaction(w) /\ EndRequest(w)
    BY <1>1, <2>4, RollbackInv DEF ReserveSeat, EndRequest
  <2> QED
    BY <1>1, <2>3, <2>4 DEF ReserveSeat
<1>2. ASSUME ReleaseOldSlot(w) PROVE IInv'
  <2> DEFINE s == req[w].seen
             label == AfterRelease(req[w].slot)
  <2>1. s \in Slots /\ pc[w] = "release" /\ Goto(w, label)
    BY <1>2 DEF ReleaseOldSlot, Control
  <2>2. SlotSeenBy(w, s) = slots[s]
    BY <2>1 DEF SlotSeenBy, SlotLocks
  <2>3. /\ label \in PC \cap {"assign", "reserve"}
        /\ label = "reserve" => req[w].slot \in Slots \cup {BadSlot}
        /\ label = "assign" => req[w].slot \in Slots \cup {None}
    BY <1>0 DEF AfterRelease, PC, Request
  <2>4. UNCHANGED <<req, committed, bookingVars>>
    BY <1>2 DEF ReleaseOldSlot
  <2> HIDE DEF label
  <2>5. CASE ReleaseCapacity(w, s)
    <3>1. Releasable(slots[s]) /\ WriteSlot(w, s, Released(slots[s]))
      BY <2>2, <2>5 DEF ReleaseCapacity
    <3>2. /\ Released(slots[s]) \in SlotRow /\ SeatMove(slots[s], Released(slots[s]))
          /\ Released(slots[s]).meeting = slots[s].meeting
      BY <1>0, <2>1, RowTypes, ReleaseMoves
    <3> QED
      BY <1>0, <2>1, <2>3, <2>4, <3>1, <3>2, SlotWriteInv DEF Releasable
  <2>6. CASE UNCHANGED slotVars
    BY <1>0, <2>1, <2>3, <2>4, <2>6, NoWriteInv
  <2> QED
    BY <1>2, <2>5, <2>6 DEF ReleaseOldSlot
<1>3. ASSUME ReserveNewSlot(w) PROVE IInv'
  <2> DEFINE s == req[w].slot
  <2>1. /\ s \in Slots /\ pc[w] = "reserve" /\ Goto(w, "read")
        /\ UNCHANGED <<req, committed, bookingVars>>
    BY <1>3 DEF ReserveNewSlot
  <2>2. CASE ReserveCapacity(w, s)
    <3> DEFINE seen == SlotSeenBy(w, s)
    <3>1. seen \in SlotRow /\ HasFreeSeat(seen) /\ WriteSlot(w, s, Reserved(seen))
      BY <1>0, <2>1, <2>2 DEF SlotSeenBy, ReserveCapacity
    <3>2. /\ SeatMove(slots[s], Reserved(seen)) /\ Reserved(seen).meeting = slots[s].meeting
          /\ slots[s].status # "cancelled"
      <4>1. CASE slotLock[s] = w
        <5>1. Releasable(slots[s]) /\ seen = Released(slots[s])
          BY <2>1, <4>1 DEF SlotLocks, SlotSeenBy
        <5> QED
          BY <1>0, <2>1, <3>1, <5>1, ReleaseThenReserve DEF Releasable
      <4>2. CASE slotLock[s] # w
        BY <1>0, <2>1, <3>1, <4>2, ReserveMoves DEF SlotSeenBy
      <4> QED
        BY <4>1, <4>2
    <3>3. Reserved(seen) \in SlotRow /\ "read" \in PC
      BY <3>1, RowTypes DEF PC
    <3> HIDE DEF seen
    <3> QED
      BY <1>0, <2>1, <3>1, <3>2, <3>3, SlotWriteInv
  <2>3. CASE UNCHANGED slotVars
    BY <1>0, <2>1, <2>3, NoWriteInv DEF PC
  <2> QED
    BY <1>3, <2>2, <2>3 DEF ReserveNewSlot
<1>4. ASSUME RejectBadSlot(w) PROVE IInv'
  BY <1>4, RollbackInv DEF RejectBadSlot, Control
<1>5. ASSUME AssignDate(w) PROVE IInv'
  <2>1. /\ pc[w] = "assign" /\ req[w].booking \in Bookings
        /\ bookings[req[w].booking].status # "absent"
    BY <1>5 DEF AssignDate, Control
  <2> QED
    BY <1>0, <1>5, <2>1, BookingWriteInv DEF AssignDate
<1>6. ASSUME ReadMetadata(w) PROVE IInv'
  <2> DEFINE b == req[w].booking
  <2>1. /\ pc[w] = "read" /\ b \in Bookings /\ req[w].slot \in Slots \cup {None}
        /\ bookings[b].slot \in Slots \cup {None}
        /\ bookings[b].meeting \in Bookings \cup {Renewed, None}
    BY <1>0, <1>6 DEF ReadMetadata, Control, BookingRow
  <2>2. /\ Goto(w, "write") /\ UNCHANGED <<committed, slotVars, bookingVars>>
        /\ req' = [req EXCEPT ![w].seen = bookings[b].slot, ![w].room = bookings[b].meeting]
    BY <1>6 DEF ReadMetadata
  <2>3. /\ req' \in [Workers -> Request]
        /\ \A v \in Workers \ {w} : req'[v] = req[v]
        /\ req'[w].booking = b /\ req'[w].slot = req[w].slot
    <3> DEFINE request == [req[w] EXCEPT !.seen = bookings[b].slot, !.room = bookings[b].meeting]
    <3>1. request \in Request /\ request.booking = b /\ request.slot = req[w].slot
      BY <1>0, <2>1 DEF Request
    <3>2. req' = [req EXCEPT ![w] = request]
      BY <2>2
    <3> HIDE DEF request
    <3> QED
      BY <1>0, <3>1, <3>2
  <2> QED
    BY <2>1, <2>2, <2>3, NoWriteInv DEF PC
<1>7. ASSUME WriteMetadata(w) PROVE IInv'
  <2> DEFINE b == req[w].booking
             status == IF req[w].status = "absent" THEN bookings[b].status ELSE req[w].status
             slot == IF req[w].slot = None THEN req[w].seen ELSE req[w].slot
  <2>1. /\ pc[w] = "write" /\ b \in Bookings /\ bookings[b].status # "absent"
        /\ req[w].slot \in Slots \cup {None}
    BY <1>7 DEF WriteMetadata, Control
  <2>2. /\ status \in BookingStatus \ {"absent"} /\ slot \in Slots \cup {None}
        /\ req[w].room \in Bookings \cup {Renewed, None}
        /\ bookings[b].scheduleSlot \in Slots \cup {None}
    BY <1>0, <2>1 DEF Request, BookingRow
  <2>3. PICK meeting \in Bookings \cup {Renewed, None} :
          WriteBooking(w, b, [status |-> status, scheduleSlot |-> bookings[b].scheduleSlot,
                              slot |-> slot, meeting |-> meeting])
    BY <1>7, <2>2 DEF WriteMetadata
  <2> DEFINE row == [status |-> status, scheduleSlot |-> bookings[b].scheduleSlot,
                     slot |-> slot, meeting |-> meeting]
  <2>4. WriteBooking(w, b, row) /\ Goto(w, "commit")
          /\ UNCHANGED <<req, committed, slotVars>>
    BY <1>7, <2>3 DEF WriteMetadata
  <2> HIDE DEF status, slot
  <2>5. row \in BookingRow /\ row.status # "absent"
        /\ row.scheduleSlot = bookings[b].scheduleSlot
    BY <2>2 DEF BookingRow
  <2> HIDE DEF row
  <2> QED
    BY <2>1, <2>4, <2>5, BookingWriteInv
<1>8. ASSUME CreateSlot(w) PROVE IInv'
  <2> DEFINE s == req[w].slot
             drafted == slotDraft[s]
             row == [drafted EXCEPT !.status = "open",
                                    !.capacity = AtLeast(req[w].capacity, drafted.enrolled)]
             label == IF req[w].todo = {} /\ req' = req THEN "commit" ELSE "publish"
  <2>1. /\ pc[w] = "publish" /\ s \in Slots /\ WriteSlot(w, s, row)
        /\ UNCHANGED <<committed, bookingVars>>
    BY <1>8 DEF CreateSlot, Control
  <2>2. drafted \in SlotRow /\ req[w].capacity \in Nat
    BY <1>0, <2>1 DEF Request
  <2>3. /\ row \in SlotRow /\ row.enrolled = drafted.enrolled
        /\ row.meeting = drafted.meeting /\ row.enrolled <= row.capacity
    <3> DEFINE capacity == AtLeast(req[w].capacity, drafted.enrolled)
    <3>1. capacity \in Nat /\ drafted.enrolled \in Nat /\ drafted.enrolled <= capacity
      BY <2>2 DEF SlotRow, AtLeast
    <3> HIDE DEF capacity, drafted
    <3> QED
      BY <2>2, <3>1 DEF SlotRow, SlotStatus, capacity
  <2>4. slotLock[s] \in {w, None}
    BY <2>1 DEF WriteSlot
  <2>5. /\ drafted.enrolled = slots[s].enrolled
        /\ slots[s].meeting # None => drafted.meeting = slots[s].meeting
    BY <2>1, <2>4 DEF SlotLocks
  <2>6. /\ Goto(w, label) /\ label \in PC \cap {"commit", "publish"}
        /\ req' \in [Workers -> Request]
        /\ \A v \in Workers \ {w} : req'[v] = req[v]
        /\ req'[w].booking = req[w].booking /\ req'[w].kind = req[w].kind
        /\ \/ req'[w].slot = req[w].slot
           \/ label = "publish" /\ req'[w].slot \in Slots
    <3>1. CASE req[w].todo = {} /\ Goto(w, "commit") /\ UNCHANGED req
      <4>1. req' = req /\ label = "commit"
        BY <3>1
      <4> HIDE DEF label
      <4> QED
        BY <1>0, <3>1, <4>1 DEF PC
    <3>2. ASSUME NEW next \in req[w].todo,
                 req' = [req EXCEPT ![w].slot = next, ![w].todo = @ \ {next}], UNCHANGED pc
          PROVE  <2>6
      <4>1. next \in Slots /\ req[w].todo # {}
        BY <1>0, <3>2 DEF Request
      <4>2. label = "publish" /\ pc' = [pc EXCEPT ![w] = "publish"]
        BY <2>1, <3>2, <4>1 DEF TypeOK
      <4>3. req'[w] = [req[w] EXCEPT !.slot = next, !.todo = @ \ {next}]
        BY <1>0, <3>2
      <4>4. /\ req'[w] \in Request /\ req'[w].slot = next
            /\ req'[w].booking = req[w].booking /\ req'[w].kind = req[w].kind
        <5> DEFINE rest == req[w].todo \ {next}
        <5>1. rest \in SUBSET Slots /\ req'[w] = [req[w] EXCEPT !.slot = next, !.todo = rest]
          BY <1>0, <4>3 DEF Request
        <5> HIDE DEF rest
        <5> QED
          BY <1>0, <4>1, <5>1 DEF Request
      <4>5. req' \in [Workers -> Request] /\ \A v \in Workers \ {w} : req'[v] = req[v]
        BY <1>0, <3>2, <4>4
      <4> HIDE DEF label
      <4> QED
        BY <4>1, <4>2, <4>4, <4>5 DEF Goto, PC
    <3> QED
      BY <1>8, <3>1, <3>2 DEF CreateSlot
  <2>7. SeatMove(slots[s], row)
    BY <2>3, <2>5 DEF SeatMove
  <2> HIDE DEF row, label, drafted
  <2> QED
    BY <2>1, <2>3, <2>5, <2>6, <2>7, SlotWriteInv
<1>9. ASSUME RejectAborted(w) PROVE IInv'
  <2> USE DEF RejectAborted, EndRequest, Goto
  <2>1. TypeOK'
    <3>1. req[w].booking \in Bookings
      BY <1>9 DEF Control
    <3> QED
      BY <1>9, <3>1, NoRequestType DEF TypeOK, slotVars, bookingVars, committed, PC
  <2>2. Control'
    BY <1>9 DEF Control, TypeOK, committed
  <2>3. Fresh'
    BY <1>9 DEF Fresh, Control, TypeOK, committed, NoRequest
  <2>4. SlotLocks'
    BY <1>9 DEF SlotLocks, TypeOK, slotVars, committed
  <2>5. BookingLocks'
    BY <1>9 DEF BookingLocks, SeatTaken, TypeOK, slotVars, bookingVars, committed
  <2>6. SeatsWithinCapacity'
    BY <1>9 DEF SeatsWithinCapacity, committed
  <2> QED
    BY <2>1, <2>2, <2>3, <2>4, <2>5, <2>6
<1> QED
  BY <1>1, <1>2, <1>3, <1>4, <1>5, <1>6, <1>7, <1>8, <1>9, InsertBookingInv, CommitInv DEF Step

\* Every step keeps the invariant.
LEMMA NextInv == IInv /\ [Next]_vars => IInv'
<1> SUFFICES ASSUME IInv, [Next]_vars PROVE IInv'
  OBVIOUS
<1> USE ConstantsAssumption
<1>1. ASSUME NEW w \in Workers, DeadlockVictim(w) PROVE IInv'
  <2>1. pc[w] \in {"reserve_seat", "reserve", "release", "publish", "assign", "write"}
    <3>1. PICK y \in Workers : WaitsFor(w, y)
      BY <1>1 DEF DeadlockVictim, Deadlocked
    <3> QED
      BY <3>1 DEF WaitsFor
  <2>2. req[w].kind = "reschedule" => req[w].booking \in Bookings
    BY <2>1 DEF IInv, Control
  <2> QED
    BY <1>1, <2>2, RollbackInv DEF DeadlockVictim, EndRequest
<1>2. ASSUME NEW w \in Workers, Crash(w) PROVE IInv'
  BY <1>2, RollbackInv DEF Crash, EndRequest
<1>3. CASE UNCHANGED vars
  <2> USE <1>3 DEF vars
  <2>1. TypeOK' /\ Control' /\ Fresh'
    BY DEF IInv, TypeOK, Control, Fresh
  <2>2. SlotLocks' /\ BookingLocks'
    BY DEF IInv, SlotLocks, BookingLocks, SeatTaken
  <2>3. SeatsWithinCapacity'
    BY DEF IInv, SeatsWithinCapacity
  <2> QED
    BY <2>1, <2>2, <2>3 DEF IInv
<1> QED
  BY <1>1, <1>2, <1>3, StartInv, StepInv, UpdateSlotInv DEF Next

\* Every reachable state satisfies the inductive invariant.
LEMMA Invariance == Spec => []IInv
BY InitIInv, NextInv, PTL DEF Spec

-------------------------------------------------------------------------------
(* Theorems.                                                               *)

\* In every reachable state each variable has its type; enrolled_count is never
\* negative, whatever requests release seats.
THEOREM TypeCorrect == Spec => []TypeOK
<1>1. IInv => TypeOK
  BY DEF IInv
<1> QED
  BY <1>1, Invariance, PTL

\* No slot ever has more enrolments than seats.
THEOREM NoSlotOverfull == Spec => []SeatsWithinCapacity
<1>1. IInv => SeatsWithinCapacity
  BY DEF IInv
<1> QED
  BY <1>1, Invariance, PTL

\* Only a commit and an operator's edit change committed rows.
LEMMA CommittedUntouched ==
  ASSUME NEW w \in Workers,
         Start(w) \/ DeadlockVictim(w) \/ Crash(w) \/ (Step(w) /\ ~Commit(w))
  PROVE  UNCHANGED committed
<1>1. \A label, request : Begin(w, label, request) => UNCHANGED committed
  BY DEF Begin
<1>2. ASSUME Start(w) PROVE UNCHANGED committed
  <2>1. ASSUME NEW b \in Bookings, NEW s \in Slots \cup {None}, BeginCreate(w, b, s)
        PROVE  UNCHANGED committed
    BY <1>1, <2>1, Zenon DEF BeginCreate
  <2>2. ASSUME NEW b \in Bookings, NEW s \in Targets, BeginReschedule(w, b, s)
        PROVE  UNCHANGED committed
    BY <1>1, <2>2, Zenon DEF BeginReschedule
  <2>3. ASSUME NEW b \in Bookings, NEW kind, NEW status, BeginUpdate(w, b, kind, status)
        PROVE  UNCHANGED committed
    BY <1>1, <2>3, Zenon DEF BeginUpdate
  <2>4. ASSUME NEW batch \in SUBSET Slots, NEW first \in Slots, NEW c \in Capacities,
               BeginPublish(w, batch, first, c)
        PROVE  UNCHANGED committed
    BY <1>1, <2>4, Zenon DEF BeginPublish
  <2> QED
    BY <1>2, <2>1, <2>2, <2>3, <2>4
       DEF Start, BeginCancel, BeginStatusUpdate, BeginCallback, BeginRegenerate
<1>3. ASSUME Step(w) /\ ~Commit(w) PROVE UNCHANGED committed
  BY <1>3 DEF Step, ReserveSeat, InsertBooking, ReleaseOldSlot, ReserveNewSlot,
              RejectBadSlot, AssignDate, ReadMetadata, WriteMetadata,
              CreateSlot, RejectAborted, RollbackTransaction
<1> QED
  BY <1>2, <1>3 DEF DeadlockVictim, Crash, RollbackTransaction

\* How the committed rows of a slot change in one step: a commit publishes one
\* pool move, an edit changes the capacity, anything else leaves them alone.
LEMMA CommittedMoves ==
  ASSUME IInv, [Next]_vars
  PROVE  /\ \A s \in Slots : SeatMove(slots[s], slots'[s])
         /\ \A s \in Slots : slots[s].status = "cancelled" =>
              slots'[s].enrolled = slots[s].enrolled
<1> USE ConstantsAssumption
<1>0. \A s \in Slots : slots[s] \in SlotRow /\ slots[s].enrolled <= slots[s].capacity
  BY DEF IInv, TypeOK, SeatsWithinCapacity
<1>1. CASE slots' = slots
  BY <1>0, <1>1 DEF SeatMove
<1>2. ASSUME NEW w \in Workers, Commit(w)
      PROVE  \A s \in Slots : slots'[s] = slots[s] \/
                              (slotLock[s] = w /\ slots'[s] = slotDraft[s])
  BY <1>2 DEF Commit, CommitTransaction
<1>3. ASSUME NEW w \in Workers, Commit(w)
      PROVE  \A s \in Slots : /\ SeatMove(slots[s], slots'[s])
                              /\ slots[s].status = "cancelled" =>
                                   slots'[s].enrolled = slots[s].enrolled
  BY <1>0, <1>2, <1>3 DEF IInv, SlotLocks, SeatMove
<1>4. ASSUME NEW r \in Slots, NEW capacity \in Capacities \cup {None},
             NEW status \in (SlotStatus \ {"absent"}) \cup {None},
             UpdateSlot(r, capacity, status)
      PROVE  \A s \in Slots : slots'[s].enrolled = slots[s].enrolled
  BY <1>4 DEF UpdateSlot, IInv, TypeOK, SlotRow
<1>5. ASSUME \A s \in Slots : slots'[s].enrolled = slots[s].enrolled
      PROVE  \A s \in Slots : SeatMove(slots[s], slots'[s])
  BY <1>5, NextInv DEF IInv, SeatsWithinCapacity, SeatMove
<1>6. ASSUME NEW w \in Workers,
             Start(w) \/ DeadlockVictim(w) \/ Crash(w) \/ (Step(w) /\ ~Commit(w))
      PROVE  slots' = slots
  BY <1>6, CommittedUntouched DEF committed
<1> QED
  BY <1>1, <1>3, <1>4, <1>5, <1>6 DEF Next, vars

\* No step takes or gives back a seat of a cancelled slot.
THEOREM CancelledStaysFrozen == Spec => CancelledSlotFrozen
<1>1. IInv /\ [Next]_vars =>
        [\A s \in Slots :
           slots[s].status = "cancelled" => slots'[s].enrolled = slots[s].enrolled]_vars
  BY CommittedMoves
<1> QED
  BY <1>1, Invariance, PTL DEF Spec, CancelledSlotFrozen

\* The committed rows of the slots behave as the pool of seats.
THEOREM SlotsImplementPool == Spec => ImplementsSeatPool
<1> DEFINE seats == [s \in Slots |-> slots[s].capacity]
           taken == [s \in Slots |-> slots[s].enrolled]
<1>1. Init => Pool!Init
  <2> SUFFICES ASSUME Init PROVE Pool!Init
    OBVIOUS
  <2>1. \A s \in Slots : /\ slots[s].capacity \in Nat /\ slots[s].enrolled \in Nat
                         /\ slots[s].enrolled <= slots[s].capacity
    BY InitIInv DEF IInv, TypeOK, SlotRow, SeatsWithinCapacity
  <2> QED
    BY <2>1 DEF Pool!Init
<1>2. IInv /\ IInv' /\ [Next]_vars => [Pool!Next]_<<seats, taken>>
  <2> SUFFICES ASSUME IInv, IInv', [Next]_vars PROVE Pool!Next
    OBVIOUS
  <2>1. \A s \in Slots : SeatMove(slots[s], slots'[s])
    BY CommittedMoves
  <2>2. \A s \in Slots : /\ slots[s].capacity \in Nat /\ slots'[s].capacity \in Nat
                         /\ slots[s].enrolled \in Nat /\ slots'[s].enrolled \in Nat
    BY DEF IInv, TypeOK, SlotRow
  <2>3. /\ seats' = [s \in Slots |-> slots'[s].capacity]
        /\ taken' = [s \in Slots |-> slots'[s].enrolled]
    OBVIOUS
  <2>4. ASSUME NEW s \in Slots
        PROVE  Pool!TakeSeat(s) \/ Pool!GiveBack(s) \/ Pool!Resize(s)
    BY <2>1, <2>2, <2>3, <2>4 DEF SeatMove, Pool!TakeSeat, Pool!GiveBack, Pool!Resize
  <2> QED
    BY <2>3, <2>4 DEF Pool!Next
<1> QED
  BY <1>1, <1>2, Invariance, PTL DEF Spec, ImplementsSeatPool, Pool!Spec

\* A booking appears in the very commit that takes its seat.
THEOREM BookingHasSeat == Spec => BookingTakesSeat
<1> DEFINE Seated == \A b \in Bookings, s \in Slots :
             bookings[b].status = "absent" /\ bookings'[b].scheduleSlot = s =>
               HasFreeSeat(slots[s]) /\ slots'[s].enrolled = slots[s].enrolled + 1
<1>1. ASSUME IInv, Next PROVE Seated
  <2> USE ConstantsAssumption
  <2>1. CASE bookings' = bookings
    BY <1>1, <2>1 DEF IInv, BookingLocks
  <2>2. ASSUME NEW w \in Workers, Commit(w) PROVE Seated
    BY <1>1, <2>2 DEF IInv, BookingLocks, SeatTaken, Commit, CommitTransaction
  <2>3. ASSUME NEW w \in Workers,
               Start(w) \/ DeadlockVictim(w) \/ Crash(w) \/ (Step(w) /\ ~Commit(w))
        PROVE  Seated
    BY <2>1, <2>3, CommittedUntouched DEF committed
  <2>4. CASE \E s \in Slots, c \in Capacities \cup {None},
                st \in (SlotStatus \ {"absent"}) \cup {None} : UpdateSlot(s, c, st)
    BY <2>1, <2>4 DEF UpdateSlot
  <2> QED
    BY <1>1, <2>2, <2>3, <2>4 DEF Next
<1>2. IInv /\ [Next]_vars => [Seated]_vars
  BY <1>1
<1> QED
  BY <1>2, Invariance, PTL DEF Spec, BookingTakesSeat

\* A room once given to a slot stays, and the bookings made for the slot get it.
THEOREM CohortSharesRoom == Spec => SharedRoom
<1> DEFINE Shared == \A s \in Slots :
             /\ slots[s].meeting # None => slots'[s].meeting = slots[s].meeting
             /\ \A b \in Bookings :
                  bookings[b].status = "absent" /\ bookings'[b].scheduleSlot = s =>
                    bookings'[b].meeting = slots'[s].meeting
<1>1. ASSUME IInv, Next PROVE Shared
  <2> USE ConstantsAssumption
  <2>1. ASSUME bookings' = bookings,
               \A s \in Slots : slots'[s].meeting = slots[s].meeting
        PROVE  Shared
    BY <1>1, <2>1 DEF IInv, BookingLocks
  <2>2. ASSUME NEW w \in Workers, Commit(w) PROVE Shared
    BY <1>1, <2>2 DEF IInv, SlotLocks, BookingLocks, SeatTaken, Commit, CommitTransaction
  <2>3. ASSUME NEW w \in Workers,
               Start(w) \/ DeadlockVictim(w) \/ Crash(w) \/ (Step(w) /\ ~Commit(w))
        PROVE  Shared
    BY <2>1, <2>3, CommittedUntouched DEF committed
  <2>4. ASSUME NEW r \in Slots, NEW capacity \in Capacities \cup {None},
               NEW status \in (SlotStatus \ {"absent"}) \cup {None},
               UpdateSlot(r, capacity, status)
        PROVE  Shared
    BY <1>1, <2>1, <2>4 DEF UpdateSlot, IInv, TypeOK, SlotRow
  <2> QED
    BY <1>1, <2>2, <2>3, <2>4 DEF Next
<1>2. IInv /\ [Next]_vars => [Shared]_vars
  BY <1>1
<1> QED
  BY <1>2, Invariance, PTL DEF Spec, SharedRoom

-------------------------------------------------------------------------------
(* Seats and bookings, while no client reschedules.                        *)

\* No request is at a statement of a reschedule.
NothingMoves == \A w \in Workers : pc[w] \notin {"release", "reserve", "assign"}

\* The booking of w appears with the next commit, on slot s.
OpensBooking(w, s) ==
  LET b == req[w].booking
  IN  /\ b \in Bookings /\ bookingLock[b] = w
      /\ bookings[b].status = "absent"
      /\ bookingDraft[b].scheduleSlot = s

\* Who locks a slot either makes a booking for it in the same transaction, or
\* leaves its enrolments alone and makes none.
SeatsOwed ==
  \A w \in Workers, s \in Slots : slotLock[s] = w =>
    \/ pc[w] = "insert" /\ req[w].slot = s
    \/ pc[w] = "commit" /\ OpensBooking(w, s)
    \/ /\ pc[w] \in {"publish", "commit"}
       /\ slotDraft[s].enrolled = slots[s].enrolled
       /\ \A b \in Bookings : bookingLock[b] # w

\* A request begins at no statement of a reschedule, and locks nothing.
LEMMA StartOwes ==
  ASSUME "reschedule" \notin Workload, IInv, NothingMoves, SeatsOwed,
         NEW w \in Workers, Start(w)
  PROVE  (NothingMoves /\ SeatsOwed)'
<1> USE ConstantsAssumption
<1>1. ASSUME NEW label \in {"insert", "reserve_seat", "read", "publish"}, NEW request,
             Begin(w, label, request)
      PROVE  (NothingMoves /\ SeatsOwed)'
  <2>1. NothingMoves'
    BY <1>1 DEF Begin, Goto, NothingMoves, IInv, TypeOK
  <2>2. \A s \in Slots : slotLock[s] # w
    BY <1>1 DEF Begin, IInv, SlotLocks
  <2>3. SeatsOwed'
    BY <1>1, <2>2 DEF Begin, Goto, SeatsOwed, OpensBooking, IInv, TypeOK,
                      slotVars, bookingVars, committed
  <2> QED
    BY <2>1, <2>3
<1>2. ASSUME NEW b \in Bookings, NEW s \in Slots \cup {None}, BeginCreate(w, b, s)
      PROVE  (NothingMoves /\ SeatsOwed)'
  BY <1>1, <1>2 DEF BeginCreate
<1>3. ASSUME NEW b \in Bookings, NEW kind, NEW status, BeginUpdate(w, b, kind, status)
      PROVE  (NothingMoves /\ SeatsOwed)'
  BY <1>1, <1>3 DEF BeginUpdate
<1>4. ASSUME NEW batch \in SUBSET Slots, NEW first \in Slots, NEW c \in Capacities,
             BeginPublish(w, batch, first, c)
      PROVE  (NothingMoves /\ SeatsOwed)'
  BY <1>1, <1>4 DEF BeginPublish
<1>5. ASSUME NEW b \in Bookings, NEW s \in Targets, BeginReschedule(w, b, s)
      PROVE  FALSE
  BY <1>5 DEF BeginReschedule, Begin, NoRequest
<1> QED
  BY <1>2, <1>3, <1>4, <1>5
     DEF Start, BeginCancel, BeginStatusUpdate, BeginCallback, BeginRegenerate

\* A request that ends, with a commit or a rollback, locks nothing any more.
LEMMA EndOwes ==
  ASSUME IInv, NothingMoves, SeatsOwed, NEW w \in Workers, NEW label \in {"idle", "aborted"},
         Goto(w, label), CommitTransaction(w) \/ RollbackTransaction(w),
         \A v \in Workers \ {w} : req'[v] = req[v]
  PROVE  (NothingMoves /\ SeatsOwed)'
<1> USE ConstantsAssumption DEF Goto, IInv
<1>1. NothingMoves'
  BY DEF NothingMoves, TypeOK
<1>2. \A s \in Slots : slotLock'[s] = IF slotLock[s] = w THEN None ELSE slotLock[s]
  BY DEF CommitTransaction, RollbackTransaction, Unlock, TypeOK
<1>3. \A b \in Bookings : bookingLock'[b] = IF bookingLock[b] = w THEN None ELSE bookingLock[b]
  BY DEF CommitTransaction, RollbackTransaction, Unlock, TypeOK
<1>4. \A s \in Slots : slotLock[s] # w =>
        slots'[s] = slots[s] /\ slotDraft'[s] = slotDraft[s]
  BY DEF CommitTransaction, RollbackTransaction, TypeOK, committed
<1>5. \A b \in Bookings : bookingLock[b] # w =>
        bookings'[b] = bookings[b] /\ bookingDraft'[b] = bookingDraft[b]
  BY DEF CommitTransaction, RollbackTransaction, TypeOK, committed
<1>6. ASSUME NEW v \in Workers, NEW s \in Slots, slotLock'[s] = v
      PROVE  /\ v # w /\ slotLock[s] = v /\ pc'[v] = pc[v] /\ req'[v] = req[v]
             /\ slots'[s] = slots[s] /\ slotDraft'[s] = slotDraft[s]
             /\ OpensBooking(v, s) => OpensBooking(v, s)'
             /\ \A b \in Bookings : bookingLock[b] # v => bookingLock'[b] # v
  <2>1. v # w /\ slotLock[s] = v
    BY <1>2, <1>6
  <2>2. pc'[v] = pc[v] /\ req'[v] = req[v]
    BY <2>1 DEF TypeOK
  <2>3. OpensBooking(v, s) => OpensBooking(v, s)'
    BY <1>3, <1>5, <2>1, <2>2 DEF OpensBooking
  <2> QED
    BY <1>3, <1>4, <2>1, <2>2, <2>3
<1>7. SeatsOwed'
  BY <1>6 DEF SeatsOwed
<1> QED
  BY <1>1, <1>7

\* A statement of a request keeps what it and the others owe.
LEMMA StepOwes ==
  ASSUME IInv, NothingMoves, SeatsOwed, NEW w \in Workers, Step(w)
  PROVE  (NothingMoves /\ SeatsOwed)'
<1> USE ConstantsAssumption
<1>0. /\ slotLock \in [Slots -> Workers \cup {None}]
      /\ bookingLock \in [Bookings -> Workers \cup {None}]
      /\ pc \in [Workers -> PC]
      /\ slotDraft \in [Slots -> SlotRow] /\ bookingDraft \in [Bookings -> BookingRow]
      /\ pc[w] \notin {"release", "reserve", "assign"}
  BY DEF IInv, TypeOK, NothingMoves
<1>1. CASE ReserveSeat(w)
  <2> DEFINE s == req[w].slot
  <2>1. s \in Slots /\ pc[w] = "reserve_seat"
    BY <1>1 DEF ReserveSeat, IInv, Control
  <2>2. CASE ReserveCapacity(w, s) /\ Goto(w, "insert")
               /\ UNCHANGED <<req, committed, bookingVars>>
    <3>1. \A r \in Slots : slotLock[r] # w
      BY <2>1 DEF IInv, SlotLocks
    <3>2. NothingMoves'
      BY <1>0, <2>2 DEF Goto, NothingMoves
    <3>3. SeatsOwed'
      BY <1>0, <2>1, <2>2, <3>1
         DEF SeatsOwed, OpensBooking, ReserveCapacity, WriteSlot, Goto, committed, bookingVars
    <3> QED
      BY <3>2, <3>3
  <2>3. CASE RollbackTransaction(w) /\ EndRequest(w)
    BY <2>3, EndOwes DEF EndRequest, IInv, TypeOK
  <2> QED
    BY <1>1, <2>2, <2>3 DEF ReserveSeat
<1>2. CASE InsertBooking(w)
  <2> DEFINE b == req[w].booking
             s == req[w].slot
  <2>1. /\ pc[w] = "insert" /\ b \in Bookings /\ s \in Slots \cup {None}
        /\ bookings[b].status = "absent"
        /\ Goto(w, "commit") /\ UNCHANGED <<req, committed>>
    BY <1>2 DEF InsertBooking, IInv, Control, Fresh
  <2>2. PICK meeting :
          /\ WriteBooking(w, b, [status |-> "captured", scheduleSlot |-> s,
                                 slot |-> None, meeting |-> meeting])
          /\ IF s = None
             THEN UNCHANGED slotVars
             ELSE WriteSlot(w, s, [slotDraft[s] EXCEPT !.meeting = meeting])
    BY <1>2 DEF InsertBooking
  <2>3. \A r \in Slots : slotLock[r] = w => r = s
    BY <2>1 DEF SeatsOwed
  <2>4. /\ bookingLock[b] \in {w, None}
        /\ bookingLock' = [bookingLock EXCEPT ![b] = w]
        /\ bookingDraft'[b].scheduleSlot = s
        /\ \A a \in Bookings \ {b} : bookingDraft'[a] = bookingDraft[a]
    BY <1>0, <2>1, <2>2 DEF WriteBooking
  <2>5. /\ \A r \in Slots : slotLock'[r] = IF r = s THEN w ELSE slotLock[r]
        /\ \A r \in Slots : r # s => slotDraft'[r] = slotDraft[r]
    BY <1>0, <2>1, <2>2 DEF WriteSlot, slotVars
  <2>6. ASSUME NEW r \in Slots, slotLock'[r] = w PROVE OpensBooking(w, r)'
    <3>1. r = s
      BY <2>3, <2>5, <2>6
    <3> QED
      BY <1>0, <2>1, <2>4, <3>1 DEF OpensBooking, committed
  <2>7. ASSUME NEW v \in Workers \ {w}, NEW r \in Slots, slotLock'[r] = v
        PROVE  /\ slotLock[r] = v /\ slotDraft'[r] = slotDraft[r] /\ slots'[r] = slots[r]
               /\ pc'[v] = pc[v] /\ req'[v] = req[v]
               /\ OpensBooking(v, r) => OpensBooking(v, r)'
               /\ \A a \in Bookings : bookingLock[a] # v => bookingLock'[a] # v
    BY <1>0, <2>1, <2>4, <2>5, <2>7 DEF OpensBooking, Goto, committed
  <2>8. NothingMoves'
    BY <1>0, <2>1 DEF Goto, NothingMoves
  <2>9. SeatsOwed'
    <3>1. pc'[w] = "commit"
      BY <1>0, <2>1 DEF Goto
    <3> QED
      BY <2>6, <2>7, <3>1 DEF SeatsOwed
  <2> QED
    BY <2>8, <2>9
<1>3. CASE ReadMetadata(w)
  <2>1. \A s \in Slots : slotLock[s] # w
    BY <1>3 DEF ReadMetadata, SeatsOwed
  <2>2. \A v \in Workers \ {w} : req'[v] = req[v] /\ pc'[v] = pc[v]
    BY <1>0, <1>3 DEF ReadMetadata, Goto, IInv, TypeOK
  <2>3. NothingMoves'
    BY <1>0, <1>3 DEF ReadMetadata, Goto, NothingMoves
  <2>4. UNCHANGED <<committed, slotVars, bookingVars>>
    BY <1>3 DEF ReadMetadata
  <2>5. SeatsOwed'
    BY <1>0, <2>1, <2>2, <2>4
       DEF SeatsOwed, OpensBooking, slotVars, bookingVars, committed
  <2> QED
    BY <2>3, <2>5
<1>4. CASE WriteMetadata(w)
  <2> DEFINE b == req[w].booking
  <2>1. /\ pc[w] = "write" /\ Goto(w, "commit") /\ UNCHANGED <<req, committed, slotVars>>
        /\ b \in Bookings
    BY <1>4 DEF WriteMetadata, IInv, Control
  <2>2. /\ bookingLock[b] \in {w, None}
        /\ bookingLock' = [bookingLock EXCEPT ![b] = w]
        /\ \A a \in Bookings \ {b} : bookingDraft'[a] = bookingDraft[a]
    BY <1>0, <1>4, <2>1 DEF WriteMetadata, WriteBooking
  <2>3. \A s \in Slots : slotLock[s] # w
    BY <2>1 DEF SeatsOwed
  <2>4. NothingMoves'
    BY <1>0, <2>1 DEF Goto, NothingMoves
  <2>5. SeatsOwed'
    BY <1>0, <2>1, <2>2, <2>3 DEF SeatsOwed, OpensBooking, Goto, slotVars, committed
  <2> QED
    BY <2>4, <2>5
<1>5. CASE CreateSlot(w)
  <2> DEFINE s == req[w].slot
  <2>1. s \in Slots /\ pc[w] = "publish" /\ UNCHANGED <<committed, bookingVars>>
    BY <1>5 DEF CreateSlot, IInv, Control
  <2>2. \A b \in Bookings : bookingLock[b] # w
    BY <2>1 DEF IInv, BookingLocks
  <2>3. slotDraft[s].enrolled = slots[s].enrolled
    <3>1. slotLock[s] \in {w, None}
      BY <1>5 DEF CreateSlot, WriteSlot
    <3> QED
      BY <2>1, <3>1 DEF SeatsOwed, IInv, SlotLocks
  <2>4. /\ slotLock' = [slotLock EXCEPT ![s] = w]
        /\ \A r \in Slots \ {s} : slotDraft'[r] = slotDraft[r]
        /\ slotDraft'[s].enrolled = slotDraft[s].enrolled
    BY <1>0, <1>5, <2>1 DEF CreateSlot, WriteSlot, SlotRow
  <2>5. /\ pc' \in [Workers -> PC] /\ pc'[w] \in {"publish", "commit"}
        /\ \A v \in Workers \ {w} : pc'[v] = pc[v] /\ req'[v] = req[v]
    BY <1>0, <1>5 DEF CreateSlot, Goto, PC, IInv, TypeOK
  <2>6. NothingMoves'
    BY <2>5 DEF NothingMoves
  <2>7. ASSUME NEW r \in Slots, slotLock'[r] = w
        PROVE  /\ slotDraft'[r].enrolled = slots'[r].enrolled
               /\ \A b \in Bookings : bookingLock'[b] # w
    BY <1>0, <2>1, <2>2, <2>3, <2>4, <2>7 DEF SeatsOwed, committed, bookingVars
  <2>8. ASSUME NEW v \in Workers \ {w}, NEW r \in Slots, slotLock'[r] = v
        PROVE  /\ slotLock[r] = v /\ slotDraft'[r] = slotDraft[r] /\ slots'[r] = slots[r]
               /\ pc'[v] = pc[v] /\ req'[v] = req[v]
               /\ OpensBooking(v, r) => OpensBooking(v, r)'
               /\ \A b \in Bookings : bookingLock[b] # v => bookingLock'[b] # v
    BY <1>0, <2>1, <2>4, <2>5, <2>8 DEF OpensBooking, committed, bookingVars
  <2>9. SeatsOwed'
    BY <2>5, <2>7, <2>8 DEF SeatsOwed
  <2> QED
    BY <2>6, <2>9
<1>6. CASE Commit(w)
  BY <1>6, EndOwes DEF Commit, EndRequest, IInv, TypeOK
<1>7. CASE RejectAborted(w)
  <2>1. \A s \in Slots : slotLock[s] # w
    BY <1>7 DEF RejectAborted, SeatsOwed
  <2>2. \A v \in Workers \ {w} : req'[v] = req[v] /\ pc'[v] = pc[v]
    BY <1>0, <1>7 DEF RejectAborted, EndRequest, Goto, IInv, TypeOK
  <2>3. NothingMoves'
    BY <1>0, <1>7 DEF RejectAborted, EndRequest, Goto, NothingMoves
  <2>4. SeatsOwed'
    BY <1>0, <1>7, <2>1, <2>2
       DEF RejectAborted, SeatsOwed, OpensBooking, slotVars, bookingVars, committed
  <2> QED
    BY <2>3, <2>4
<1>8. ~(ReleaseOldSlot(w) \/ ReserveNewSlot(w) \/ RejectBadSlot(w) \/ AssignDate(w))
  BY <1>0 DEF ReleaseOldSlot, ReserveNewSlot, RejectBadSlot, AssignDate
<1> QED
  BY <1>1, <1>2, <1>3, <1>4, <1>5, <1>6, <1>7, <1>8 DEF Step

\* Every step keeps what the requests owe.
LEMMA NextOwes ==
  ASSUME "reschedule" \notin Workload, IInv, NothingMoves, SeatsOwed, [Next]_vars
  PROVE  (NothingMoves /\ SeatsOwed)'
<1> USE ConstantsAssumption
<1>1. ASSUME NEW w \in Workers, DeadlockVictim(w) \/ Crash(w)
      PROVE  (NothingMoves /\ SeatsOwed)'
  BY <1>1, EndOwes DEF DeadlockVictim, Crash, EndRequest, IInv, TypeOK
<1>2. ASSUME NEW s \in Slots, NEW c \in Capacities \cup {None},
             NEW st \in (SlotStatus \ {"absent"}) \cup {None}, UpdateSlot(s, c, st)
      PROVE  (NothingMoves /\ SeatsOwed)'
  <2>1. /\ slotLock[s] = None
        /\ \A r \in Slots \ {s} : slots'[r] = slots[r] /\ slotDraft'[r] = slotDraft[r]
        /\ UNCHANGED <<slotLock, bookings, bookingVars, pc, req>>
    BY <1>2 DEF UpdateSlot, IInv, TypeOK
  <2> QED
    BY <2>1 DEF NothingMoves, SeatsOwed, OpensBooking, bookingVars
<1>3. CASE UNCHANGED vars
  BY <1>3 DEF vars, NothingMoves, SeatsOwed, OpensBooking
<1> QED
  BY <1>1, <1>2, <1>3, StartOwes, StepOwes DEF Next

\* A commit adds as many seats to a slot as bookings made for it.
LEMMA CommitKeepsCount ==
  ASSUME IInv, SeatsOwed, NEW w \in Workers, Commit(w), NEW s \in Slots,
         NEW new, new = {b \in Bookings :
                           bookings[b].scheduleSlot # s /\ bookings'[b].scheduleSlot = s}
  PROVE  slots'[s].enrolled = slots[s].enrolled + Cardinality(new)
<1> DEFINE b == req[w].booking
<1> USE ConstantsAssumption
<1>0. slots[s].enrolled \in Nat
  BY DEF IInv, TypeOK, SlotRow
<1>1. /\ slots'[s] = IF slotLock[s] = w THEN slotDraft[s] ELSE slots[s]
      /\ \A a \in Bookings :
           bookings'[a] = IF bookingLock[a] = w THEN bookingDraft[a] ELSE bookings[a]
  BY DEF Commit, CommitTransaction
<1>2. ASSUME NEW a \in new
      PROVE  /\ a = b /\ a \in Bookings /\ bookings[a].status = "absent"
             /\ bookings'[a].scheduleSlot = s
             /\ slots'[s].enrolled = slots[s].enrolled + 1
  <2>1. /\ a \in Bookings /\ bookings[a].scheduleSlot # s /\ bookingLock[a] = w
        /\ bookingDraft[a].scheduleSlot = s
    BY <1>1
  <2>2. a = b /\ bookings[a].status = "absent"
    BY <2>1 DEF IInv, BookingLocks
  <2>3. SeatTaken(w, s)
    BY <2>1, <2>2 DEF IInv, BookingLocks
  <2> QED
    BY <1>1, <2>1, <2>2, <2>3 DEF SeatTaken
<1>3. CASE new = {}
  <2>1. slots'[s].enrolled = slots[s].enrolled
    <3>1. CASE slotLock[s] # w
      BY <1>1, <3>1
    <3>2. CASE slotLock[s] = w
      <4>1. pc[w] = "commit"
        BY DEF Commit
      <4>2. ~OpensBooking(w, s)
        <5> SUFFICES ASSUME OpensBooking(w, s) PROVE b \in new
          BY <1>3
        <5>1. bookings[b].scheduleSlot = None
          BY DEF OpensBooking, IInv, BookingLocks
        <5> QED
          BY <1>1, <5>1 DEF OpensBooking
      <4> QED
        BY <1>1, <3>2, <4>1, <4>2 DEF SeatsOwed
    <3> QED
      BY <3>1, <3>2
  <2>2. Cardinality(new) = 0
    BY <1>3, FS_EmptySet
  <2> QED
    BY <1>0, <2>1, <2>2
<1>4. CASE new # {}
  <2>1. PICK a : a \in new
    BY <1>4
  <2>2. new = {a}
    BY <1>2, <2>1
  <2>3. Cardinality(new) = 1
    BY <2>2, FS_Singleton
  <2> QED
    BY <1>2, <2>1, <2>3
<1> QED
  BY <1>3, <1>4

\* As long as no client reschedules, a slot's enrolments rise by the bookings made
\* for it and by nothing else.
THEOREM SeatsFollowBookings ==
  ASSUME "reschedule" \notin Workload
  PROVE  Spec => SeatsMatchBookings
<1> DEFINE New(s) == {b \in Bookings :
                        bookings[b].scheduleSlot # s /\ bookings'[b].scheduleSlot = s}
           Match == \A s \in Slots :
                      slots'[s].enrolled = slots[s].enrolled + Cardinality(New(s))
<1>1. Init => NothingMoves /\ SeatsOwed
  BY ConstantsAssumption DEF Init, NothingMoves, SeatsOwed
<1>2. IInv /\ NothingMoves /\ SeatsOwed /\ [Next]_vars => (NothingMoves /\ SeatsOwed)'
  BY NextOwes
<1>3. ASSUME IInv, SeatsOwed, Next PROVE Match
  <2>1. ASSUME UNCHANGED bookings, \A s \in Slots : slots'[s].enrolled = slots[s].enrolled
        PROVE  Match
    <3>1. \A s \in Slots : slots[s].enrolled \in Nat
      BY <1>3 DEF IInv, TypeOK, SlotRow
    <3>2. \A s \in Slots : New(s) = {}
      BY <2>1
    <3>3. \A s \in Slots : Cardinality(New(s)) = 0
      BY <3>2, FS_EmptySet
    <3> HIDE DEF New
    <3> QED
      BY <2>1, <3>1, <3>3
  <2>2. ASSUME NEW w \in Workers, Commit(w) PROVE Match
    BY <1>3, <2>2, CommitKeepsCount
  <2>3. ASSUME NEW w \in Workers,
               Start(w) \/ DeadlockVictim(w) \/ Crash(w) \/ (Step(w) /\ ~Commit(w))
        PROVE  Match
    BY <2>1, <2>3, CommittedUntouched DEF committed
  <2>4. ASSUME NEW r \in Slots, NEW capacity \in Capacities \cup {None},
               NEW status \in (SlotStatus \ {"absent"}) \cup {None},
               UpdateSlot(r, capacity, status)
        PROVE  Match
    BY <1>3, <2>1, <2>4 DEF UpdateSlot, IInv, TypeOK, SlotRow
  <2> QED
    BY <1>3, <2>2, <2>3, <2>4 DEF Next
<1>4. IInv /\ SeatsOwed /\ [Next]_vars => [Match]_vars
  BY <1>3
<1> QED
  BY <1>1, <1>2, <1>4, Invariance, PTL DEF Spec, SeatsMatchBookings
===============================================================================
