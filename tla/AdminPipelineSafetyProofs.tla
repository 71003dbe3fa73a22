----------------------- MODULE AdminPipelineSafetyProofs -----------------------
(***************************************************************************)
(* What AdminPipeline promises of rows that no two requests worked on at   *)
(* the same time, for any number of requests and rows.  Such a row is      *)
(* written by one request at a time (Alone), so what that request read of  *)
(* it, made of it or owes an entry about it still stands at its next       *)
(* statement: Progress, Linked, EntriesTrue and SeenIsCurrent say how.     *)
(***************************************************************************)
EXTENDS AdminPipelineProofs

Exists(x) ==
  \/ x \in Customers /\ customers[x].state # "absent"
  \/ x \in Leads /\ leads[x].state # "absent"
  \/ x \in Services
  \/ x \in Bookings /\ bookings[x].status # "absent"
  \/ x \in Payments /\ payments[x].status # "absent"

\* Two requests work on a row only if it counts as raced.
Alone ==
  \A r, q \in Requests : \A x \in WorksOn(r) \cap WorksOn(q) : x \in raced \/ r = q

\* Requests work on rows that exist, so the row an insert makes is nobody's yet.
Existing ==
  /\ \A r \in Requests : pc[r] = "idle" => made[r] = {}
  /\ \A r \in Requests : \A x \in WorksOn(r) : Exists(x)

\* Customers and bookings are made from leads that exist; a booking made from a lead
\* has a customer.
Origins ==
  /\ \A c \in Customers : customers[c].from # None => Exists(customers[c].from)
  /\ \A b \in Bookings : bookings[b].from # None =>
       Exists(bookings[b].from) /\ bookings[b].customer # None

\* A row that was never inserted has nothing to lose.
BlankBefore ==
  /\ \A l \in Leads : leads[l].state = "absent" => leads[l].notes = {}
  /\ \A p \in Payments : payments[p].status = "absent" => payments[p].dates = {}

\* What a conversion knows of the lead's customer.
ProgressOf(r) ==
  /\ pc[r] \in {"find service", "find customer", "log link", "book", "log booking", "win lead"}
       => customer[r] = leads[req[r].row].customer
  /\ pc[r] \in {"make customer", "log customer", "link lead"}
       => leads[req[r].row].customer = None

Progress == \A r \in Requests : req[r].row \notin raced => ProgressOf(r)

\* A customer made from a lead is the lead's, or about to be.
Linking(r, l, c) ==
  pc[r] \in {"log customer", "link lead"} /\ req[r].row = l /\ customer[r] = c

Linked ==
  \A l \in Leads \ (raced \cup interrupted), c \in Customers :
    customers[c].from = l => leads[l].customer = c \/ \E r \in Requests : Linking(r, l, c)

Owes(r, x) == pc[r] \in LogPoints /\ entry[r].row = x

Owed == \A r \in Requests, x \in Rows : Owes(r, x) => x \in WorksOn(r)

\* An entry that is owed is so; if none is owed, the one that was made is.
EntriesTrue ==
  \A x \in Rows \ (raced \cup interrupted) :
    /\ \A r \in Requests : Owes(r, x) => entry[r].says \subseteq RowFacts(x)
    /\ (\A r \in Requests : ~Owes(r, x)) => audit[x] \subseteq RowFacts(x)

\* What an update read of its row is still what the row holds.
SeenIsCurrent ==
  \A r \in Requests : pc[r] = "write" /\ req[r].row \notin raced =>
    /\ req[r].row \in Leads => seen[r].notes = leads[req[r].row].notes
    /\ req[r].row \in Payments => seen[r].dates = payments[req[r].row].dates

\* The inductive invariant, beside the types.
IInv ==
  /\ Alone /\ Existing /\ Origins /\ BlankBefore
  /\ Progress /\ LeadMatchesBookings /\ Linked
  /\ Owed /\ EntriesTrue /\ SeenIsCurrent

-------------------------------------------------------------------------------
(* What any statement leaves alone.                                        *)

\* Only r moves.
OnlyMoves(r) ==
  \A q \in Requests \ {r} :
    /\ pc'[q] = pc[q] /\ req'[q] = req[q] /\ customer'[q] = customer[q]
    /\ seen'[q] = seen[q] /\ entry'[q] = entry[q] /\ made'[q] = made[q]

\* Only rows that r works on, or that it inserts, are written.
Touches(r) ==
  /\ \A x \in Customers :
       customers'[x] = customers[x] \/ x \in WorksOn(r) \/ customers[x].state = "absent"
  /\ \A x \in Leads : leads'[x] = leads[x] \/ x \in WorksOn(r) \/ leads[x].state = "absent"
  /\ \A x \in Services : services'[x] = services[x] \/ x \in WorksOn(r)
  /\ \A x \in Bookings :
       bookings'[x] = bookings[x] \/ x \in WorksOn(r) \/ bookings[x].status = "absent"
  /\ \A x \in Payments :
       payments'[x] = payments[x] \/ x \in WorksOn(r) \/ payments[x].status = "absent"

\* No row is deleted.
Persists == \A x \in Rows : Exists(x) => Exists(x)'

\* r goes on with the rows it had, a row it has inserted, or one it was started on.
Claims(r) ==
  /\ pc'[r] # "idle"
  /\ \A x \in WorksOn(r)' :
       \/ x \in WorksOn(r)
       \/ Exists(x)' /\ ~Exists(x)
       \/ Exists(x)' /\ \A q \in Requests : x \in WorksOn(q) => x \in raced'

Frame(r) ==
  /\ OnlyMoves(r) /\ Touches(r) /\ Persists /\ Claims(r)
  /\ raced \subseteq raced' /\ interrupted \subseteq interrupted'

\* Rows persist when every table keeps its rows.
LEMMA TablesPersist ==
  ASSUME \A x \in Customers : customers[x].state # "absent" => customers'[x].state # "absent",
         \A x \in Leads : leads[x].state # "absent" => leads'[x].state # "absent",
         \A x \in Bookings : bookings[x].status # "absent" => bookings'[x].status # "absent",
         \A x \in Payments : payments[x].status # "absent" => payments'[x].status # "absent"
  PROVE  Persists
BY DEF Persists, Exists

\* A statement that writes no table.
LEMMA ReadOnly ==
  ASSUME NEW r \in Requests, UNCHANGED tables
  PROVE  Touches(r) /\ Persists
<1>1. UNCHANGED <<customers, leads, services, bookings, payments>>
  BY DEF tables
<1>2. Touches(r)
  BY <1>1 DEF Touches
<1>3. Persists
  BY <1>1, TablesPersist
<1>. QED
  BY <1>2, <1>3

\* A request that returns lets its rows go.
LEMMA ReturnFrame ==
  ASSUME Typed, NEW r \in Requests, NEW label \in {"done", "failed"}, Return(r, label),
         UNCHANGED tables, raced' = raced, interrupted \subseteq interrupted'
  PROVE  Frame(r)
<1>1. OnlyMoves(r)
  BY DEF Typed, TypeOK, Return, Goto, OnlyMoves
<1>2. pc'[r] = label
  BY DEF Typed, TypeOK, Return, Goto
<1>3. Claims(r)
  BY <1>2 DEF Claims, WorksOn, Running
<1>. QED
  BY <1>1, <1>3, ReadOnly DEF Frame

\* A request that goes on keeps its rows, and perhaps has inserted one.
LEMMA MoveFrame ==
  ASSUME Typed, NEW r \in Requests, NEW label \in PC \ {"idle", "done", "failed"},
         Running(r), Goto(r, label), UNCHANGED <<req, history>>,
         OnlyMoves(r), Touches(r), Persists,
         made' = made \/ \E x \in Rows : Insert(r, x) /\ ~Exists(x) /\ Exists(x)'
  PROVE  Frame(r)
<1>1. pc'[r] = label /\ Running(r)'
  BY DEF Typed, TypeOK, Goto, Running
<1>2. Claims(r)
  <2>1. CASE made' = made
    BY <1>1, <2>1 DEF Claims, WorksOn
  <2>2. CASE \E x \in Rows : Insert(r, x) /\ ~Exists(x) /\ Exists(x)'
    <3>1. PICK x \in Rows : Insert(r, x) /\ ~Exists(x) /\ Exists(x)'
      BY <2>2
    <3>2. made'[r] = made[r] \cup {x}
      BY <3>1 DEF Typed, TypeOK, Insert
    <3>. QED
      BY <1>1, <3>1, <3>2 DEF Claims, WorksOn
  <2>. QED
    BY <2>1, <2>2
<1>. QED
  BY <1>2 DEF Frame, history

\* A request starts on a row that exists, or on none.
LEMMA StartFrame ==
  ASSUME Typed, Existing, NEW r \in Requests, Start(r)
  PROVE  Frame(r)
<1>1. PICK k \in Kinds, x \in Rows \cup {None}, label \in {"insert", "find", "convert", "find lead"} :
        Begin(r, k, x, label) /\ (x = None \/ Exists(x))
  BY DEF Start, Rows, Kinds, InsertKinds, CustomerKinds, LeadKinds, ServiceKinds,
     BookingKinds, Conversions, Exists
<1>2. pc[r] = "idle" /\ pc'[r] = label /\ req'[r].row = x /\ made'[r] = {}
  BY <1>1 DEF Typed, TypeOK, Begin, Goto, Existing
<1>3. OnlyMoves(r)
  BY <1>1 DEF Typed, TypeOK, Begin, Goto, OnlyMoves
<1>4. Touches(r) /\ Persists
  BY <1>1, ReadOnly DEF Begin
<1>5. WorksOn(r)' \subseteq {x} \ {None}
  BY <1>2 DEF WorksOn
<1>6. \A y \in WorksOn(r)' : Exists(y)' /\ \A q \in Requests : y \in WorksOn(q) => y \in raced'
  <2>1. raced' = raced \cup {y \in {x} : \E q \in Requests : y \in WorksOn(q)}
    BY <1>1 DEF Begin
  <2>2. x # None => x \in Rows /\ Exists(x)'
    BY <1>1, <1>4 DEF Persists
  <2>. QED
    BY <1>5, <2>1, <2>2
<1>7. Claims(r)
  BY <1>2, <1>6 DEF Claims
<1>. QED
  BY <1>1, <1>3, <1>4, <1>7 DEF Frame, Begin

\* An update or a statement of a conversion works on the row of the request.
LEMMA OwnRow ==
  ASSUME Typed, NEW r \in Requests, Running(r), pc[r] # "insert", req[r].row \in Rows
  PROVE  req[r].row \in WorksOn(r)
BY RowsAssumption DEF WorksOn

\* A method that writes the row it found.
LEMMA UpdateFrame ==
  ASSUME Typed, NEW r \in Requests, NEW kind, NEW says, Update(r, kind, says),
         req[r].row \in WorksOn(r) => Touches(r), Persists
  PROVE  Frame(r)
<1>1. Running(r) /\ pc[r] = "write" /\ req[r].row \in Rows
  BY DEF Update, Running, Typed, Shape
<1>2. req[r].row \in WorksOn(r)
  BY <1>1, OwnRow
<1>3. OnlyMoves(r)
  BY DEF Typed, TypeOK, Update, Owe, Goto, OnlyMoves
<1>. QED
  BY <1>1, <1>2, <1>3, MoveFrame DEF Update, PC

\* A method that inserts a row.
LEMMA InsertFrame ==
  ASSUME Typed, NEW r \in Requests, pc[r] \in {"insert", "make customer", "book"},
         \E label \in LogPoints : Goto(r, label),
         \E x \in Rows : Insert(r, x) /\ ~Exists(x) /\ Exists(x)',
         \A q \in Requests \ {r} : customer'[q] = customer[q] /\ entry'[q] = entry[q],
         UNCHANGED <<req, seen, history>>, Touches(r), Persists
  PROVE  Frame(r)
<1>1. PICK label \in LogPoints : Goto(r, label)
  OBVIOUS
<1>2. PICK x \in Rows : Insert(r, x) /\ ~Exists(x) /\ Exists(x)'
  OBVIOUS
<1>3. OnlyMoves(r)
  BY <1>1, <1>2 DEF Typed, TypeOK, Insert, Goto, OnlyMoves
<1>4. Running(r) /\ label \in PC \ {"idle", "done", "failed"}
  BY DEF Running, LogPoints, PC
<1>. QED
  BY <1>1, <1>2, <1>3, <1>4, MoveFrame

\* What a lead's, a customer's or a booking's update leaves of the rows.
LEMMA EditFrame ==
  ASSUME Typed, NEW r \in Requests,
         \/ updateCustomer(r) \/ updateService(r) \/ rescheduleBooking(r)
         \/ softDeleteCustomer(r) \/ softDeleteService(r) \/ softDeleteLead(r)
         \/ updateLead(r) \/ appendLeadNote(r) \/ scheduleLeadFollowUp(r)
         \/ updateBooking(r) \/ confirmBooking(r) \/ cancelBooking(r)
         \/ updatePaymentStatus(r)
  PROVE  Frame(r)
<1>t. /\ customers \in [Customers -> CustomerRow] /\ leads \in [Leads -> LeadRow]
      /\ services \in [Services -> States \ {"absent"}]
      /\ bookings \in [Bookings -> BookingRow] /\ payments \in [Payments -> PaymentRow]
  BY DEF Typed, TypeOK
<1>1. CASE updateCustomer(r) \/ updateService(r) \/ rescheduleBooking(r)
  BY <1>1, ReadOnly, UpdateFrame DEF updateCustomer, updateService, rescheduleBooking
<1>2. CASE softDeleteCustomer(r)
  <2>1. \A x \in Customers : /\ customers'[x] = customers[x] \/ x = req[r].row
                             /\ customers[x].state # "absent" => customers'[x].state # "absent"
    BY <1>t, <1>2 DEF softDeleteCustomer, CustomerRow
  <2>2. UNCHANGED <<leads, services, bookings, payments>>
    BY <1>2 DEF softDeleteCustomer
  <2>3. Persists
    BY <2>1, <2>2, TablesPersist
  <2>. QED
    BY <1>2, <2>1, <2>2, <2>3, UpdateFrame DEF softDeleteCustomer, Touches
<1>3. CASE softDeleteService(r)
  <2>1. \A x \in Services : services'[x] = services[x] \/ x = req[r].row
    BY <1>t, <1>3 DEF softDeleteService
  <2>2. UNCHANGED <<customers, leads, bookings, payments>>
    BY <1>3 DEF softDeleteService
  <2>3. Persists
    BY <2>2, TablesPersist
  <2>. QED
    BY <1>3, <2>1, <2>2, <2>3, UpdateFrame DEF softDeleteService, Touches
<1>4. CASE softDeleteLead(r) \/ updateLead(r) \/ appendLeadNote(r) \/ scheduleLeadFollowUp(r)
  <2>1. \A x \in Leads : /\ leads'[x] = leads[x] \/ x = req[r].row
                         /\ leads[x].state # "absent" => leads'[x].state # "absent"
    <3>1. CASE softDeleteLead(r)
      BY <1>t, <3>1 DEF softDeleteLead, LeadRow
    <3>2. CASE updateLead(r)
      <4>1. PICK won, notes :
              leads' = [leads EXCEPT ![req[r].row].won = won, ![req[r].row].notes = notes]
        BY <3>2 DEF updateLead
      <4>. QED
        BY <1>t, <4>1 DEF LeadRow
    <3>3. CASE appendLeadNote(r) \/ scheduleLeadFollowUp(r)
      <4>1. PICK notes : leads' = [leads EXCEPT ![req[r].row].notes = notes]
        BY <3>3 DEF appendLeadNote, scheduleLeadFollowUp
      <4>. QED
        BY <1>t, <4>1 DEF LeadRow
    <3>. QED
      BY <1>4, <3>1, <3>2, <3>3
  <2>2. UNCHANGED <<customers, services, bookings, payments>>
    BY <1>4 DEF softDeleteLead, updateLead, appendLeadNote, scheduleLeadFollowUp
  <2>3. Persists
    BY <2>1, <2>2, TablesPersist
  <2>4. PICK kind, says : Update(r, kind, says)
    BY <1>4 DEF softDeleteLead, updateLead, appendLeadNote, scheduleLeadFollowUp
  <2>. QED
    BY <2>1, <2>2, <2>3, <2>4, UpdateFrame DEF Touches
<1>5. CASE updateBooking(r) \/ confirmBooking(r) \/ cancelBooking(r)
  <2>1. \A x \in Bookings : /\ bookings'[x] = bookings[x] \/ x = req[r].row
                            /\ bookings[x].status # "absent" => bookings'[x].status # "absent"
    <3>1. CASE updateBooking(r)
      <4>1. PICK row : /\ row.status # "absent"
                       /\ bookings' = [bookings EXCEPT ![req[r].row] = row]
        BY <3>1 DEF updateBooking
      <4>. QED
        BY <1>t, <4>1
    <3>2. CASE confirmBooking(r)
      BY <1>t, <3>2 DEF confirmBooking, BookingRow
    <3>3. CASE cancelBooking(r)
      BY <1>t, <3>3 DEF cancelBooking, BookingRow
    <3>. QED
      BY <1>5, <3>1, <3>2, <3>3
  <2>2. UNCHANGED <<customers, leads, services, payments>>
    BY <1>5 DEF updateBooking, confirmBooking, cancelBooking
  <2>3. Persists
    BY <2>1, <2>2, TablesPersist
  <2>4. PICK kind, says : Update(r, kind, says)
    BY <1>5 DEF updateBooking, confirmBooking, cancelBooking
  <2>. QED
    BY <2>1, <2>2, <2>3, <2>4, UpdateFrame DEF Touches
<1>6. CASE updatePaymentStatus(r)
  <2>1. \A x \in Payments : /\ payments'[x] = payments[x] \/ x = req[r].row
                            /\ payments[x].status # "absent" => payments'[x].status # "absent"
    <3>1. PICK row : /\ row.status # "absent"
                     /\ payments' = [payments EXCEPT ![req[r].row] = row]
      BY <1>6 DEF updatePaymentStatus
    <3>. QED
      BY <1>t, <3>1
  <2>2. UNCHANGED <<customers, leads, services, bookings>>
    BY <1>6 DEF updatePaymentStatus
  <2>3. Persists
    BY <2>1, <2>2, TablesPersist
  <2>4. PICK kind, says : Update(r, kind, says)
    BY <1>6 DEF updatePaymentStatus
  <2>. QED
    BY <2>1, <2>2, <2>3, <2>4, UpdateFrame DEF Touches
<1>. QED
  BY <1>1, <1>2, <1>3, <1>4, <1>5, <1>6

\* What an insert leaves of the rows.
LEMMA NewRowFrame ==
  ASSUME Typed, NEW r \in Requests,
         createCustomer(r) \/ createLead(r) \/ createBooking(r) \/ createPayment(r) \/ bookLead(r)
  PROVE  Frame(r)
<1>t. /\ customers \in [Customers -> CustomerRow] /\ leads \in [Leads -> LeadRow]
      /\ bookings \in [Bookings -> BookingRow] /\ payments \in [Payments -> PaymentRow]
  BY DEF Typed, TypeOK
<1>1. CASE createCustomer(r)
  <2>1. PICK c \in Customers :
          /\ customers[c].state = "absent"
          /\ customers' = [customers EXCEPT ![c] = [state |-> "live", from |-> req[r].row]]
          /\ customer' = [customer EXCEPT ![r] = c]
          /\ Insert(r, c) /\ Owe(r, c, {"live"})
    BY <1>1 DEF createCustomer
  <2>2. UNCHANGED <<leads, services, bookings, payments>>
    BY <1>1 DEF createCustomer
  <2>3. customers'[c].state = "live" /\ \A x \in Customers \ {c} : customers'[x] = customers[x]
    BY <1>t, <2>1
  <2>4. Touches(r) /\ Persists
    BY <2>1, <2>2, <2>3, TablesPersist DEF Touches
  <2>5. c \in Rows /\ ~Exists(c) /\ Exists(c)'
    BY <2>1, <2>3, RowsAssumption DEF Exists, Rows
  <2>6. PICK label \in LogPoints : Goto(r, label)
    BY <1>1 DEF createCustomer, LogPoints
  <2>. QED
    <3>1. /\ pc[r] \in {"insert", "make customer", "book"}
          /\ UNCHANGED <<req, seen, history>>
          /\ \A q \in Requests \ {r} : customer'[q] = customer[q] /\ entry'[q] = entry[q]
      BY <1>1, <2>1 DEF Typed, TypeOK, createCustomer, Owe
    <3>. QED
      BY <2>1, <2>4, <2>5, <2>6, <3>1, InsertFrame
<1>2. CASE createLead(r)
  <2>1. PICK c \in Leads, won \in BOOLEAN :
          /\ leads[c].state = "absent"
          /\ leads' = [leads EXCEPT ![c] = [state |-> "live", won |-> won, customer |-> None,
                                            notes |-> {}]]
          /\ Insert(r, c) /\ Owe(r, c, {"live"})
    BY <1>2 DEF createLead
  <2>2. UNCHANGED <<customers, services, bookings, payments>>
    BY <1>2 DEF createLead
  <2>3. leads'[c].state = "live" /\ \A x \in Leads \ {c} : leads'[x] = leads[x]
    BY <1>t, <2>1
  <2>4. Touches(r) /\ Persists
    BY <2>1, <2>2, <2>3, TablesPersist DEF Touches
  <2>5. c \in Rows /\ ~Exists(c) /\ Exists(c)'
    BY <2>1, <2>3, RowsAssumption DEF Exists, Rows
  <2>6. Goto(r, "log") /\ "log" \in LogPoints
    BY <1>2 DEF createLead, LogPoints
  <2>. QED
    <3>1. /\ pc[r] \in {"insert", "make customer", "book"}
          /\ UNCHANGED <<req, seen, history>>
          /\ \A q \in Requests \ {r} : customer'[q] = customer[q] /\ entry'[q] = entry[q]
      BY <1>2, <2>1 DEF Typed, TypeOK, createLead, Owe
    <3>. QED
      BY <2>1, <2>4, <2>5, <2>6, <3>1, InsertFrame
<1>3. CASE createBooking(r) \/ bookLead(r)
  <2>1. PICK c \in Bookings, who \in Customers, status \in {"PENDING", "CONFIRMED", "CANCELLED"} :
          InsertBooking(r, c, who, status)
    <3>1. CASE createBooking(r)
      BY <3>1 DEF createBooking
    <3>2. CASE bookLead(r)
      BY <3>2 DEF bookLead, Typed, Shape, LinkPoints
    <3>. QED
      BY <1>3, <3>1, <3>2
  <2>2. UNCHANGED <<customers, leads, services, payments>>
    BY <1>3 DEF createBooking, bookLead
  <2>3. bookings'[c].status # "absent" /\ \A x \in Bookings \ {c} : bookings'[x] = bookings[x]
    BY <1>t, <2>1 DEF InsertBooking
  <2>4. Touches(r) /\ Persists
    BY <2>1, <2>2, <2>3, TablesPersist DEF Touches, InsertBooking
  <2>5. c \in Rows /\ ~Exists(c) /\ Exists(c)'
    BY <2>1, <2>3, RowsAssumption DEF Exists, Rows, InsertBooking
  <2>6. PICK label \in LogPoints : Goto(r, label)
    BY <1>3 DEF createBooking, bookLead, LogPoints
  <2>. QED
    <3>1. /\ pc[r] \in {"insert", "make customer", "book"}
          /\ UNCHANGED <<req, seen, history>> /\ Insert(r, c)
          /\ \A q \in Requests \ {r} : customer'[q] = customer[q] /\ entry'[q] = entry[q]
      BY <1>3, <2>1 DEF Typed, TypeOK, createBooking, bookLead, InsertBooking, Owe
    <3>. QED
      BY <2>4, <2>5, <2>6, <3>1, InsertFrame
<1>4. CASE createPayment(r)
  <2>1. PICK c, status, dates :
          /\ c \in Payments /\ status \in {"pending", "paid", "refunded"}
          /\ payments[c].status = "absent"
          /\ payments' = [payments EXCEPT ![c] = [status |-> status, dates |-> dates]]
          /\ Insert(r, c) /\ Owe(r, c, {status})
    BY <1>4 DEF createPayment
  <2>2. UNCHANGED <<customers, leads, services, bookings>>
    BY <1>4 DEF createPayment
  <2>3. payments'[c].status # "absent" /\ \A x \in Payments \ {c} : payments'[x] = payments[x]
    BY <1>t, <2>1
  <2>4. Touches(r) /\ Persists
    BY <2>1, <2>2, <2>3, TablesPersist DEF Touches
  <2>5. c \in Rows /\ ~Exists(c) /\ Exists(c)'
    BY <2>1, <2>3, RowsAssumption DEF Exists, Rows
  <2>6. Goto(r, "log") /\ "log" \in LogPoints
    BY <1>4 DEF createPayment, LogPoints
  <2>. QED
    <3>1. /\ pc[r] \in {"insert", "make customer", "book"}
          /\ UNCHANGED <<req, seen, history>>
          /\ \A q \in Requests \ {r} : customer'[q] = customer[q] /\ entry'[q] = entry[q]
      BY <1>4, <2>1 DEF Typed, TypeOK, createPayment, Owe
    <3>. QED
      BY <2>1, <2>4, <2>5, <2>6, <3>1, InsertFrame
<1>. QED
  BY <1>1, <1>2, <1>3, <1>4

\* What a statement of a conversion leaves of the rows.
LEMMA ConversionFrame ==
  ASSUME Typed, NEW r \in Requests,
         \/ convertLeadToCustomer(r) \/ linkLead(r) \/ convertLeadToBooking(r)
         \/ findService(r) \/ getCustomerById(r) \/ winLead(r)
  PROVE  Frame(r)
<1>t. leads \in [Leads -> LeadRow]
  BY DEF Typed, TypeOK
<1>0. pc[r] \in ConversionPoints /\ Running(r)
  BY DEF convertLeadToCustomer, linkLead, convertLeadToBooking, findService, getCustomerById,
     winLead, ConversionPoints, Running
<1>1. CASE AnswerNull(r)
  BY <1>1, ReturnFrame DEF AnswerNull, history
<1>2. CASE linkLead(r) \/ winLead(r)
  <2>1. \A x \in Leads : /\ leads'[x] = leads[x] \/ x = req[r].row
                         /\ leads[x].state # "absent" => leads'[x].state # "absent"
    <3>1. CASE linkLead(r)
      BY <1>t, <3>1 DEF linkLead, LeadRow
    <3>2. CASE winLead(r)
      <4>1. PICK won, who :
              leads' = [leads EXCEPT ![req[r].row].won = won, ![req[r].row].customer = who]
        BY <3>2 DEF winLead
      <4>. QED
        BY <1>t, <4>1 DEF LeadRow
    <3>. QED
      BY <1>2, <3>1, <3>2
  <2>2. UNCHANGED <<customers, services, bookings, payments>> /\ UNCHANGED <<req, made, history>>
    BY <1>2 DEF linkLead, winLead
  <2>3. Persists
    BY <2>1, <2>2, TablesPersist
  <2>4. req[r].row \in WorksOn(r)
    <3>1. req[r].row \in Rows /\ pc[r] # "insert"
      BY <1>0 DEF Typed, Shape, Rows, ConversionPoints
    <3>. QED
      BY <1>0, <3>1, OwnRow
  <2>5. Touches(r)
    BY <2>1, <2>2, <2>4 DEF Touches
  <2>6. OnlyMoves(r)
    BY <1>2 DEF Typed, TypeOK, OnlyMoves, Goto, Owe, linkLead, winLead
  <2>7. Goto(r, "log link") \/ Goto(r, "log")
    BY <1>2 DEF linkLead, winLead
  <2>. QED
    BY <1>0, <2>2, <2>3, <2>5, <2>6, <2>7, MoveFrame DEF PC
<1>3. CASE /\ ~AnswerNull(r)
           /\ \/ convertLeadToCustomer(r) \/ convertLeadToBooking(r)
              \/ findService(r) \/ getCustomerById(r)
  <2>1. /\ UNCHANGED <<tables, req, made, history>>
        /\ \E label \in {"book", "make customer", "find service", "find customer", "convert"} :
             Goto(r, label)
    <3>1. CASE convertLeadToCustomer(r)
      BY <1>3, <3>1 DEF convertLeadToCustomer, locals
    <3>2. CASE convertLeadToBooking(r)
      BY <1>3, <3>2 DEF convertLeadToBooking
    <3>3. CASE findService(r)
      BY <1>3, <3>3 DEF findService, locals
    <3>4. CASE getCustomerById(r)
      BY <3>4 DEF getCustomerById, locals
    <3>. QED
      BY <1>3, <3>1, <3>2, <3>3, <3>4
  <2>2. /\ UNCHANGED <<seen, entry>>
        /\ \A q \in Requests \ {r} : customer'[q] = customer[q]
    BY <1>3 DEF Typed, TypeOK, convertLeadToCustomer, convertLeadToBooking, findService,
       getCustomerById, locals
  <2>3. OnlyMoves(r)
    BY <2>1, <2>2 DEF Typed, TypeOK, Goto, OnlyMoves
  <2>4. Touches(r) /\ Persists
    BY <2>1, ReadOnly
  <2>. QED
    BY <1>0, <2>1, <2>3, <2>4, MoveFrame DEF PC
<1>. QED
  BY <1>1, <1>2, <1>3

\* Every statement is r's: it writes rows r works on or inserts, and moves r only.
LEMMA StepFrame ==
  ASSUME Typed, Existing, NEW r \in Requests, Step(r)
  PROVE  Frame(r)
<1>1. CASE Start(r)
  BY <1>1, StartFrame
<1>2. CASE Fail(r)
  BY <1>2, ReturnFrame DEF Fail
<1>3. CASE appendAuditLog(r)
  <2>1. UNCHANGED tables /\ UNCHANGED history
    BY <1>3 DEF appendAuditLog
  <2>2. CASE Return(r, "done")
    BY <2>1, <2>2, ReturnFrame DEF history
  <2>3. CASE Goto(r, AfterLog(r)) /\ UNCHANGED locals
    <3>1. UNCHANGED <<req, made, history>>
      BY <2>1, <2>3 DEF locals
    <3>2. OnlyMoves(r)
      BY <2>3 DEF Typed, TypeOK, Goto, OnlyMoves, locals
    <3>3. Running(r) /\ AfterLog(r) \in PC \ {"idle", "done", "failed"}
      BY <1>3 DEF appendAuditLog, Running, LogPoints, AfterLog, PC
    <3>. QED
      BY <2>1, <2>3, <3>1, <3>2, <3>3, ReadOnly, MoveFrame
  <2>. QED
    BY <1>3, <2>2, <2>3 DEF appendAuditLog
<1>4. CASE findFirst(r)
  <2>1. CASE AnswerNull(r)
    BY <2>1, ReturnFrame DEF AnswerNull, history
  <2>2. CASE ~AnswerNull(r)
    <3>1. /\ pc[r] = "find" /\ Goto(r, "write")
          /\ UNCHANGED <<tables, audit, req, customer, entry, made, history>>
          /\ \A q \in Requests \ {r} : seen'[q] = seen[q]
      BY <1>4, <2>2 DEF findFirst, Typed, TypeOK
    <3>2. OnlyMoves(r)
      BY <3>1 DEF Typed, TypeOK, Goto, OnlyMoves
    <3>3. Touches(r) /\ Persists
      BY <3>1, ReadOnly
    <3>. QED
      BY <3>1, <3>2, <3>3, MoveFrame DEF Running, PC
  <2>. QED
    BY <2>1, <2>2
<1>. QED
  BY <1>1, <1>2, <1>3, <1>4, EditFrame, NewRowFrame, ConversionFrame DEF Step

\* A row that is nobody else's stays so, and the rows requests work on exist.
LEMMA FrameAlone ==
  ASSUME Typed, Typed', Alone, Existing, NEW r \in Requests, Frame(r)
  PROVE  Alone' /\ Existing'
<1>1. \A q \in Requests \ {r} : WorksOn(q)' = WorksOn(q)
  BY DEF Frame, OnlyMoves, WorksOn, Running
<1>2. WorksOn(r) \subseteq Rows /\ \A q \in Requests : WorksOn(q) \subseteq Rows
  BY DEF Typed, TypeOK, WorksOn
<1>3. \A x \in WorksOn(r)' : \A q \in Requests \ {r} : x \in WorksOn(q) => x \in raced'
  BY DEF Frame, Claims, Alone, Existing
<1>4. Alone'
  <2> SUFFICES ASSUME NEW p \in Requests, NEW q \in Requests,
                      NEW x \in WorksOn(p)' \cap WorksOn(q)', p # q
               PROVE  x \in raced'
    BY DEF Alone
  <2>1. CASE p = r
    BY <1>1, <1>3, <2>1
  <2>2. CASE q = r
    BY <1>1, <1>3, <2>2
  <2>3. CASE p # r /\ q # r
    BY <1>1, <2>3 DEF Frame, Alone
  <2>. QED
    BY <2>1, <2>2, <2>3
<1>5. Existing'
  <2>1. \A q \in Requests : pc'[q] = "idle" => made'[q] = {}
    BY DEF Frame, OnlyMoves, Claims, Existing
  <2>2. \A x \in WorksOn(r)' : Exists(x)'
    BY <1>2 DEF Frame, Claims, Persists, Existing
  <2>3. \A q \in Requests \ {r} : \A x \in WorksOn(q)' : Exists(x)'
    BY <1>1, <1>2 DEF Frame, Persists, Existing
  <2>. QED
    BY <2>1, <2>2, <2>3 DEF Existing
<1>. QED
  BY <1>4, <1>5

\* What one request works on, the others leave alone, unless the row is raced.
LEMMA Undisturbed ==
  ASSUME Alone, Existing, NEW r \in Requests, Frame(r),
         NEW q \in Requests \ {r}, NEW x \in WorksOn(q), x \notin raced'
  PROVE  /\ x \notin WorksOn(r) /\ Exists(x) /\ x \notin raced
         /\ x \in Leads \ (Customers \cup Services \cup Bookings \cup Payments) => leads'[x] = leads[x]
         /\ x \in Payments \ (Customers \cup Leads \cup Services \cup Bookings) => payments'[x] = payments[x]
<1>1. x \notin WorksOn(r) /\ Exists(x) /\ x \notin raced
  BY DEF Alone, Existing, Frame
<1>. QED
  BY <1>1 DEF Frame, Touches, Exists

-------------------------------------------------------------------------------
(* Conversions.                                                            *)

\* The points at which a conversion relies on what the lead's customer is.
KnowingPoints ==
  {"find service", "find customer", "make customer", "log customer", "link lead",
   "log link", "book", "log booking", "win lead"}

\* The statements that do not bring a request to one of those points.
LEMMA OtherLabels ==
  ASSUME Typed, NEW r \in Requests, Step(r),
         ~createCustomer(r), ~appendAuditLog(r), ~convertLeadToCustomer(r), ~linkLead(r),
         ~convertLeadToBooking(r), ~findService(r), ~getCustomerById(r), ~bookLead(r)
  PROVE  pc'[r] \notin KnowingPoints
<1>1. \E label \in {"insert", "find", "convert", "find lead", "failed", "done", "write", "log"} :
        Goto(r, label)
  <2>1. CASE Start(r)
    BY <2>1 DEF Start, Begin
  <2>2. CASE Fail(r)
    BY <2>2 DEF Fail, Return
  <2>3. CASE findFirst(r)
    BY <2>3 DEF findFirst, AnswerNull, Return
  <2>4. CASE createLead(r) \/ createBooking(r) \/ createPayment(r) \/ winLead(r)
    BY <2>4 DEF createLead, createBooking, createPayment, winLead
  <2>5. CASE \E kind, says : Update(r, kind, says)
    BY <2>5 DEF Update
  <2>6. \/ Start(r) \/ Fail(r) \/ findFirst(r)
        \/ createLead(r) \/ createBooking(r) \/ createPayment(r) \/ winLead(r)
        \/ \E kind, says : Update(r, kind, says)
    BY DEF Step, updateCustomer, updateService, rescheduleBooking, scheduleLeadFollowUp,
       softDeleteCustomer, softDeleteService, softDeleteLead, updateLead, appendLeadNote,
       updateBooking, confirmBooking, cancelBooking, updatePaymentStatus
  <2>. QED
    BY <2>1, <2>2, <2>3, <2>4, <2>5, <2>6
<1>. QED
  BY <1>1 DEF Typed, TypeOK, Goto, KnowingPoints

\* What a conversion knows of its lead's customer after its own statement.
LEMMA OwnProgress ==
  ASSUME Typed, Typed', NEW r \in Requests, Step(r),
         req[r].row \notin raced => ProgressOf(r),
         (req[r].row \notin raced)'
  PROVE  ProgressOf(r)'
<1>t. /\ pc \in [Requests -> PC] /\ customer \in [Requests -> Customers \cup {None}]
      /\ leads \in [Leads -> LeadRow] /\ Shape(r)
  BY DEF Typed, TypeOK
<1>1. CASE pc'[r] \notin KnowingPoints
  BY <1>1 DEF ProgressOf, KnowingPoints
<1>2. CASE createCustomer(r)
  <2>1. UNCHANGED <<leads, req, raced>> /\ pc'[r] \in {"log", "log customer"}
    BY <1>t, <1>2 DEF createCustomer, Goto, history
  <2>2. pc'[r] = "log customer" => pc[r] = "make customer"
    BY <1>t, <1>2 DEF createCustomer, Goto
  <2>. QED
    BY <2>1, <2>2 DEF ProgressOf
<1>3. CASE appendAuditLog(r)
  <2>1. CASE Return(r, "done")
    BY <1>t, <2>1 DEF Return, Goto, ProgressOf
  <2>2. CASE Goto(r, AfterLog(r)) /\ UNCHANGED locals
    <3>1. UNCHANGED <<leads, req, customer, raced>>
      BY <1>3, <2>2 DEF appendAuditLog, locals, tables, history
    <3>2. pc[r] \in {"log customer", "log link", "log booking"}
             \/ Return(r, "done")
      BY <1>3, <2>2 DEF appendAuditLog, LogPoints
    <3>3. pc'[r] = AfterLog(r)
      BY <1>t, <2>2 DEF Goto
    <3>. QED
      BY <2>1, <3>1, <3>2, <3>3 DEF AfterLog, ProgressOf
  <2>. QED
    BY <1>3, <2>1, <2>2 DEF appendAuditLog
<1>4. CASE AnswerNull(r)
  BY <1>t, <1>4 DEF AnswerNull, Return, Goto, ProgressOf
<1>5. CASE convertLeadToCustomer(r) /\ ~AnswerNull(r)
  <2>1. UNCHANGED <<leads, req>> /\ req[r].row \in Leads
    BY <1>t, <1>5 DEF convertLeadToCustomer, tables, locals, Shape, ConversionPoints
  <2>2. \/ pc'[r] = "book" /\ customer'[r] = leads[req[r].row].customer
        \/ pc'[r] = "make customer" /\ leads[req[r].row].customer = None
    BY <1>t, <1>5 DEF convertLeadToCustomer, Goto, HasCustomer
  <2>. QED
    BY <2>1, <2>2 DEF ProgressOf
<1>6. CASE linkLead(r)
  <2>1. req[r].row \in Leads
    BY <1>t, <1>6 DEF linkLead, Shape, ConversionPoints
  <2>2. leads'[req[r].row].customer = customer[r] /\ pc'[r] = "log link"
    BY <1>t, <1>6, <2>1 DEF linkLead, Goto, LeadRow
  <2>3. UNCHANGED <<req, customer>>
    BY <1>6 DEF linkLead
  <2>. QED
    BY <2>2, <2>3 DEF ProgressOf
<1>7. CASE convertLeadToBooking(r) /\ ~AnswerNull(r)
  <2>1. /\ UNCHANGED <<leads, req>> /\ pc'[r] = "find service"
        /\ customer'[r] = leads[req[r].row].customer
    BY <1>t, <1>7 DEF convertLeadToBooking, Goto, tables
  <2>. QED
    BY <2>1 DEF ProgressOf
<1>8. CASE findService(r) /\ ~AnswerNull(r)
  <2>1. /\ UNCHANGED <<leads, req, customer, raced>> /\ pc'[r] = "find customer"
        /\ pc[r] = "find service"
    BY <1>t, <1>8 DEF findService, Goto, tables, locals, history
  <2>. QED
    BY <2>1 DEF ProgressOf
<1>9. CASE getCustomerById(r)
  <2>1. /\ UNCHANGED <<leads, req, customer, raced>> /\ pc'[r] \in {"book", "convert"}
        /\ pc[r] = "find customer"
    BY <1>t, <1>9 DEF getCustomerById, Goto, tables, locals, history
  <2>. QED
    BY <2>1 DEF ProgressOf
<1>10. CASE bookLead(r)
  <2>1. /\ UNCHANGED <<leads, req, customer, raced>> /\ pc'[r] = "log booking"
        /\ pc[r] = "book"
    BY <1>t, <1>10 DEF bookLead, Goto, history
  <2>. QED
    BY <2>1 DEF ProgressOf
<1>. QED
  BY <1>1, <1>2, <1>3, <1>4, <1>5, <1>6, <1>7, <1>8, <1>9, <1>10, OtherLabels

\* A conversion of a lead that is not raced still knows its customer.
LEMMA ProgressNext ==
  ASSUME Typed, Typed', Alone, Existing, Progress, NEW r \in Requests, Step(r), Frame(r)
  PROVE  Progress'
<1> SUFFICES ASSUME NEW q \in Requests, (req[q].row \notin raced)'
             PROVE  ProgressOf(q)'
  BY DEF Progress
<1>1. CASE q = r
  BY <1>1, OwnProgress DEF Progress
<1>2. CASE q # r /\ pc[q] \notin KnowingPoints
  BY <1>2 DEF Frame, OnlyMoves, ProgressOf, KnowingPoints
<1>3. CASE q # r /\ pc[q] \in KnowingPoints
  <2>1. pc'[q] = pc[q] /\ req'[q] = req[q] /\ customer'[q] = customer[q]
    BY <1>3 DEF Frame, OnlyMoves
  <2>2. req[q].row \in Leads /\ Running(q) /\ pc[q] # "insert"
    BY <1>3 DEF Typed, Shape, KnowingPoints, ConversionPoints, Running
  <2>3. req[q].row \in WorksOn(q)
    BY <2>2, OwnRow DEF Rows
  <2>4. leads'[req[q].row] = leads[req[q].row] /\ req[q].row \notin raced
    BY <1>3, <2>1, <2>2, <2>3, Undisturbed, RowsAssumption
  <2>. QED
    BY <2>1, <2>4 DEF Progress, ProgressOf
<1>. QED
  BY <1>1, <1>2, <1>3

\* The statements that write each table.
LEMMA Writers ==
  ASSUME NEW r \in Requests, Step(r)
  PROVE  /\ customers' = customers \/ createCustomer(r) \/ softDeleteCustomer(r)
         /\ \/ leads' = leads
            \/ createLead(r) \/ softDeleteLead(r) \/ updateLead(r) \/ appendLeadNote(r)
            \/ scheduleLeadFollowUp(r) \/ linkLead(r) \/ winLead(r)
         /\ services' = services \/ softDeleteService(r)
         /\ \/ bookings' = bookings
            \/ createBooking(r) \/ bookLead(r) \/ updateBooking(r) \/ confirmBooking(r)
            \/ cancelBooking(r)
         /\ payments' = payments \/ createPayment(r) \/ updatePaymentStatus(r)
<1>1. CASE UNCHANGED tables
  BY <1>1 DEF tables
<1>2. CASE Start(r) \/ Fail(r) \/ appendAuditLog(r) \/ findFirst(r) \/ updateCustomer(r)
           \/ updateService(r) \/ rescheduleBooking(r)
  BY <1>1, <1>2 DEF Start, Begin, Fail, appendAuditLog, findFirst, AnswerNull, updateCustomer,
     updateService, rescheduleBooking
<1>3. CASE convertLeadToCustomer(r) \/ convertLeadToBooking(r) \/ findService(r)
           \/ getCustomerById(r)
  BY <1>1, <1>3 DEF convertLeadToCustomer, convertLeadToBooking, findService, getCustomerById,
     AnswerNull
<1>4. CASE createCustomer(r) \/ softDeleteCustomer(r)
  BY <1>4 DEF createCustomer, softDeleteCustomer
<1>5. CASE softDeleteService(r)
  BY <1>5 DEF softDeleteService
<1>6. CASE \/ createLead(r) \/ softDeleteLead(r) \/ updateLead(r) \/ appendLeadNote(r)
           \/ scheduleLeadFollowUp(r) \/ linkLead(r) \/ winLead(r)
  BY <1>6 DEF createLead, softDeleteLead, updateLead, appendLeadNote, scheduleLeadFollowUp,
     linkLead, winLead
<1>7. CASE createBooking(r) \/ bookLead(r) \/ updateBooking(r) \/ confirmBooking(r)
           \/ cancelBooking(r)
  BY <1>7 DEF createBooking, bookLead, updateBooking, confirmBooking, cancelBooking
<1>8. CASE createPayment(r) \/ updatePaymentStatus(r)
  BY <1>8 DEF createPayment, updatePaymentStatus
<1>. QED
  BY <1>2, <1>3, <1>4, <1>5, <1>6, <1>7, <1>8 DEF Step

\* A statement keeps the customer and the lead of a booking, or clears the lead, or is
\* the insert of a conversion.
LEMMA BookingOrigin ==
  ASSUME Typed, NEW r \in Requests, Step(r), NEW b \in Bookings
  PROVE  \/ bookings'[b].from = bookings[b].from /\ bookings'[b].customer = bookings[b].customer
         \/ bookings'[b].from = None
         \/ /\ pc[r] = "book" /\ UNCHANGED <<leads, raced>>
            /\ bookings'[b].from = req[r].row /\ bookings'[b].customer = customer[r]
<1>t. bookings \in [Bookings -> BookingRow] /\ Shape(r)
  BY DEF Typed, TypeOK
<1>1. CASE bookings' = bookings
  BY <1>1
<1>2. CASE createBooking(r)
  <2>1. PICK d, row :
          d \in Bookings /\ row.from = None /\ bookings' = [bookings EXCEPT ![d] = row]
    BY <1>t, <1>2 DEF createBooking, InsertBooking, Shape
  <2>. QED
    BY <1>t, <2>1
<1>3. CASE bookLead(r)
  <2>1. PICK d, row :
          /\ d \in Bookings /\ row.from = req[r].row /\ row.customer = customer[r]
          /\ bookings' = [bookings EXCEPT ![d] = row]
    BY <1>3 DEF bookLead, InsertBooking
  <2>2. pc[r] = "book" /\ UNCHANGED <<leads, raced>>
    BY <1>3 DEF bookLead, history
  <2>. QED
    BY <1>t, <2>1, <2>2
<1>4. CASE updateBooking(r)
  <2>1. PICK row : row.from = None /\ bookings' = [bookings EXCEPT ![req[r].row] = row]
    BY <1>4 DEF updateBooking
  <2>. QED
    BY <1>t, <2>1
<1>5. CASE confirmBooking(r)
  BY <1>t, <1>5 DEF confirmBooking, BookingRow
<1>6. CASE cancelBooking(r)
  BY <1>t, <1>6 DEF cancelBooking, BookingRow
<1>. QED
  BY <1>1, <1>2, <1>3, <1>4, <1>5, <1>6, Writers

\* A statement keeps the lead of a customer, or is an insert: of the form, or of a
\* conversion that goes on to link the lead.
LEMMA CustomerOrigin ==
  ASSUME Typed, NEW r \in Requests, Step(r), NEW c \in Customers
  PROVE  \/ customers'[c].from = customers[c].from
         \/ customers'[c].from = None
         \/ /\ pc[r] = "make customer" /\ UNCHANGED <<leads, raced>>
            /\ customers'[c].from = req[r].row
            /\ Linking(r, customers[c].from, c)'
<1>t. customers \in [Customers -> CustomerRow] /\ Shape(r)
  BY DEF Typed, TypeOK
<1>1. CASE customers' = customers
  BY <1>1
<1>2. CASE createCustomer(r)
  <2>1. PICK d, row :
          /\ d \in Customers /\ row.from = req[r].row /\ customers' = [customers EXCEPT ![d] = row]
          /\ customer' = [customer EXCEPT ![r] = d]
    BY <1>2 DEF createCustomer
  <2>2. CASE pc[r] = "insert"
    BY <1>t, <2>1, <2>2 DEF Shape
  <2>3. CASE pc[r] = "make customer"
    <3>1. /\ UNCHANGED <<leads, raced, req>> /\ pc'[r] = "log customer" /\ customer'[r] = d
      BY <1>2, <2>1, <2>3 DEF Typed, TypeOK, createCustomer, Goto, history
    <3>. QED
      BY <1>t, <2>1, <2>3, <3>1 DEF Linking
  <2>. QED
    BY <1>2, <2>2, <2>3 DEF createCustomer
<1>3. CASE softDeleteCustomer(r)
  BY <1>t, <1>3 DEF softDeleteCustomer, CustomerRow
<1>. QED
  BY <1>1, <1>2, <1>3, Writers

\* A statement keeps the customer of a lead, inserts the lead, or gives it the customer
\* of a conversion.
LEMMA LeadCustomer ==
  ASSUME Typed, NEW r \in Requests, Step(r), NEW l \in Leads
  PROVE  \/ leads'[l].customer = leads[l].customer
         \/ leads[l].state = "absent"
         \/ /\ pc[r] \in {"link lead", "win lead"} /\ l = req[r].row
            /\ leads'[l].customer = customer[r]
<1>t. leads \in [Leads -> LeadRow] /\ Shape(r)
  BY DEF Typed, TypeOK
<1>1. CASE leads' = leads
  BY <1>1
<1>2. CASE createLead(r)
  <2>1. PICK d, row :
          d \in Leads /\ leads[d].state = "absent" /\ leads' = [leads EXCEPT ![d] = row]
    BY <1>2 DEF createLead
  <2>. QED
    BY <1>t, <2>1
<1>3. CASE softDeleteLead(r)
  BY <1>t, <1>3 DEF softDeleteLead, LeadRow
<1>4. CASE updateLead(r)
  <2>1. PICK won, notes :
          leads' = [leads EXCEPT ![req[r].row].won = won, ![req[r].row].notes = notes]
    BY <1>4 DEF updateLead
  <2>. QED
    BY <1>t, <2>1 DEF LeadRow
<1>5. CASE appendLeadNote(r) \/ scheduleLeadFollowUp(r)
  <2>1. PICK notes : leads' = [leads EXCEPT ![req[r].row].notes = notes]
    BY <1>5 DEF appendLeadNote, scheduleLeadFollowUp
  <2>. QED
    BY <1>t, <2>1 DEF LeadRow
<1>6. CASE linkLead(r)
  BY <1>t, <1>6 DEF linkLead, LeadRow
<1>7. CASE winLead(r)
  <2>1. PICK won :
          leads' = [leads EXCEPT ![req[r].row].won = won, ![req[r].row].customer = customer[r]]
    BY <1>7 DEF winLead
  <2>2. pc[r] = "win lead"
    BY <1>7 DEF winLead
  <2>. QED
    BY <1>t, <2>1, <2>2 DEF LeadRow
<1>. QED
  BY <1>1, <1>2, <1>3, <1>4, <1>5, <1>6, <1>7, Writers

\* Leads that customers and bookings were made from stay.
LEMMA OriginsNext ==
  ASSUME Typed, Typed', Origins, Existing, NEW r \in Requests, Step(r), Frame(r)
  PROVE  Origins'
<1>1. ASSUME NEW l \in Leads, req[r].row = l, pc[r] \in {"book", "make customer"}
      PROVE  Exists(l)'
  <2>1. l \in WorksOn(r) /\ l \in Rows
    BY <1>1, OwnRow DEF Running, Rows
  <2>. QED
    BY <2>1 DEF Existing, Frame, Persists
<1>2. ASSUME NEW l \in Leads, Exists(l) PROVE Exists(l)'
  BY <1>2 DEF Frame, Persists, Rows
<1>3. ASSUME NEW c \in Customers, NEW l \in Leads, customers'[c].from = l PROVE Exists(l)'
  <2>1. l # None
    BY RowsAssumption DEF Rows
  <2>. QED
    BY <1>1, <1>2, <1>3, <2>1, CustomerOrigin DEF Origins
<1>4. ASSUME NEW b \in Bookings, NEW l \in Leads, bookings'[b].from = l
      PROVE  Exists(l)' /\ bookings'[b].customer # None
  <2>1. l # None
    BY RowsAssumption DEF Rows
  <2>2. CASE bookings'[b].from = bookings[b].from /\ bookings'[b].customer = bookings[b].customer
    BY <1>2, <1>4, <2>1, <2>2 DEF Origins
  <2>3. CASE /\ pc[r] = "book" /\ bookings'[b].from = req[r].row
             /\ bookings'[b].customer = customer[r]
    <3>1. customer[r] \in Customers /\ None \notin Customers
      BY <2>3, RowsAssumption DEF Typed, Shape, LinkPoints, Rows
    <3>. QED
      BY <1>1, <1>4, <2>3, <3>1
  <2>. QED
    BY <1>4, <2>1, <2>2, <2>3, BookingOrigin
<1>5. ASSUME NEW c \in Customers, (customers[c].from # None)' PROVE Exists(customers[c].from)'
  <2>1. PICK l \in Leads : customers'[c].from = l
    BY <1>5 DEF Typed, TypeOK, CustomerRow
  <2>2. Exists(l)'
    BY <1>3, <2>1
  <2>. QED
    BY <2>1, <2>2 DEF Exists
<1>6. ASSUME NEW b \in Bookings, (bookings[b].from # None)'
      PROVE  (Exists(bookings[b].from) /\ bookings[b].customer # None)'
  <2>1. PICK l \in Leads : bookings'[b].from = l
    BY <1>6 DEF Typed, TypeOK, BookingRow
  <2>2. Exists(l)' /\ bookings'[b].customer # None
    BY <1>4, <2>1
  <2>. QED
    BY <2>1, <2>2 DEF Exists
<1>. QED
  BY <1>5, <1>6 DEF Origins

\* The bookings of a lead that is not raced stay with the lead's customer.
LEMMA MatchNext ==
  ASSUME Typed, Typed', Origins, Progress, LeadMatchesBookings,
         NEW r \in Requests, Step(r), Frame(r)
  PROVE  LeadMatchesBookings'
<1> SUFFICES ASSUME NEW l \in Leads, l \notin raced', NEW b \in Bookings, bookings'[b].from = l
             PROVE  bookings'[b].customer = leads'[l].customer
  BY DEF LeadMatchesBookings
<1>0. l \notin raced /\ l # None
  BY RowsAssumption DEF Frame, Rows
<1>1. CASE /\ pc[r] = "book" /\ UNCHANGED <<leads, raced>>
           /\ bookings'[b].from = req[r].row /\ bookings'[b].customer = customer[r]
  BY <1>0, <1>1 DEF Progress, ProgressOf
<1>2. CASE bookings'[b].from = bookings[b].from /\ bookings'[b].customer = bookings[b].customer
  <2>1. /\ bookings[b].customer = leads[l].customer /\ bookings[b].customer # None
        /\ Exists(l)
    BY <1>0, <1>2 DEF LeadMatchesBookings, Origins
  <2>2. leads[l].state # "absent"
    BY <2>1, RowsAssumption DEF Exists
  <2>3. CASE leads'[l].customer = leads[l].customer
    BY <1>2, <2>1, <2>3
  <2>4. CASE /\ pc[r] \in {"link lead", "win lead"} /\ l = req[r].row
             /\ leads'[l].customer = customer[r]
    BY <1>0, <1>2, <2>1, <2>4 DEF Progress, ProgressOf
  <2>. QED
    BY <2>2, <2>3, <2>4, LeadCustomer
<1>. QED
  BY <1>0, <1>1, <1>2, BookingOrigin

\* A request that has made a customer links the lead next, or is interrupted.
LEMMA LinkingGoesOn ==
  ASSUME Typed, NEW r \in Requests, Step(r), NEW l \in Leads, NEW c \in Customers,
         Linking(r, l, c)
  PROVE  \/ Linking(r, l, c)' /\ leads' = leads
         \/ leads'[l].customer = c
         \/ l \in interrupted'
<1>0. pc[r] \in {"log customer", "link lead"} /\ req[r].row = l /\ customer[r] = c
  BY DEF Linking
<1>1. Fail(r) \/ appendAuditLog(r) \/ linkLead(r)
  BY <1>0 DEF Step, Start, Begin, findFirst, createCustomer, createLead, createBooking,
     createPayment, Update, updateCustomer, updateService, rescheduleBooking,
     scheduleLeadFollowUp, softDeleteCustomer, softDeleteService, softDeleteLead, updateLead,
     appendLeadNote, updateBooking, confirmBooking, cancelBooking, updatePaymentStatus,
     convertLeadToCustomer, convertLeadToBooking, findService, getCustomerById, bookLead, winLead
<1>2. CASE Fail(r)
  <2>1. l \in WorksOn(r)
    BY <1>0, OwnRow DEF Running, Rows
  <2>. QED
    BY <1>2, <2>1 DEF Fail
<1>3. CASE appendAuditLog(r)
  <2>1. pc[r] = "log customer" /\ Goto(r, "link lead") /\ UNCHANGED <<req, customer, leads>>
    BY <1>0, <1>3 DEF appendAuditLog, LogPoints, AfterLog, locals, tables
  <2>. QED
    BY <1>0, <2>1 DEF Typed, TypeOK, Goto, Linking
<1>4. CASE linkLead(r)
  <2>1. leads \in [Leads -> LeadRow] /\ leads' = [leads EXCEPT ![l].customer = c]
    BY <1>0, <1>4 DEF Typed, TypeOK, linkLead
  <2>. QED
    BY <2>1 DEF LeadRow
<1>. QED
  BY <1>1, <1>2, <1>3, <1>4

\* Every customer made from a lead is linked to it, or about to be.
LEMMA LinkedNext ==
  ASSUME Typed, Typed', Alone, Existing, Origins, Progress, Linked,
         NEW r \in Requests, Step(r), Frame(r)
  PROVE  Linked'
<1> SUFFICES ASSUME NEW l \in Leads, l \notin raced', l \notin interrupted',
                    NEW c \in Customers, customers'[c].from = l
             PROVE  leads'[l].customer = c \/ \E q \in Requests : Linking(q, l, c)'
  BY DEF Linked
<1>0. l \notin raced /\ l \notin interrupted /\ l # None /\ l \in Rows
  BY RowsAssumption DEF Frame, Rows
<1>1. CASE Linking(r, customers[c].from, c)'
  BY <1>1 DEF Linking
<1>2. CASE customers'[c].from = customers[c].from /\ leads[l].customer = c
  <2>1. leads[l].state # "absent" /\ c # None
    BY <1>0, <1>2, RowsAssumption DEF Origins, Exists, Rows
  <2>2. CASE /\ pc[r] \in {"link lead", "win lead"} /\ l = req[r].row
             /\ leads'[l].customer = customer[r]
    BY <1>0, <1>2, <2>1, <2>2 DEF Progress, ProgressOf
  <2>. QED
    BY <1>2, <2>1, <2>2, LeadCustomer
<1>3. CASE Linking(r, l, c)
  BY <1>3, LinkingGoesOn
<1>4. ASSUME NEW q \in Requests \ {r}, Linking(q, l, c) PROVE Linking(q, l, c)'
  BY <1>4 DEF Frame, OnlyMoves, Linking
<1>. QED
  BY <1>0, <1>1, <1>2, <1>3, <1>4, CustomerOrigin DEF Linked

-------------------------------------------------------------------------------
(* The audit log.                                                          *)

\* What may be said of a customer, before and after a step.
LEMMA CustomerFacts ==
  ASSUME NEW x \in Customers
  PROVE  RowFacts(x) = {customers[x].state} /\ RowFacts(x)' = {customers'[x].state}
BY RowsAssumption DEF RowFacts

\* What may be said of a lead.
LEMMA LeadFacts ==
  ASSUME NEW x \in Leads
  PROVE  /\ RowFacts(x) = {leads[x].state, IF leads[x].won THEN "WON" ELSE "OPEN"}
                            \cup (IF leads[x].customer # None THEN {"linked"} ELSE {})
         /\ RowFacts(x)' = {leads'[x].state, IF leads'[x].won THEN "WON" ELSE "OPEN"}
                             \cup (IF leads'[x].customer # None THEN {"linked"} ELSE {})
BY RowsAssumption DEF RowFacts, HasCustomer

\* What may be said of a service.
LEMMA ServiceFacts ==
  ASSUME NEW x \in Services
  PROVE  RowFacts(x) = {services[x]} /\ RowFacts(x)' = {services'[x]}
BY RowsAssumption DEF RowFacts

\* What may be said of a booking.
LEMMA BookingFacts ==
  ASSUME NEW x \in Bookings
  PROVE  RowFacts(x) = {bookings[x].status} /\ RowFacts(x)' = {bookings'[x].status}
BY RowsAssumption DEF RowFacts

\* What may be said of a payment.
LEMMA PaymentFacts ==
  ASSUME NEW x \in Payments
  PROVE  /\ RowFacts(x) = {payments[x].status} \cup payments[x].dates
         /\ RowFacts(x)' = {payments'[x].status} \cup payments'[x].dates
BY RowsAssumption DEF RowFacts

\* Other rows than x are as they were, in every table.
OthersAsWere(x) ==
  /\ \A y \in Customers \ {x} : customers'[y] = customers[y]
  /\ \A y \in Leads \ {x} : leads'[y] = leads[y]
  /\ \A y \in Services \ {x} : services'[y] = services[y]
  /\ \A y \in Bookings \ {x} : bookings'[y] = bookings[y]
  /\ \A y \in Payments \ {x} : payments'[y] = payments[y]

\* A step that writes one row leaves what may be said of the others.
LEMMA OtherFacts ==
  ASSUME NEW x, OthersAsWere(x), NEW y \in Rows \ {x}
  PROVE  RowFacts(y)' = RowFacts(y)
<1>1. CASE y \in Customers
  <2>1. customers'[y] = customers[y]
    BY <1>1 DEF OthersAsWere
  <2>. QED
    BY <1>1, <2>1, CustomerFacts
<1>2. CASE y \in Leads
  <2>1. leads'[y] = leads[y]
    BY <1>2 DEF OthersAsWere
  <2>. QED
    BY <1>2, <2>1, LeadFacts
<1>3. CASE y \in Services
  <2>1. services'[y] = services[y]
    BY <1>3 DEF OthersAsWere
  <2>. QED
    BY <1>3, <2>1, ServiceFacts
<1>4. CASE y \in Bookings
  <2>1. bookings'[y] = bookings[y]
    BY <1>4 DEF OthersAsWere
  <2>. QED
    BY <1>4, <2>1, BookingFacts
<1>5. CASE y \in Payments
  <2>1. payments'[y] = payments[y]
    BY <1>5 DEF OthersAsWere
  <2>. QED
    BY <1>5, <2>1, PaymentFacts
<1>. QED
  BY <1>1, <1>2, <1>3, <1>4, <1>5 DEF Rows

\* r writes the row x, and owes an entry that says what x has become.
WritesRow(r, x, says) ==
  /\ pc[r] \notin LogPoints /\ pc'[r] \in LogPoints
  /\ Owe(r, x, says) /\ says \subseteq RowFacts(x)'
  /\ x \in WorksOn(r)' /\ UNCHANGED audit /\ OthersAsWere(x)

\* r writes neither a table nor the log, nor comes to owe an entry.
WritesNothing(r) ==
  /\ pc'[r] \notin LogPoints /\ UNCHANGED <<tables, audit>>
  /\ pc[r] \in LogPoints => WorksOn(r) \subseteq interrupted'

\* An update of the row r found.
LEMMA UpdateWrites ==
  ASSUME Typed, NEW r \in Requests, NEW kind, NEW says, Update(r, kind, says),
         NEW x \in Rows, x = req[r].row, says \subseteq RowFacts(x)',
         OthersAsWere(x)
  PROVE  WritesRow(r, x, says)
<1>1. pc[r] = "write" /\ pc'[r] = "log" /\ req' = req
  BY DEF Typed, TypeOK, Update, Goto
<1>2. x \in WorksOn(r)'
  BY <1>1, RowsAssumption DEF WorksOn, Running
<1>. QED
  BY <1>1, <1>2 DEF WritesRow, Update, LogPoints

\* An insert.
LEMMA InsertWrites ==
  ASSUME Typed, NEW r \in Requests, NEW x \in Rows, NEW says, NEW label \in LogPoints,
         Insert(r, x), Owe(r, x, says), Goto(r, label),
         pc[r] \in {"insert", "make customer", "book"}, UNCHANGED audit,
         says \subseteq RowFacts(x)', OthersAsWere(x)
  PROVE  WritesRow(r, x, says)
<1>1. pc'[r] = label /\ x \in made'[r]
  BY DEF Typed, TypeOK, Insert, Goto
<1>2. Running(r)'
  BY <1>1 DEF Running, LogPoints
<1>3. x \in WorksOn(r)'
  BY <1>1, <1>2 DEF WorksOn
<1>. QED
  BY <1>1, <1>3 DEF WritesRow, LogPoints

\* The entry of each update says what the row has become.
LEMMA EditsTold ==
  ASSUME Typed, NEW r \in Requests,
         \/ updateCustomer(r) \/ updateService(r) \/ rescheduleBooking(r)
         \/ softDeleteCustomer(r) \/ softDeleteService(r) \/ softDeleteLead(r)
         \/ updateLead(r) \/ appendLeadNote(r) \/ scheduleLeadFollowUp(r)
         \/ updateBooking(r) \/ confirmBooking(r) \/ cancelBooking(r)
         \/ updatePaymentStatus(r)
  PROVE  \E x, says : x \in Rows /\ WritesRow(r, x, says)
<1>t. /\ customers \in [Customers -> CustomerRow] /\ leads \in [Leads -> LeadRow]
      /\ services \in [Services -> States \ {"absent"}]
      /\ bookings \in [Bookings -> BookingRow] /\ payments \in [Payments -> PaymentRow]
  BY DEF Typed, TypeOK
<1>s. pc[r] = "write"
  BY DEF Update, updateCustomer, updateService, rescheduleBooking, softDeleteCustomer,
     softDeleteService, softDeleteLead, updateLead, appendLeadNote, scheduleLeadFollowUp,
     updateBooking, confirmBooking, cancelBooking, updatePaymentStatus
<1>0. PICK x \in Rows :
        /\ x = req[r].row
        /\ req[r].kind \in CustomerKinds => x \in Customers
        /\ req[r].kind \in LeadKinds => x \in Leads
        /\ req[r].kind \in ServiceKinds => x \in Services
        /\ req[r].kind \in BookingKinds => x \in Bookings
        /\ req[r].kind = "set payment status" => x \in Payments
  BY <1>s DEF Typed, Shape
<1>1. CASE updateCustomer(r) \/ updateService(r) \/ rescheduleBooking(r)
  <2>1. UNCHANGED <<customers, leads, services, bookings, payments>>
    BY <1>1 DEF updateCustomer, updateService, rescheduleBooking, tables
  <2>2. OthersAsWere(x)
    BY <2>1 DEF OthersAsWere
  <2>3. PICK kind : Update(r, kind, {})
    BY <1>1 DEF updateCustomer, updateService, rescheduleBooking
  <2>4. WritesRow(r, x, {})
    BY <1>0, <2>2, <2>3, UpdateWrites
  <2>. QED
    BY <2>4
<1>2. CASE softDeleteCustomer(r)
  <2>1. UNCHANGED <<leads, services, bookings, payments>> /\ x \in Customers
    BY <1>0, <1>2 DEF softDeleteCustomer, Update, CustomerKinds
  <2>2. /\ \A y \in Customers \ {x} : customers'[y] = customers[y]
        /\ customers'[x].state = "archived"
    BY <1>t, <1>0, <1>2, <2>1 DEF softDeleteCustomer, CustomerRow
  <2>3. OthersAsWere(x)
    BY <2>1, <2>2 DEF OthersAsWere
  <2>4. {"archived"} \subseteq RowFacts(x)'
    BY <2>1, <2>2, CustomerFacts
  <2>5. WritesRow(r, x, {"archived"})
    BY <1>0, <1>2, <2>3, <2>4, UpdateWrites DEF softDeleteCustomer
  <2>. QED
    BY <2>5
<1>3. CASE softDeleteService(r)
  <2>1. UNCHANGED <<customers, leads, bookings, payments>> /\ x \in Services
    BY <1>0, <1>3 DEF softDeleteService, Update, ServiceKinds
  <2>2. /\ \A y \in Services \ {x} : services'[y] = services[y]
        /\ services'[x] = "archived"
    BY <1>t, <1>0, <1>3, <2>1 DEF softDeleteService
  <2>3. OthersAsWere(x)
    BY <2>1, <2>2 DEF OthersAsWere
  <2>4. {"archived"} \subseteq RowFacts(x)'
    BY <2>1, <2>2, ServiceFacts
  <2>5. WritesRow(r, x, {"archived"})
    BY <1>0, <1>3, <2>3, <2>4, UpdateWrites DEF softDeleteService
  <2>. QED
    BY <2>5
<1>4. CASE softDeleteLead(r)
  <2>1. UNCHANGED <<customers, services, bookings, payments>> /\ x \in Leads
    BY <1>0, <1>4 DEF softDeleteLead, Update, LeadKinds
  <2>2. /\ \A y \in Leads \ {x} : leads'[y] = leads[y]
        /\ leads'[x].state = "archived"
    BY <1>t, <1>0, <1>4, <2>1 DEF softDeleteLead, LeadRow
  <2>3. OthersAsWere(x)
    BY <2>1, <2>2 DEF OthersAsWere
  <2>4. {"archived"} \subseteq RowFacts(x)'
    BY <2>1, <2>2, LeadFacts
  <2>5. WritesRow(r, x, {"archived"})
    BY <1>0, <1>4, <2>3, <2>4, UpdateWrites DEF softDeleteLead
  <2>. QED
    BY <2>5
<1>5. CASE updateLead(r)
  <2>1. PICK won, notes :
          /\ Update(r, "update lead", {IF won THEN "WON" ELSE "OPEN"})
          /\ leads' = [leads EXCEPT ![req[r].row].won = won, ![req[r].row].notes = notes]
    BY <1>5 DEF updateLead
  <2>2. UNCHANGED <<customers, services, bookings, payments>> /\ x \in Leads
    BY <1>0, <1>5, <2>1 DEF updateLead, Update, LeadKinds
  <2>3. (\A y \in Leads \ {x} : leads'[y] = leads[y]) /\ leads'[x].won = won
    BY <1>t, <1>0, <2>1, <2>2 DEF LeadRow
  <2>4. OthersAsWere(x)
    BY <2>2, <2>3 DEF OthersAsWere
  <2>5. {IF won THEN "WON" ELSE "OPEN"} \subseteq RowFacts(x)'
    BY <2>2, <2>3, LeadFacts
  <2>6. WritesRow(r, x, {IF won THEN "WON" ELSE "OPEN"})
    BY <1>0, <2>1, <2>4, <2>5, UpdateWrites
  <2>. QED
    BY <2>6
<1>6. CASE appendLeadNote(r) \/ scheduleLeadFollowUp(r)
  <2>1. PICK kind, notes :
          Update(r, kind, {}) /\ leads' = [leads EXCEPT ![req[r].row].notes = notes]
    BY <1>6 DEF appendLeadNote, scheduleLeadFollowUp, LeadKinds
  <2>2. UNCHANGED <<customers, services, bookings, payments>>
    BY <1>6 DEF appendLeadNote, scheduleLeadFollowUp
  <2>3. \A y \in Leads \ {x} : leads'[y] = leads[y]
    BY <1>t, <1>0, <2>1
  <2>4. OthersAsWere(x)
    BY <2>2, <2>3 DEF OthersAsWere
  <2>5. WritesRow(r, x, {})
    BY <1>0, <2>1, <2>4, UpdateWrites
  <2>. QED
    BY <2>5
<1>7. CASE updateBooking(r) \/ confirmBooking(r) \/ cancelBooking(r)
  <2>1. UNCHANGED <<customers, leads, services, payments>>
    BY <1>7 DEF updateBooking, confirmBooking, cancelBooking
  <2>2. \A y \in Bookings \ {x} : bookings'[y] = bookings[y]
    <3>1. PICK row : bookings' = [bookings EXCEPT ![x] = row]
      <4>1. CASE updateBooking(r)
        BY <1>0, <4>1 DEF updateBooking
      <4>2. CASE confirmBooking(r)
        BY <1>0, <4>2 DEF confirmBooking
      <4>3. CASE cancelBooking(r)
        BY <1>0, <4>3 DEF cancelBooking
      <4>. QED
        BY <1>7, <4>1, <4>2, <4>3
    <3>. QED
      BY <1>t, <1>0, <3>1
  <2>3. OthersAsWere(x)
    BY <2>1, <2>2 DEF OthersAsWere
  <2>4. CASE updateBooking(r)
    <3>1. Update(r, "update booking", {})
      BY <2>4 DEF updateBooking
    <3>2. WritesRow(r, x, {})
      BY <1>0, <2>3, <3>1, UpdateWrites
    <3>. QED
      BY <3>2
  <2>5. CASE confirmBooking(r)
    <3>1. Update(r, "confirm booking", {"CONFIRMED"}) /\ x \in Bookings
      BY <1>0, <2>5 DEF confirmBooking, Update, BookingKinds
    <3>2. bookings'[x].status = "CONFIRMED"
      BY <1>t, <1>0, <2>5, <3>1 DEF confirmBooking, BookingRow
    <3>3. {"CONFIRMED"} \subseteq RowFacts(x)'
      BY <3>1, <3>2, BookingFacts
    <3>4. WritesRow(r, x, {"CONFIRMED"})
      BY <1>0, <2>3, <3>1, <3>3, UpdateWrites
    <3>. QED
      BY <3>4
  <2>6. CASE cancelBooking(r)
    <3>1. Update(r, "cancel booking", {"CANCELLED"}) /\ x \in Bookings
      BY <1>0, <2>6 DEF cancelBooking, Update, BookingKinds
    <3>2. bookings'[x].status = "CANCELLED"
      BY <1>t, <1>0, <2>6, <3>1 DEF cancelBooking, BookingRow
    <3>3. {"CANCELLED"} \subseteq RowFacts(x)'
      BY <3>1, <3>2, BookingFacts
    <3>4. WritesRow(r, x, {"CANCELLED"})
      BY <1>0, <2>3, <3>1, <3>3, UpdateWrites
    <3>. QED
      BY <3>4
  <2>. QED
    BY <1>7, <2>4, <2>5, <2>6
<1>8. CASE updatePaymentStatus(r)
  <2>1. PICK status, dates :
          /\ Update(r, "set payment status", {status} \cup dates)
          /\ payments' = [payments EXCEPT ![req[r].row] = [status |-> status, dates |-> dates]]
    BY <1>8 DEF updatePaymentStatus
  <2>2. UNCHANGED <<customers, leads, services, bookings>> /\ x \in Payments
    BY <1>0, <1>8, <2>1 DEF updatePaymentStatus, Update
  <2>3. /\ \A y \in Payments \ {x} : payments'[y] = payments[y]
        /\ payments'[x] = [status |-> status, dates |-> dates]
    BY <1>t, <1>0, <2>1, <2>2
  <2>4. OthersAsWere(x)
    BY <2>2, <2>3 DEF OthersAsWere
  <2>5. {status} \cup dates \subseteq RowFacts(x)'
    BY <2>2, <2>3, PaymentFacts
  <2>. QED
    BY <1>0, <2>1, <2>4, <2>5, UpdateWrites
<1>. QED
  BY <1>1, <1>2, <1>3, <1>4, <1>5, <1>6, <1>7, <1>8

\* The entry of each insert says what the row is.
LEMMA InsertsTold ==
  ASSUME Typed, NEW r \in Requests,
         createCustomer(r) \/ createLead(r) \/ createBooking(r) \/ createPayment(r) \/ bookLead(r)
  PROVE  \E x, says : x \in Rows /\ WritesRow(r, x, says)
<1>t. /\ customers \in [Customers -> CustomerRow] /\ leads \in [Leads -> LeadRow]
      /\ bookings \in [Bookings -> BookingRow] /\ payments \in [Payments -> PaymentRow]
  BY DEF Typed, TypeOK
<1>1. CASE createCustomer(r)
  <2>1. PICK x \in Customers :
          /\ customers' = [customers EXCEPT ![x] = [state |-> "live", from |-> req[r].row]]
          /\ Insert(r, x) /\ Owe(r, x, {"live"})
    BY <1>1 DEF createCustomer
  <2>2. UNCHANGED <<leads, services, bookings, payments, audit>>
    BY <1>1 DEF createCustomer
  <2>3. customers'[x].state = "live" /\ OthersAsWere(x)
    BY <1>t, <2>1, <2>2 DEF OthersAsWere
  <2>4. {"live"} \subseteq RowFacts(x)' /\ x \in Rows
    BY <2>3, CustomerFacts DEF Rows
  <2>5. PICK label \in LogPoints : Goto(r, label)
    BY <1>1 DEF createCustomer, LogPoints
  <2>6. pc[r] \in {"insert", "make customer", "book"}
    BY <1>1 DEF createCustomer
  <2>7. WritesRow(r, x, {"live"})
    BY <2>1, <2>2, <2>3, <2>4, <2>5, <2>6, InsertWrites
  <2>. QED
    BY <2>4, <2>7
<1>2. CASE createLead(r)
  <2>1. PICK x \in Leads, won \in BOOLEAN :
          /\ leads' = [leads EXCEPT ![x] = [state |-> "live", won |-> won, customer |-> None,
                                            notes |-> {}]]
          /\ Insert(r, x) /\ Owe(r, x, {"live"})
    BY <1>2 DEF createLead
  <2>2. UNCHANGED <<customers, services, bookings, payments, audit>>
    BY <1>2 DEF createLead
  <2>3. leads'[x].state = "live" /\ OthersAsWere(x)
    BY <1>t, <2>1, <2>2 DEF OthersAsWere
  <2>4. {"live"} \subseteq RowFacts(x)' /\ x \in Rows
    BY <2>3, LeadFacts DEF Rows
  <2>5. Goto(r, "log") /\ "log" \in LogPoints /\ pc[r] \in {"insert", "make customer", "book"}
    BY <1>2 DEF createLead, LogPoints
  <2>6. WritesRow(r, x, {"live"})
    BY <2>1, <2>2, <2>3, <2>4, <2>5, InsertWrites
  <2>. QED
    BY <2>4, <2>6
<1>3. CASE createBooking(r) \/ bookLead(r)
  <2>1. PICK x, who, status : x \in Bookings /\ InsertBooking(r, x, who, status)
    <3>1. CASE createBooking(r)
      BY <3>1 DEF createBooking
    <3>2. CASE bookLead(r)
      BY <3>2 DEF bookLead
    <3>. QED
      BY <1>3, <3>1, <3>2
  <2>2. /\ UNCHANGED <<customers, leads, services, payments, audit>>
        /\ pc[r] \in {"insert", "make customer", "book"}
    BY <1>3 DEF createBooking, bookLead
  <2>3. OthersAsWere(x) /\ Insert(r, x) /\ Owe(r, x, {})
    BY <1>t, <2>1, <2>2 DEF OthersAsWere, InsertBooking
  <2>4. PICK label \in LogPoints : Goto(r, label)
    BY <1>3 DEF createBooking, bookLead, LogPoints
  <2>5. x \in Rows
    BY <2>1 DEF Rows
  <2>6. WritesRow(r, x, {})
    BY <2>2, <2>3, <2>4, <2>5, InsertWrites
  <2>. QED
    BY <2>5, <2>6
<1>4. CASE createPayment(r)
  <2>1. PICK x, status, dates :
          /\ x \in Payments
          /\ payments' = [payments EXCEPT ![x] = [status |-> status, dates |-> dates]]
          /\ Insert(r, x) /\ Owe(r, x, {status})
    BY <1>4 DEF createPayment
  <2>2. UNCHANGED <<customers, leads, services, bookings, audit>>
    BY <1>4 DEF createPayment
  <2>3. payments'[x].status = status /\ OthersAsWere(x)
    BY <1>t, <2>1, <2>2 DEF OthersAsWere
  <2>4. {status} \subseteq RowFacts(x)' /\ x \in Rows
    BY <2>1, <2>3, PaymentFacts DEF Rows
  <2>5. Goto(r, "log") /\ "log" \in LogPoints /\ pc[r] \in {"insert", "make customer", "book"}
    BY <1>4 DEF createPayment, LogPoints
  <2>6. WritesRow(r, x, {status})
    BY <2>1, <2>2, <2>3, <2>4, <2>5, InsertWrites
  <2>. QED
    BY <2>4, <2>6
<1>. QED
  BY <1>1, <1>2, <1>3, <1>4

\* The entries about a lead that is linked or won say so.
LEMMA LinksTold ==
  ASSUME Typed, NEW r \in Requests, linkLead(r) \/ winLead(r)
  PROVE  \E x, says : x \in Rows /\ WritesRow(r, x, says)
<1>t. leads \in [Leads -> LeadRow]
  BY DEF Typed, TypeOK
<1>0. PICK x \in Leads : x = req[r].row /\ customer[r] # None
  BY RowsAssumption DEF linkLead, winLead, Typed, Shape, ConversionPoints, LinkPoints, Rows
<1>1. UNCHANGED <<customers, services, bookings, payments, audit, req>> /\ x \in Rows
  BY DEF linkLead, winLead, Rows
<1>2. pc[r] \in {"link lead", "win lead"} /\ pc'[r] \in {"log link", "log"}
  BY DEF Typed, TypeOK, linkLead, winLead, Goto
<1>3. x \in WorksOn(r)'
  BY <1>0, <1>1, <1>2, RowsAssumption DEF WorksOn, Running
<1>4. CASE linkLead(r)
  <2>1. Owe(r, x, {"linked"}) /\ leads' = [leads EXCEPT ![x].customer = customer[r]]
    BY <1>0, <1>4 DEF linkLead
  <2>2. OthersAsWere(x) /\ leads'[x].customer # None
    BY <1>t, <1>0, <1>1, <2>1 DEF OthersAsWere, LeadRow
  <2>3. {"linked"} \subseteq RowFacts(x)'
    BY <2>2, LeadFacts
  <2>4. WritesRow(r, x, {"linked"})
    BY <1>1, <1>2, <1>3, <2>1, <2>2, <2>3 DEF WritesRow, LogPoints
  <2>. QED
    BY <1>1, <2>4
<1>5. CASE winLead(r)
  <2>1. /\ Owe(r, x, {"linked", "WON"})
        /\ leads' = [leads EXCEPT ![x].won = TRUE, ![x].customer = customer[r]]
    BY <1>0, <1>5 DEF winLead
  <2>2. OthersAsWere(x) /\ leads'[x].customer # None /\ leads'[x].won = TRUE
    BY <1>t, <1>0, <1>1, <2>1 DEF OthersAsWere, LeadRow
  <2>3. {"linked", "WON"} \subseteq RowFacts(x)'
    BY <2>2, LeadFacts
  <2>4. WritesRow(r, x, {"linked", "WON"})
    BY <1>1, <1>2, <1>3, <2>1, <2>2, <2>3 DEF WritesRow, LogPoints
  <2>. QED
    BY <1>1, <2>4
<1>. QED
  BY <1>4, <1>5

\* Every statement writes a row and owes its entry, makes the entry it owes, or writes
\* nothing.
LEMMA Statements ==
  ASSUME Typed, NEW r \in Requests, Step(r)
  PROVE  \/ \E x, says : x \in Rows /\ WritesRow(r, x, says)
         \/ appendAuditLog(r)
         \/ WritesNothing(r)
<1>1. CASE Start(r)
  <2>1. PICK k \in Kinds, x \in Rows \cup {None}, label \in {"insert", "find", "convert", "find lead"} :
          Begin(r, k, x, label)
    BY <1>1 DEF Start, Rows, Kinds, InsertKinds, CustomerKinds, LeadKinds, ServiceKinds,
       BookingKinds, Conversions
  <2>2. pc'[r] = label /\ pc[r] = "idle" /\ UNCHANGED <<tables, audit>>
    BY <2>1 DEF Typed, TypeOK, Begin, Goto
  <2>. QED
    BY <2>1, <2>2 DEF WritesNothing, LogPoints
<1>2. CASE Fail(r)
  <2>1. pc'[r] = "failed" /\ UNCHANGED <<tables, audit>> /\ WorksOn(r) \subseteq interrupted'
    BY <1>2 DEF Typed, TypeOK, Fail, Return, Goto
  <2>. QED
    BY <2>1 DEF WritesNothing, LogPoints
<1>3. CASE \/ findFirst(r) \/ convertLeadToCustomer(r) \/ convertLeadToBooking(r)
           \/ findService(r) \/ getCustomerById(r)
  <2>1. pc[r] \notin LogPoints
    BY <1>3 DEF findFirst, convertLeadToCustomer, convertLeadToBooking, findService,
       getCustomerById, LogPoints
  <2>2. CASE AnswerNull(r)
    <3>1. pc'[r] = "done" /\ UNCHANGED <<tables, audit>>
      BY <2>2 DEF Typed, TypeOK, AnswerNull, Return, Goto
    <3>. QED
      BY <2>1, <3>1 DEF WritesNothing, LogPoints
  <2>3. CASE ~AnswerNull(r)
    <3>1. /\ UNCHANGED <<tables, audit>>
          /\ \E label \in {"write", "book", "make customer", "find service", "find customer",
                           "convert"} : Goto(r, label)
      <4>1. CASE findFirst(r)
        BY <2>3, <4>1 DEF findFirst
      <4>2. CASE convertLeadToCustomer(r)
        BY <2>3, <4>2 DEF convertLeadToCustomer
      <4>3. CASE convertLeadToBooking(r) \/ findService(r)
        BY <2>3, <4>3 DEF convertLeadToBooking, findService
      <4>4. CASE getCustomerById(r)
        BY <4>4 DEF getCustomerById
      <4>. QED
        BY <1>3, <4>1, <4>2, <4>3, <4>4
    <3>. QED
      BY <2>1, <3>1 DEF Typed, TypeOK, Goto, WritesNothing, LogPoints
  <2>. QED
    BY <2>2, <2>3
<1>. QED
  BY <1>1, <1>2, <1>3, EditsTold, InsertsTold, LinksTold DEF Step

\* After its entry a request returns or goes on with the conversion: it owes none.
LEMMA EntryMade ==
  ASSUME Typed, NEW r \in Requests, appendAuditLog(r)
  PROVE  pc'[r] \in {"done", "link lead", "win lead", "book"}
<1>1. pc \in [Requests -> PC]
  BY DEF Typed, TypeOK
<1>2. CASE Return(r, "done")
  BY <1>1, <1>2 DEF Return, Goto
<1>3. CASE Goto(r, AfterLog(r))
  <2>1. AfterLog(r) \in {"link lead", "win lead", "book"}
    BY DEF AfterLog
  <2>2. pc'[r] = AfterLog(r)
    BY <1>1, <1>3 DEF Goto
  <2>. QED
    BY <2>1, <2>2
<1>. QED
  BY <1>2, <1>3 DEF appendAuditLog

\* Entries are owed about rows the request works on.
LEMMA OwedNext ==
  ASSUME Typed, Typed', Owed, NEW r \in Requests, Step(r), Frame(r)
  PROVE  Owed'
<1> SUFFICES ASSUME NEW q \in Requests, NEW x \in Rows, Owes(q, x)'
             PROVE  x \in WorksOn(q)'
  BY DEF Owed
<1>1. CASE q # r
  <2>1. Owes(q, x) /\ WorksOn(q)' = WorksOn(q)
    BY <1>1 DEF Frame, OnlyMoves, Owes, WorksOn, Running
  <2>. QED
    BY <2>1 DEF Owed
<1>2. ASSUME q = r, NEW y, NEW says, WritesRow(r, y, says) PROVE x \in WorksOn(q)'
  BY <1>2 DEF Typed, TypeOK, WritesRow, Owe, Owes
<1>3. CASE q = r /\ appendAuditLog(r)
  <2>1. pc'[r] \in {"done", "link lead", "win lead", "book"}
    BY <1>3, EntryMade
  <2>. QED
    BY <1>3, <2>1 DEF Owes, LogPoints
<1>4. CASE q = r /\ WritesNothing(r)
  BY <1>4 DEF WritesNothing, Owes
<1>. QED
  BY <1>1, <1>2, <1>3, <1>4, Statements

\* The entries that are owed and the entries that were made stay so.
LEMMA EntriesNext ==
  ASSUME Typed, Typed', Alone', Owed, Owed', EntriesTrue, NEW r \in Requests, Step(r), Frame(r)
  PROVE  EntriesTrue'
<1> SUFFICES ASSUME NEW x \in Rows, x \notin raced', x \notin interrupted'
             PROVE  /\ \A q \in Requests : Owes(q, x)' => entry'[q].says \subseteq RowFacts(x)'
                    /\ (\A q \in Requests : ~Owes(q, x)') => audit'[x] \subseteq RowFacts(x)'
  BY DEF EntriesTrue
<1>0. x \notin raced /\ x \notin interrupted
  BY DEF Frame
<1>q. \A q \in Requests \ {r} : (Owes(q, x)' <=> Owes(q, x)) /\ entry'[q] = entry[q]
  BY DEF Frame, OnlyMoves, Owes
<1>1. ASSUME NEW y, NEW says, y \in Rows, WritesRow(r, y, says)
      PROVE  /\ \A q \in Requests : Owes(q, x)' => entry'[q].says \subseteq RowFacts(x)'
             /\ (\A q \in Requests : ~Owes(q, x)') => audit'[x] \subseteq RowFacts(x)'
  <2>1. /\ pc[r] \notin LogPoints /\ pc'[r] \in LogPoints /\ audit' = audit
        /\ entry'[r] = [row |-> y, says |-> says] /\ says \subseteq RowFacts(y)'
    BY <1>1 DEF Typed, TypeOK, WritesRow, Owe
  <2>2. CASE x = y
    <3>1. Owes(r, x)'
      BY <2>1, <2>2 DEF Owes
    <3>2. \A q \in Requests \ {r} : ~Owes(q, x)'
      BY <3>1 DEF Alone, Owed
    <3>. QED
      BY <2>1, <2>2, <3>1, <3>2
  <2>3. CASE x # y
    <3>1. RowFacts(x)' = RowFacts(x)
      BY <1>1, <2>3, OtherFacts DEF WritesRow
    <3>2. ~Owes(r, x) /\ ~Owes(r, x)'
      BY <2>1, <2>3 DEF Owes
    <3>. QED
      BY <1>0, <1>q, <2>1, <3>1, <3>2 DEF EntriesTrue
  <2>. QED
    BY <2>2, <2>3
<1>2. CASE appendAuditLog(r)
  <2>1. /\ pc[r] \in LogPoints /\ pc'[r] \notin LogPoints /\ UNCHANGED tables
        /\ audit' = [audit EXCEPT ![entry[r].row] = entry[r].says]
    <3>1. pc'[r] \in {"done", "link lead", "win lead", "book"}
      BY <1>2, EntryMade
    <3>. QED
      BY <1>2, <3>1 DEF appendAuditLog, LogPoints
  <2>2. RowFacts(x)' = RowFacts(x) /\ ~Owes(r, x)'
    BY <2>1 DEF tables, RowFacts, HasCustomer, Owes
  <2>3. CASE Owes(r, x)
    <3>1. audit'[x] = entry[r].says /\ entry[r].says \subseteq RowFacts(x)
      BY <1>0, <2>1, <2>3 DEF Typed, TypeOK, Owes, EntriesTrue
    <3>. QED
      BY <1>0, <1>q, <2>2, <3>1 DEF EntriesTrue
  <2>4. CASE ~Owes(r, x)
    <3>1. audit'[x] = audit[x]
      BY <2>1, <2>4 DEF Typed, TypeOK, Owes
    <3>. QED
      BY <1>0, <1>q, <2>2, <2>4, <3>1 DEF EntriesTrue
  <2>. QED
    BY <2>3, <2>4
<1>3. CASE WritesNothing(r)
  <2>1. RowFacts(x)' = RowFacts(x) /\ audit' = audit /\ ~Owes(r, x)'
    BY <1>3 DEF WritesNothing, tables, RowFacts, HasCustomer, Owes
  <2>2. ~Owes(r, x)
    BY <1>3 DEF WritesNothing, Owes, Owed
  <2>. QED
    BY <1>0, <1>q, <2>1, <2>2 DEF EntriesTrue
<1>. QED
  BY <1>1, <1>2, <1>3, Statements

-------------------------------------------------------------------------------
(* Notes and dates.                                                        *)

\* A statement keeps the notes of a lead, inserts it, or is the update of a request
\* that wrote the notes of the lead form, or at least the notes it had read.
LEMMA NotesWritten ==
  ASSUME Typed, NEW r \in Requests, Step(r), NEW l \in Leads
  PROVE  \/ leads'[l].notes = leads[l].notes
         \/ leads[l].state = "absent" /\ leads'[l].state = "live"
         \/ /\ pc[r] = "write" /\ l = req[r].row
            /\ updateLead(r) \/ seen[r].notes \subseteq leads'[l].notes
<1>t. leads \in [Leads -> LeadRow]
  BY DEF Typed, TypeOK
<1>1. CASE leads' = leads
  BY <1>1
<1>2. CASE createLead(r)
  <2>1. PICK d, row :
          /\ d \in Leads /\ leads[d].state = "absent" /\ row.state = "live"
          /\ leads' = [leads EXCEPT ![d] = row]
    BY <1>2 DEF createLead
  <2>. QED
    BY <1>t, <2>1
<1>3. CASE softDeleteLead(r)
  BY <1>t, <1>3 DEF softDeleteLead, LeadRow
<1>4. CASE updateLead(r)
  <2>1. PICK won, notes :
          /\ Update(r, "update lead", {IF won THEN "WON" ELSE "OPEN"})
          /\ leads' = [leads EXCEPT ![req[r].row].won = won, ![req[r].row].notes = notes]
    BY <1>4 DEF updateLead
  <2>2. l # req[r].row => leads'[l] = leads[l]
    BY <1>t, <2>1
  <2>. QED
    BY <1>4, <2>1, <2>2 DEF Update
<1>5. CASE appendLeadNote(r) \/ scheduleLeadFollowUp(r)
  <2>1. PICK notes :
          /\ leads' = [leads EXCEPT ![req[r].row].notes = notes]
          /\ seen[r].notes \subseteq notes
    <3>1. seen[r].notes \subseteq NotesAfter(r)
      BY DEF NotesAfter
    <3>2. CASE appendLeadNote(r)
      BY <3>1, <3>2 DEF appendLeadNote
    <3>3. CASE scheduleLeadFollowUp(r)
      <4>1. PICK notes \in {seen[r].notes, NotesAfter(r)} :
              leads' = [leads EXCEPT ![req[r].row].notes = notes]
        BY <3>3 DEF scheduleLeadFollowUp
      <4>. QED
        BY <3>1, <4>1
    <3>. QED
      BY <1>5, <3>2, <3>3
  <2>2. pc[r] = "write"
    BY <1>5 DEF appendLeadNote, scheduleLeadFollowUp, Update
  <2>. QED
    BY <1>t, <2>1, <2>2 DEF LeadRow
<1>6. CASE linkLead(r)
  BY <1>t, <1>6 DEF linkLead, LeadRow
<1>7. CASE winLead(r)
  <2>1. PICK won, who :
          leads' = [leads EXCEPT ![req[r].row].won = won, ![req[r].row].customer = who]
    BY <1>7 DEF winLead
  <2>. QED
    BY <1>t, <2>1 DEF LeadRow
<1>. QED
  BY <1>1, <1>2, <1>3, <1>4, <1>5, <1>6, <1>7, Writers

\* A statement keeps the dates of a payment, inserts it, or is the update of a request
\* that wrote at least the dates it had read.
LEMMA DatesWritten ==
  ASSUME Typed, NEW r \in Requests, Step(r), NEW p \in Payments
  PROVE  \/ payments'[p].dates = payments[p].dates
         \/ payments[p].status = "absent" /\ payments'[p].status # "absent"
         \/ /\ pc[r] = "write" /\ p = req[r].row
            /\ seen[r].dates \subseteq payments'[p].dates
<1>t. payments \in [Payments -> PaymentRow]
  BY DEF Typed, TypeOK
<1>1. CASE payments' = payments
  BY <1>1
<1>2. CASE createPayment(r)
  <2>1. PICK d, row :
          /\ d \in Payments /\ payments[d].status = "absent" /\ row.status # "absent"
          /\ payments' = [payments EXCEPT ![d] = row]
    BY <1>2 DEF createPayment
  <2>. QED
    BY <1>t, <2>1
<1>3. CASE updatePaymentStatus(r)
  <2>1. PICK status :
          payments' = [payments EXCEPT ![req[r].row] =
                         [status |-> status, dates |-> DatesAfter(r, status)]]
    BY <1>3 DEF updatePaymentStatus
  <2>2. pc[r] = "write" /\ seen[r].dates \subseteq DatesAfter(r, status)
    BY <1>3 DEF updatePaymentStatus, Update, DatesAfter
  <2>. QED
    BY <1>t, <2>1, <2>2
<1>. QED
  BY <1>1, <1>2, <1>3, Writers

\* The row an update writes is one it works on.
LEMMA WrittenRow ==
  ASSUME Typed, NEW r \in Requests, pc[r] = "write"
  PROVE  req[r].row \in Rows /\ req[r].row \in WorksOn(r)
<1>1. req[r].row \in Rows /\ Running(r)
  BY DEF Typed, Shape, Running
<1>. QED
  BY <1>1, OwnRow

\* A row that does not exist has no notes and no dates.
LEMMA BlankNext ==
  ASSUME Typed, Typed', Existing, BlankBefore, NEW r \in Requests, Step(r), Frame(r)
  PROVE  BlankBefore'
<1>1. ASSUME pc[r] = "write" PROVE Exists(req[r].row)
  BY <1>1, WrittenRow DEF Existing
<1>2. ASSUME NEW l \in Leads, leads'[l].state = "absent" PROVE leads'[l].notes = {}
  <2>1. leads[l].state = "absent"
    BY <1>2, RowsAssumption DEF Frame, Persists, Exists, Rows
  <2>2. ~Exists(l)
    BY <2>1, RowsAssumption DEF Exists
  <2>. QED
    BY <1>1, <1>2, <2>1, <2>2, NotesWritten DEF BlankBefore
<1>3. ASSUME NEW p \in Payments, payments'[p].status = "absent" PROVE payments'[p].dates = {}
  <2>1. payments[p].status = "absent"
    BY <1>3, RowsAssumption DEF Frame, Persists, Exists, Rows
  <2>2. ~Exists(p)
    BY <2>1, RowsAssumption DEF Exists
  <2>. QED
    BY <1>1, <1>3, <2>1, <2>2, DatesWritten DEF BlankBefore
<1>. QED
  BY <1>2, <1>3 DEF BlankBefore

\* A request is about to write a row only after it has found it.
LEMMA FoundBefore ==
  ASSUME Typed, NEW r \in Requests, Step(r), pc'[r] = "write"
  PROVE  findFirst(r) /\ ~AnswerNull(r)
<1>1. \A x, says : ~WritesRow(r, x, says)
  BY DEF WritesRow, LogPoints
<1>2. ~Start(r)
  BY DEF Typed, TypeOK, Start, Begin, Goto
<1>3. ~Fail(r) /\ ~AnswerNull(r)
  BY DEF Typed, TypeOK, Fail, AnswerNull, Return, Goto
<1>4. ~appendAuditLog(r)
  BY EntryMade
<1>5. ~convertLeadToCustomer(r) /\ ~convertLeadToBooking(r) /\ ~findService(r)
  BY <1>3 DEF Typed, TypeOK, convertLeadToCustomer, convertLeadToBooking, findService, Goto
<1>6. ~getCustomerById(r)
  BY DEF Typed, TypeOK, getCustomerById, Goto
<1>. QED
  BY <1>1, <1>2, <1>3, <1>4, <1>5, <1>6, EditsTold, InsertsTold, LinksTold DEF Step

\* What an update has read of a row that is not raced is what the row holds.
LEMMA SeenNext ==
  ASSUME Typed, Typed', Alone, Existing, SeenIsCurrent, NEW r \in Requests, Step(r), Frame(r)
  PROVE  SeenIsCurrent'
<1> SUFFICES ASSUME NEW q \in Requests, pc'[q] = "write", (req[q].row \notin raced)'
             PROVE  (/\ req[q].row \in Leads => seen[q].notes = leads[req[q].row].notes
                     /\ req[q].row \in Payments => seen[q].dates = payments[req[q].row].dates)'
  BY DEF SeenIsCurrent
<1>1. CASE q = r
  <2>1. findFirst(r) /\ ~AnswerNull(r)
    BY <1>1, FoundBefore
  <2>2. /\ UNCHANGED <<leads, payments, req>>
        /\ seen'[r] = [notes |-> IF req[r].row \in Leads THEN leads[req[r].row].notes ELSE {},
                       dates |-> IF req[r].row \in Payments THEN payments[req[r].row].dates ELSE {}]
    BY <2>1 DEF Typed, TypeOK, findFirst, tables
  <2>. QED
    BY <1>1, <2>2
<1>2. CASE q # r
  <2>1. pc[q] = "write" /\ req'[q] = req[q] /\ seen'[q] = seen[q]
    BY <1>2 DEF Frame, OnlyMoves
  <2>2. req[q].row \in WorksOn(q)
    BY <2>1, WrittenRow
  <2>3. /\ req[q].row \notin raced
        /\ req[q].row \in Leads => leads'[req[q].row] = leads[req[q].row]
        /\ req[q].row \in Payments => payments'[req[q].row] = payments[req[q].row]
    BY <1>2, <2>1, <2>2, Undisturbed, RowsAssumption
  <2>. QED
    BY <2>1, <2>3 DEF SeenIsCurrent
<1>. QED
  BY <1>1, <1>2

-------------------------------------------------------------------------------
(* The invariant, and the theorems.                                        *)

\* Nothing has been worked on yet.
LEMMA InitIInv == Init => IInv
<1> SUFFICES ASSUME Init PROVE IInv
  OBVIOUS
<1>1. \A r \in Requests : /\ pc[r] = "idle" /\ made[r] = {} /\ WorksOn(r) = {}
                          /\ req[r].row = None
  BY DEF Init, WorksOn, Running, NoRequest
<1>2. Alone /\ Existing /\ Progress /\ Owed /\ SeenIsCurrent
  BY <1>1 DEF Alone, Existing, Progress, ProgressOf, Owed, Owes, LogPoints, SeenIsCurrent
<1>3. /\ \A c \in Customers : customers[c].from = None
      /\ \A b \in Bookings : bookings[b].from = None
      /\ \A l \in Leads : leads[l].notes = {}
      /\ \A p \in Payments : payments[p].dates = {}
      /\ \A x \in Rows : audit[x] = {}
  BY DEF Init
<1>4. Origins /\ BlankBefore /\ LeadMatchesBookings /\ Linked
  BY <1>3, RowsAssumption DEF Origins, BlankBefore, LeadMatchesBookings, Linked, Rows
<1>5. EntriesTrue
  BY <1>1, <1>3 DEF EntriesTrue, Owes, LogPoints
<1>. QED
  BY <1>2, <1>4, <1>5 DEF IInv

\* Every statement keeps the invariant.
LEMMA NextIInv == IInv /\ Typed /\ Typed' /\ [Next]_vars => IInv'
<1> SUFFICES ASSUME IInv, Typed, Typed', [Next]_vars PROVE IInv'
  OBVIOUS
<1>1. CASE UNCHANGED vars
  <2>1. /\ UNCHANGED <<customers, leads, services, bookings, payments, audit, pc, req>>
        /\ UNCHANGED <<customer, seen, entry, made, raced, interrupted>>
    BY <1>1 DEF vars
  <2>2. Alone' /\ Existing' /\ Origins' /\ BlankBefore'
    BY <2>1 DEF IInv, Alone, Existing, Exists, Origins, BlankBefore, WorksOn, Running
  <2>3. Progress' /\ LeadMatchesBookings' /\ Linked'
    <3>1. Progress'
      BY <2>1 DEF IInv, Progress, ProgressOf
    <3>2. LeadMatchesBookings'
      BY <2>1 DEF IInv, LeadMatchesBookings
    <3>3. Linked'
      <4>1. \A r \in Requests, l \in Leads, c \in Customers : Linking(r, l, c)' <=> Linking(r, l, c)
        BY <2>1 DEF Linking
      <4>2. Linked
        BY DEF IInv
      <4>. QED
        BY <2>1, <4>1, <4>2 DEF Linked
    <3>. QED
      BY <3>1, <3>2, <3>3
  <2>4. Owed' /\ EntriesTrue'
    BY <2>1 DEF IInv, Owed, Owes, EntriesTrue, RowFacts, HasCustomer, WorksOn, Running
  <2>5. SeenIsCurrent'
    BY <2>1 DEF IInv, SeenIsCurrent
  <2>. QED
    BY <2>2, <2>3, <2>4, <2>5 DEF IInv
<1>2. ASSUME NEW r \in Requests, Step(r) PROVE IInv'
  <2>0. /\ Alone /\ Existing /\ Origins /\ BlankBefore /\ Progress /\ LeadMatchesBookings
        /\ Linked /\ Owed /\ EntriesTrue /\ SeenIsCurrent
    BY DEF IInv
  <2>1. Frame(r)
    BY <1>2, <2>0, StepFrame
  <2>2. Alone' /\ Existing'
    BY <2>0, <2>1, FrameAlone
  <2>3. Origins' /\ BlankBefore'
    BY <1>2, <2>0, <2>1, OriginsNext, BlankNext
  <2>4. Progress' /\ LeadMatchesBookings' /\ Linked'
    BY <1>2, <2>0, <2>1, ProgressNext, MatchNext, LinkedNext
  <2>5. Owed'
    BY <1>2, <2>0, <2>1, OwedNext
  <2>6. EntriesTrue' /\ SeenIsCurrent'
    BY <1>2, <2>0, <2>1, <2>2, <2>5, EntriesNext, SeenNext
  <2>. QED
    BY <2>2, <2>3, <2>4, <2>5, <2>6 DEF IInv
<1>. QED
  BY <1>1, <1>2 DEF Next

\* The invariant holds in every reachable state.
LEMMA Invariance == Spec => []IInv
<1>1. Init => IInv
  BY InitIInv
<1>2. IInv /\ Typed /\ Typed' /\ [Next]_vars => IInv'
  BY NextIInv
<1>. QED
  BY <1>1, <1>2, TypedInvariant, PTL DEF Spec

\* A lead has at most one customer made from it: two would both be the lead's own, or
\* be linked by one conversion, which knows that the lead had none.
THEOREM OneCustomerPerLead == Spec => []ConversionMakesOneCustomer
<1>1. IInv /\ Typed => ConversionMakesOneCustomer
  <2> SUFFICES ASSUME IInv, Typed, NEW l \in Leads \ (raced \cup interrupted),
                      NEW c \in Customers, NEW d \in Customers,
                      customers[c].from = l, customers[d].from = l
               PROVE  c = d
    BY DEF ConversionMakesOneCustomer
  <2>0. Alone /\ Progress /\ Linked /\ None \notin Customers
    BY RowsAssumption DEF IInv, Rows
  <2>1. ASSUME NEW r \in Requests, NEW e \in Customers, Linking(r, l, e)
        PROVE  leads[l].customer = None /\ l \in WorksOn(r) /\ customer[r] = e
    <3>1. /\ pc[r] \in {"log customer", "link lead"} /\ req[r].row = l /\ customer[r] = e
      BY <2>1 DEF Linking
    <3>2. l \in WorksOn(r)
      BY <3>1, OwnRow DEF Running, Rows
    <3>. QED
      BY <2>0, <3>1, <3>2 DEF Progress, ProgressOf
  <2>2. CASE leads[l].customer = c \/ leads[l].customer = d
    BY <2>0, <2>1, <2>2 DEF Linked
  <2>3. CASE leads[l].customer # c /\ leads[l].customer # d
    <3>1. PICK r, q \in Requests : Linking(r, l, c) /\ Linking(q, l, d)
      BY <2>0, <2>3 DEF Linked
    <3>2. r = q
      BY <2>0, <2>1, <3>1 DEF Alone
    <3>. QED
      BY <2>1, <3>1, <3>2
  <2>. QED
    BY <2>2, <2>3
<1>. QED
  BY <1>1, Invariance, TypedInvariant, PTL

\* The bookings a lead was converted into are for the lead's customer, also when
\* conversions failed halfway.
THEOREM BookingsMatchLead == Spec => []LeadMatchesBookings
<1>1. IInv => LeadMatchesBookings
  BY DEF IInv
<1>. QED
  BY <1>1, Invariance, PTL

\* Once nobody works on a row, its newest audit entry is so.
THEOREM AuditIsTrue == Spec => []AuditTellsRow
<1>1. IInv => AuditTellsRow
  BY DEF IInv, Owed, EntriesTrue, AuditTellsRow
<1>. QED
  BY <1>1, Invariance, PTL

\* A statement drops neither dates of payments nor notes of leads, but for the form.
LEMMA StepKeeps ==
  ASSUME IInv, Typed, [Next]_vars
  PROVE  [ /\ \A p \in Payments \ raced' : payments[p].dates \subseteq payments'[p].dates
           /\ \A l \in Leads \ raced' : \/ leads[l].notes \subseteq leads'[l].notes
                                       \/ \E r \in Requests : updateLead(r) ]_vars
<1> SUFFICES ASSUME NEW r \in Requests, Step(r)
             PROVE  /\ \A p \in Payments \ raced' : payments[p].dates \subseteq payments'[p].dates
                    /\ \A l \in Leads \ raced' : \/ leads[l].notes \subseteq leads'[l].notes
                                                \/ \E q \in Requests : updateLead(q)
  BY DEF Next
<1>0. Existing /\ SeenIsCurrent /\ BlankBefore
  BY DEF IInv
<1>1. raced \subseteq raced'
  BY <1>0, StepFrame DEF Frame
<1>2. ASSUME NEW p \in Payments \ raced' PROVE payments[p].dates \subseteq payments'[p].dates
  <2>1. CASE pc[r] = "write" /\ p = req[r].row /\ seen[r].dates \subseteq payments'[p].dates
    BY <1>0, <1>1, <2>1 DEF SeenIsCurrent
  <2>2. CASE payments[p].status = "absent"
    BY <1>0, <2>2 DEF BlankBefore
  <2>. QED
    BY <2>1, <2>2, DatesWritten
<1>3. ASSUME NEW l \in Leads \ raced', ~updateLead(r) PROVE leads[l].notes \subseteq leads'[l].notes
  <2>1. CASE pc[r] = "write" /\ l = req[r].row /\ seen[r].notes \subseteq leads'[l].notes
    BY <1>0, <1>1, <2>1 DEF SeenIsCurrent
  <2>2. CASE leads[l].state = "absent"
    BY <1>0, <2>2 DEF BlankBefore
  <2>. QED
    BY <1>3, <2>1, <2>2, NotesWritten
<1>. QED
  BY <1>2, <1>3

\* Dates of payments and notes of leads are not lost, but for the lead form, on rows
\* that no two requests worked on at the same time.
THEOREM DatesAndNotesStay == Spec => DatesAndNotesKept
<1>1. IInv /\ Typed /\ [Next]_vars =>
        [ /\ \A p \in Payments \ raced' : payments[p].dates \subseteq payments'[p].dates
          /\ \A l \in Leads \ raced' : \/ leads[l].notes \subseteq leads'[l].notes
                                      \/ \E r \in Requests : updateLead(r) ]_vars
  BY StepKeeps
<1>. QED
  BY <1>1, Invariance, TypedInvariant, PTL DEF Spec, DatesAndNotesKept
================================================================================
