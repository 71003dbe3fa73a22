-------------------------- MODULE AdminPipelineProofs --------------------------
(* Proofs about AdminPipeline, for any number of requests and rows.        *)
EXTENDS AdminPipeline, TLAPS

-------------------------------------------------------------------------------
(* Types, and what a request knows at each of its statements.              *)

ConversionPoints ==
  {"find lead", "find service", "find customer", "convert", "make customer",
   "log customer", "link lead", "log link", "book", "log booking", "win lead"}

\* The statements of a conversion that come after it has a customer.
LinkPoints == {"log customer", "link lead", "log link", "book", "log booking", "win lead"}

Shape(r) ==
  /\ pc[r] = "insert" => req[r].row = None
  /\ pc[r] \in ConversionPoints => req[r].row \in Leads /\ req[r].kind \in Conversions
  /\ pc[r] \in LinkPoints => customer[r] \in Customers
  /\ pc[r] \in LogPoints => entry[r].row \in Rows
  /\ pc[r] \in {"find", "write"} =>
       /\ req[r].row \in Rows
       /\ req[r].kind \in CustomerKinds => req[r].row \in Customers
       /\ req[r].kind \in LeadKinds => req[r].row \in Leads
       /\ req[r].kind \in ServiceKinds => req[r].row \in Services
       /\ req[r].kind \in BookingKinds => req[r].row \in Bookings
       /\ req[r].kind = "set payment status" => req[r].row \in Payments

TablesOK ==
  /\ customers \in [Customers -> CustomerRow]
  /\ leads \in [Leads -> LeadRow]
  /\ services \in [Services -> States \ {"absent"}]
  /\ bookings \in [Bookings -> BookingRow]
  /\ payments \in [Payments -> PaymentRow]

RequestsOK ==
  /\ pc \in [Requests -> PC]
  /\ req \in [Requests -> [kind: Kinds \cup {"none"}, row: Rows \cup {None}]]
  /\ customer \in [Requests -> Customers \cup {None}]
  /\ seen \in [Requests -> [notes: SUBSET Requests, dates: SUBSET Dates]]
  /\ entry \in [Requests -> [row: Rows \cup {None}, says: SUBSET Facts]]
  /\ made \in [Requests -> SUBSET Rows]

Typed == TypeOK /\ \A r \in Requests : Shape(r)

(* Every repository call starts with nothing read and nothing to log. *)
LEMMA TypedInit == Init => Typed
<1> SUFFICES ASSUME Init PROVE Typed
  OBVIOUS
<1>1. TypeOK
  <2>1. customers \in [Customers -> CustomerRow]
    BY DEF Init, CustomerRow, States
  <2>2. leads \in [Leads -> LeadRow]
    BY DEF Init, LeadRow, States
  <2>3. bookings \in [Bookings -> BookingRow]
    BY DEF Init, BookingRow
  <2>4. payments \in [Payments -> PaymentRow]
    BY DEF Init, PaymentRow, Dates
  <2>5. services \in [Services -> States \ {"absent"}]
    BY DEF Init, States
  <2>. QED
    BY <2>1, <2>2, <2>3, <2>4, <2>5 DEF Init, TypeOK, PC, NoRequest, Nothing, NoEntry
<1>2. ASSUME NEW r \in Requests PROVE Shape(r)
  BY DEF Init, Shape, ConversionPoints, LinkPoints, LogPoints
<1>. QED
  BY <1>1, <1>2 DEF Typed

\* A method that returns forgets what it knew.
LEMMA ReturnTyped ==
  ASSUME Typed, NEW r \in Requests, NEW label \in {"done", "failed"}, Return(r, label),
         UNCHANGED tables, audit' \in [Rows -> SUBSET Facts],
         raced' \in SUBSET Rows, interrupted' \in SUBSET Rows
  PROVE  Typed'
<1> USE DEF Typed, TypeOK, Return, Goto, NoRequest, Nothing, NoEntry
<1>1. TypeOK'
  BY DEF tables, PC
<1>2. pc'[r] \in {"done", "failed"}
  OBVIOUS
<1>3. Shape(r)'
  BY <1>2 DEF Shape, ConversionPoints, LinkPoints, LogPoints
<1>4. ASSUME NEW q \in Requests, q # r PROVE Shape(q)'
  BY <1>4 DEF Shape
<1>. QED
  BY <1>1, <1>3, <1>4

\* A step of r that keeps the types of its tables and locals.
OthersKept(r) ==
  \A q \in Requests \ {r} : /\ pc'[q] = pc[q] /\ req'[q] = req[q]
                            /\ customer'[q] = customer[q] /\ entry'[q] = entry[q]

(* One request moves on: its own locals keep their types and shapes, and the locals of the others are untouched. *)
LEMMA StepTyped ==
  ASSUME Typed, NEW r \in Requests, TablesOK', RequestsOK', OthersKept(r), Shape(r)',
         UNCHANGED <<audit, history>>
  PROVE  Typed'
<1>1. TypeOK'
  BY DEF Typed, TypeOK, TablesOK, RequestsOK, history
<1>2. ASSUME NEW q \in Requests, q # r PROVE Shape(q)'
  BY <1>2 DEF Typed, Shape, OthersKept
<1>. QED
  BY <1>1, <1>2 DEF Typed

\* An insert or an update after which r owes an entry.
LEMMA OweTyped ==
  ASSUME Typed, NEW r \in Requests, NEW row \in Rows, NEW says \in SUBSET Facts,
         NEW label \in LogPoints, Owe(r, row, says), Goto(r, label),
         label # "log" => req[r].row \in Leads /\ req[r].kind \in Conversions,
         TablesOK', UNCHANGED <<req, seen, audit, history>>,
         customer' = customer \/ (\E c \in Customers : customer' = [customer EXCEPT ![r] = c]),
         label # "log" => customer'[r] \in Customers,
         made' = made \/ Insert(r, row)
  PROVE  Typed'
<1>1. RequestsOK'
  <2>1. /\ pc \in [Requests -> PC] /\ customer \in [Requests -> Customers \cup {None}]
        /\ entry \in [Requests -> [row: Rows \cup {None}, says: SUBSET Facts]]
        /\ made \in [Requests -> SUBSET Rows]
    BY DEF Typed, TypeOK
  <2>2. pc' \in [Requests -> PC]
    BY <2>1 DEF Goto, PC, LogPoints
  <2>3. customer' \in [Requests -> Customers \cup {None}]
    BY <2>1
  <2>4. entry' \in [Requests -> [row: Rows \cup {None}, says: SUBSET Facts]]
    BY <2>1 DEF Owe
  <2>5. made' \in [Requests -> SUBSET Rows]
    BY <2>1 DEF Insert
  <2>. QED
    BY <2>2, <2>3, <2>4, <2>5 DEF Typed, TypeOK, RequestsOK
<1>2. OthersKept(r)
  BY DEF Typed, TypeOK, OthersKept, Owe, Goto
<1>3. Shape(r)'
  BY DEF Typed, TypeOK, Shape, Owe, Goto, ConversionPoints, LinkPoints, LogPoints
<1>. QED
  BY <1>1, <1>2, <1>3, StepTyped

(* An update by key writes one row and owes one log entry; this covers every single-row method of the repository. *)
LEMMA UpdateTyped ==
  ASSUME Typed, NEW r \in Requests, NEW kind \in Kinds, NEW says \in SUBSET Facts,
         Update(r, kind, says), TablesOK'
  PROVE  Typed'
<1>1. req[r].row \in Rows
  BY DEF Typed, Shape, Update
<1>. QED
  BY <1>1, OweTyped DEF Update, LogPoints

\* A step that only moves on, perhaps with a customer it has found.
LEMMA MoveTyped ==
  ASSUME Typed, NEW r \in Requests, NEW label \in PC \ LogPoints, Goto(r, label),
         pc[r] \in ConversionPoints, label \in ConversionPoints,
         customer' = customer \/ (\E c \in Customers \cup {None} : customer' = [customer EXCEPT ![r] = c]),
         label \in LinkPoints => customer'[r] \in Customers,
         UNCHANGED <<tables, req, seen, entry, made, audit, history>>
  PROVE  Typed'
<1>1. TablesOK'
  BY DEF Typed, TypeOK, TablesOK, tables
<1>2. RequestsOK'
  <2>1. pc \in [Requests -> PC] /\ customer \in [Requests -> Customers \cup {None}]
    BY DEF Typed, TypeOK
  <2>2. pc' \in [Requests -> PC]
    BY <2>1 DEF Goto
  <2>3. customer' \in [Requests -> Customers \cup {None}]
    BY <2>1
  <2>. QED
    BY <2>2, <2>3 DEF Typed, TypeOK, RequestsOK
<1>3. OthersKept(r)
  BY DEF Typed, TypeOK, OthersKept, Goto
<1>4. Shape(r)'
  BY DEF Typed, TypeOK, Shape, Goto, ConversionPoints, LogPoints
<1>. QED
  BY <1>1, <1>2, <1>3, <1>4, StepTyped

\* What the updates of a lead's row leave of its type.
LEMMA LeadRowTyped ==
  ASSUME leads \in [Leads -> LeadRow], NEW l \in Leads, NEW won \in BOOLEAN,
         NEW c \in Customers \cup {None}, NEW notes \in SUBSET Requests
  PROVE  /\ [leads EXCEPT ![l].state = "archived"] \in [Leads -> LeadRow]
         /\ [leads EXCEPT ![l].notes = notes] \in [Leads -> LeadRow]
         /\ [leads EXCEPT ![l].customer = c] \in [Leads -> LeadRow]
         /\ [leads EXCEPT ![l].won = won, ![l].notes = notes] \in [Leads -> LeadRow]
         /\ [leads EXCEPT ![l].won = won, ![l].customer = c] \in [Leads -> LeadRow]
<1>1. [leads EXCEPT ![l].state = "archived"] \in [Leads -> LeadRow]
  BY DEF LeadRow, States
<1>2. [leads EXCEPT ![l].notes = notes] \in [Leads -> LeadRow]
  BY DEF LeadRow
<1>3. [leads EXCEPT ![l].customer = c] \in [Leads -> LeadRow]
  BY DEF LeadRow
<1>4. [leads EXCEPT ![l].won = won, ![l].notes = notes] \in [Leads -> LeadRow]
  BY DEF LeadRow
<1>5. [leads EXCEPT ![l].won = won, ![l].customer = c] \in [Leads -> LeadRow]
  BY DEF LeadRow
<1>. QED
  BY <1>1, <1>2, <1>3, <1>4, <1>5

(* A row inserted with the facts of the call is a row of its table. *)
LEMMA InsertedRowTyped ==
  ASSUME NEW won \in BOOLEAN, NEW c \in Customers \cup {None}, NEW l \in Leads \cup {None},
         NEW status \in {"PENDING", "CONFIRMED", "CANCELLED"},
         NEW paid \in {"pending", "paid", "refunded"}, NEW dates \in SUBSET Dates
  PROVE  /\ [state |-> "live", from |-> l] \in CustomerRow
         /\ [state |-> "live", won |-> won, customer |-> None, notes |-> {}] \in LeadRow
         /\ [status |-> status, customer |-> c, from |-> l] \in BookingRow
         /\ [status |-> paid, dates |-> dates] \in PaymentRow
  BY DEF CustomerRow, LeadRow, BookingRow, PaymentRow, States

(* Each statement of each method keeps the types, and each request keeps the shape of the point it waits at. *)
LEMMA TypedNext == Typed /\ [Next]_vars => Typed'
<1> SUFFICES ASSUME Typed, [Next]_vars PROVE Typed'
  OBVIOUS
<1>0. /\ TablesOK /\ RequestsOK /\ audit \in [Rows -> SUBSET Facts]
      /\ raced \in SUBSET Rows /\ interrupted \in SUBSET Rows
      /\ \A r \in Requests : Shape(r)
  BY DEF Typed, TypeOK, TablesOK, RequestsOK
<1>t. /\ customers \in [Customers -> CustomerRow] /\ leads \in [Leads -> LeadRow]
      /\ services \in [Services -> States \ {"absent"}]
      /\ bookings \in [Bookings -> BookingRow] /\ payments \in [Payments -> PaymentRow]
  BY <1>0 DEF TablesOK
<1>1. CASE UNCHANGED vars
  BY <1>0, <1>t, <1>1 DEF vars, Shape, Typed, TypeOK
<1>2. ASSUME NEW r \in Requests, Start(r) PROVE Typed'
  <2>1. PICK k \in Kinds, x \in Rows \cup {None}, label \in {"insert", "find", "convert", "find lead"} :
          /\ Begin(r, k, x, label)
          /\ label = "insert" => x = None
          /\ label \in {"convert", "find lead"} => x \in Leads /\ k \in Conversions
          /\ label = "find" =>
               /\ x \in Rows
               /\ k \in CustomerKinds => x \in Customers
               /\ k \in LeadKinds => x \in Leads
               /\ k \in ServiceKinds => x \in Services
               /\ k \in BookingKinds => x \in Bookings
               /\ k = "set payment status" => x \in Payments
    BY <1>0, <1>t, <1>2 DEF Start, Rows, Kinds, InsertKinds, CustomerKinds, LeadKinds, ServiceKinds,
       BookingKinds, Conversions
  <2>2. TablesOK'
    BY <1>t, <2>1 DEF Begin, tables, TablesOK
  <2>3. pc' \in [Requests -> PC] /\ req' \in [Requests -> [kind: Kinds \cup {"none"}, row: Rows \cup {None}]]
    BY <1>0, <2>1 DEF Begin, Goto, PC, RequestsOK
  <2>4. raced' \in SUBSET Rows
    <3>1. \A q \in Requests : WorksOn(q) \in SUBSET Rows
      BY <1>0 DEF WorksOn, RequestsOK
    <3>. QED
      BY <1>0, <2>1, <3>1 DEF Begin
  <2>5. TypeOK'
    BY <1>0, <2>1, <2>2, <2>3, <2>4 DEF Begin, TypeOK, RequestsOK, TablesOK
  <2>6. Shape(r)'
    BY <1>0, <2>1 DEF RequestsOK, Begin, Goto, Shape, ConversionPoints, LinkPoints, LogPoints
  <2>7. ASSUME NEW q \in Requests, q # r PROVE Shape(q)'
    BY <1>0, <2>1, <2>7 DEF RequestsOK, Begin, Goto, Shape
  <2>. QED
    BY <2>5, <2>6, <2>7 DEF Typed
<1>3. ASSUME NEW r \in Requests, Fail(r) PROVE Typed'
  <2>1. WorksOn(r) \in SUBSET Rows
    BY <1>0 DEF WorksOn, RequestsOK
  <2>. QED
    BY <1>0, <1>3, <2>1, ReturnTyped DEF Fail
<1>4. ASSUME NEW r \in Requests, appendAuditLog(r) PROVE Typed'
  <2>1. audit' \in [Rows -> SUBSET Facts]
    <3>1. entry[r].says \in SUBSET Facts
      BY <1>0 DEF RequestsOK
    <3>. QED
      BY <1>0, <1>4, <3>1 DEF appendAuditLog
  <2>2. CASE Return(r, "done")
    BY <1>0, <1>4, <2>1, <2>2, ReturnTyped DEF appendAuditLog, history
  <2>3. CASE Goto(r, AfterLog(r)) /\ UNCHANGED locals /\ pc[r] \in LogPoints \ {"log"}
    <3>1. AfterLog(r) \in {"link lead", "win lead", "book"}
      BY DEF AfterLog
    <3>2. Shape(r)'
      BY <1>0, <2>3, <3>1 DEF RequestsOK, Goto, Shape, ConversionPoints, LinkPoints,
         LogPoints, locals
    <3>3. ASSUME NEW q \in Requests, q # r PROVE Shape(q)'
      BY <1>0, <2>3, <3>3 DEF RequestsOK, Goto, Shape, locals
    <3>4. pc' \in [Requests -> PC]
      BY <1>0, <2>3, <3>1 DEF RequestsOK, Goto, PC
    <3>5. TypeOK'
      BY <1>0, <1>4, <1>t, <2>1, <2>3, <3>4 DEF appendAuditLog, RequestsOK, TypeOK, tables,
         locals, history
    <3>. QED
      BY <3>2, <3>3, <3>5 DEF Typed
  <2>. QED
    BY <1>4, <2>2, <2>3 DEF appendAuditLog
<1>5. ASSUME NEW r \in Requests, findFirst(r) PROVE Typed'
  <2>1. CASE AnswerNull(r)
    BY <1>0, <2>1, ReturnTyped DEF AnswerNull, history
  <2>2. CASE ~AnswerNull(r)
    <3>1. /\ pc[r] = "find" /\ Goto(r, "write")
          /\ UNCHANGED <<tables, audit, req, customer, entry, made, history>>
      BY <1>0, <1>t, <1>5, <2>2 DEF findFirst
    <3>2. PICK found \in [notes: SUBSET Requests, dates: SUBSET Dates] :
            seen' = [seen EXCEPT ![r] = found]
      BY <1>0, <1>t, <1>5, <2>2 DEF findFirst, LeadRow, PaymentRow
    <3>3. TablesOK' /\ RequestsOK' /\ OthersKept(r)
      <4>1. TablesOK'
        BY <1>t, <3>1 DEF tables, TablesOK
      <4>2. RequestsOK'
        BY <1>0, <3>1, <3>2 DEF RequestsOK, Goto, PC
      <4>3. OthersKept(r)
        BY <1>0, <3>1 DEF RequestsOK, Goto, OthersKept
      <4>. QED
        BY <4>1, <4>2, <4>3
    <3>4. Shape(r)'
      BY <1>0, <3>1 DEF RequestsOK, Goto, Shape, ConversionPoints, LinkPoints, LogPoints
    <3>. QED
      BY <3>1, <3>3, <3>4, StepTyped
  <2>. QED
    BY <2>1, <2>2
<1>6. ASSUME NEW r \in Requests, createCustomer(r) PROVE Typed'
  <2>1. PICK c \in Customers :
          /\ customers' = [customers EXCEPT ![c] = [state |-> "live", from |-> req[r].row]]
          /\ customer' = [customer EXCEPT ![r] = c]
          /\ Insert(r, c) /\ Owe(r, c, {"live"})
    BY <1>0, <1>t, <1>6 DEF createCustomer
  <2>2. req[r].row \in Leads \cup {None}
    BY <1>0, <1>t, <1>6 DEF createCustomer, Shape, ConversionPoints
  <2>0. customers' \in [Customers -> CustomerRow]
    BY <1>t, <2>1, <2>2 DEF CustomerRow, States
  <2>3. TablesOK'
    BY <1>6, <1>t, <2>0 DEF createCustomer, TablesOK
  <2>4. c \in Rows /\ {"live"} \in SUBSET Facts /\ customer'[r] \in Customers
    BY <1>0, <2>1 DEF RequestsOK, Rows, Facts
  <2>5. PICK label \in {"log", "log customer"} :
          /\ Goto(r, label)
          /\ label # "log" => req[r].row \in Leads /\ req[r].kind \in Conversions
    BY <1>0, <1>t, <1>6 DEF createCustomer, Shape, ConversionPoints
  <2>. QED
    BY <1>0, <1>t, <1>6, <2>1, <2>3, <2>4, <2>5, OweTyped DEF createCustomer, LogPoints
<1>7. ASSUME NEW r \in Requests, createLead(r) PROVE Typed'
  <2>0. leads' \in [Leads -> LeadRow]
    BY <1>7, <1>t, InsertedRowTyped DEF createLead
  <2>1. PICK l \in Leads : TablesOK' /\ Insert(r, l) /\ Owe(r, l, {"live"})
    BY <1>7, <1>t, <2>0 DEF createLead, TablesOK
  <2>2. l \in Rows /\ {"live"} \in SUBSET Facts
    BY DEF Rows, Facts
  <2>. QED
    BY <1>0, <1>t, <1>7, <2>1, <2>2, OweTyped DEF createLead, LogPoints
<1>8. ASSUME NEW r \in Requests, createBooking(r) PROVE Typed'
  <2>1. req[r].row = None
    BY <1>0, <1>t, <1>8 DEF createBooking, Shape
  <2>0. bookings' \in [Bookings -> BookingRow]
    <3>1. PICK b \in Bookings, c \in Customers, status \in {"PENDING", "CONFIRMED", "CANCELLED"} :
            bookings' = [bookings EXCEPT ![b] = [status |-> status, customer |-> c, from |-> None]]
      BY <1>8, <2>1 DEF createBooking, InsertBooking
    <3>2. [status |-> status, customer |-> c, from |-> None] \in BookingRow
      BY InsertedRowTyped
    <3>. QED
      BY <1>t, <3>1, <3>2
  <2>2. PICK b \in Bookings : TablesOK' /\ Insert(r, b) /\ Owe(r, b, {})
    BY <1>8, <1>t, <2>0 DEF createBooking, InsertBooking, TablesOK
  <2>3. b \in Rows /\ {} \in SUBSET Facts
    BY DEF Rows
  <2>. QED
    BY <1>0, <1>t, <1>8, <2>2, <2>3, OweTyped DEF createBooking, LogPoints
<1>9. ASSUME NEW r \in Requests, createPayment(r) PROVE Typed'
  <2>1. PICK p \in Payments, status \in {"pending", "paid", "refunded"} :
          TablesOK' /\ Insert(r, p) /\ Owe(r, p, {status})
    <3>1. payments' \in [Payments -> PaymentRow]
      <4>1. PICK p \in Payments, status \in {"pending", "paid", "refunded"}, dated \in BOOLEAN :
              payments' = [payments EXCEPT ![p] = [status |-> status,
                                                   dates |-> DatesOfNew(status, dated)]]
        BY <1>9 DEF createPayment
      <4>2. DatesOfNew(status, dated) \in SUBSET Dates
        BY DEF DatesOfNew, Dates
      <4>. QED
        BY <1>t, <4>1, <4>2, InsertedRowTyped
    <3>. QED
      BY <1>9, <1>t, <3>1 DEF createPayment, TablesOK
  <2>2. p \in Rows /\ {status} \in SUBSET Facts
    BY DEF Rows, Facts
  <2>. QED
    BY <1>0, <1>t, <1>9, <2>1, <2>2, OweTyped DEF createPayment, LogPoints
<1>10. ASSUME NEW r \in Requests,
              updateCustomer(r) \/ updateService(r) \/ rescheduleBooking(r)
       PROVE  Typed'
  <2>1. TablesOK'
    BY <1>0, <1>t, <1>10 DEF updateCustomer, updateService, rescheduleBooking, tables, TablesOK
  <2>2. PICK kind \in Kinds : Update(r, kind, {})
    BY <1>10 DEF updateCustomer, updateService, rescheduleBooking, Kinds, CustomerKinds,
       ServiceKinds, BookingKinds
  <2>. QED
    BY <2>1, <2>2, UpdateTyped
<1>11. ASSUME NEW r \in Requests, softDeleteCustomer(r) PROVE Typed'
  <2>0. customers' \in [Customers -> CustomerRow]
    BY <1>11, <1>t DEF softDeleteCustomer, CustomerRow, States
  <2>1. TablesOK' /\ {"archived"} \in SUBSET Facts
    BY <1>11, <1>t, <2>0 DEF softDeleteCustomer, TablesOK, Facts
  <2>. QED
    BY <1>0, <1>t, <1>11, <2>1, UpdateTyped DEF softDeleteCustomer, Kinds, CustomerKinds
<1>12. ASSUME NEW r \in Requests, softDeleteService(r) PROVE Typed'
  <2>1. TablesOK' /\ {"archived"} \in SUBSET Facts
    BY <1>12, <1>t DEF softDeleteService, TablesOK, States, Facts
  <2>. QED
    BY <1>0, <1>t, <1>12, <2>1, UpdateTyped DEF softDeleteService, Kinds, ServiceKinds
<1>13. ASSUME NEW r \in Requests, softDeleteLead(r) PROVE Typed'
  <2>0. leads' \in [Leads -> LeadRow]
    <3>1. req[r].row \in Leads
      BY <1>0, <1>13 DEF softDeleteLead, Update, Shape, LeadKinds
    <3>. QED
      BY <1>13, <1>t, <3>1, LeadRowTyped DEF softDeleteLead
  <2>1. TablesOK' /\ {"archived"} \in SUBSET Facts
    BY <1>13, <1>t, <2>0 DEF softDeleteLead, TablesOK, Facts
  <2>. QED
    BY <1>0, <1>t, <1>13, <2>1, UpdateTyped DEF softDeleteLead, Kinds, LeadKinds
<1>14. ASSUME NEW r \in Requests, updateLead(r) PROVE Typed'
  <2>1. PICK won \in BOOLEAN, notes \in SUBSET Requests :
          /\ Update(r, "update lead", {IF won THEN "WON" ELSE "OPEN"})
          /\ leads' = [leads EXCEPT ![req[r].row].won = won, ![req[r].row].notes = notes]
    BY <1>0, <1>t, <1>14 DEF updateLead
  <2>0. leads' \in [Leads -> LeadRow]
    <3>1. req[r].row \in Leads
      BY <1>0, <2>1 DEF Update, Shape, LeadKinds
    <3>. QED
      BY <1>t, <2>1, <3>1, LeadRowTyped
  <2>2. TablesOK' /\ {IF won THEN "WON" ELSE "OPEN"} \in SUBSET Facts
    BY <1>14, <1>t, <2>0 DEF updateLead, TablesOK, Facts
  <2>. QED
    BY <2>1, <2>2, UpdateTyped DEF Kinds, LeadKinds
<1>15. ASSUME NEW r \in Requests, appendLeadNote(r) \/ scheduleLeadFollowUp(r) PROVE Typed'
  <2>0. PICK notes \in SUBSET Requests : leads' = [leads EXCEPT ![req[r].row].notes = notes]
    BY <1>0, <1>15 DEF appendLeadNote, scheduleLeadFollowUp, NotesAfter, RequestsOK
  <2>2. leads' \in [Leads -> LeadRow]
    <3>1. req[r].row \in Leads
      BY <1>0, <1>15 DEF appendLeadNote, scheduleLeadFollowUp, Update, Shape, LeadKinds
    <3>. QED
      BY <1>t, <2>0, <3>1, LeadRowTyped
  <2>1. TablesOK'
    BY <1>15, <1>t, <2>2 DEF appendLeadNote, scheduleLeadFollowUp, TablesOK
  <2>3. PICK kind \in Kinds : Update(r, kind, {})
    BY <1>15 DEF appendLeadNote, scheduleLeadFollowUp, Kinds, LeadKinds
  <2>. QED
    BY <2>1, <2>3, UpdateTyped
<1>16. ASSUME NEW r \in Requests, updateBooking(r) \/ confirmBooking(r) \/ cancelBooking(r)
       PROVE  Typed'
  <2>0. bookings' \in [Bookings -> BookingRow]
    <3>1. CASE updateBooking(r)
      <4>1. PICK c \in Customers, status \in {"PENDING", "CONFIRMED", "CANCELLED"} :
              bookings' = [bookings EXCEPT ![req[r].row] =
                             [status |-> status, customer |-> c, from |-> None]]
        BY <3>1 DEF updateBooking
      <4>2. [status |-> status, customer |-> c, from |-> None] \in BookingRow
        BY InsertedRowTyped
      <4>. QED
        BY <1>t, <4>1, <4>2
    <3>2. CASE confirmBooking(r)
      BY <3>2, <1>t DEF confirmBooking, BookingRow
    <3>3. CASE cancelBooking(r)
      BY <3>3, <1>t DEF cancelBooking, BookingRow
    <3>. QED
      BY <1>16, <3>1, <3>2, <3>3
  <2>1. TablesOK'
    BY <1>16, <1>t, <2>0 DEF updateBooking, confirmBooking, cancelBooking, TablesOK
  <2>2. {"CONFIRMED"} \in SUBSET Facts /\ {"CANCELLED"} \in SUBSET Facts
    BY DEF Facts
  <2>3. PICK kind \in Kinds, says \in SUBSET Facts : Update(r, kind, says)
    <3>1. {} \in SUBSET Facts /\ BookingKinds \subseteq Kinds
      BY DEF Kinds
    <3>. QED
      BY <1>16, <2>2, <3>1 DEF updateBooking, confirmBooking, cancelBooking, BookingKinds
  <2>. QED
    BY <2>1, <2>3, UpdateTyped
<1>17. ASSUME NEW r \in Requests, updatePaymentStatus(r) PROVE Typed'
  <2>1. PICK status \in {"pending", "paid", "refunded"} :
          /\ Update(r, "set payment status", {status} \cup DatesAfter(r, status))
          /\ payments' = [payments EXCEPT ![req[r].row] =
                            [status |-> status, dates |-> DatesAfter(r, status)]]
    BY <1>0, <1>t, <1>17 DEF updatePaymentStatus
  <2>2. DatesAfter(r, status) \in SUBSET Dates
    BY <1>0 DEF DatesAfter, Dates, RequestsOK
  <2>0. payments' \in [Payments -> PaymentRow]
    BY <1>t, <2>1, <2>2 DEF PaymentRow
  <2>3. TablesOK' /\ {status} \cup DatesAfter(r, status) \in SUBSET Facts
    BY <1>17, <1>t, <2>0, <2>2 DEF updatePaymentStatus, TablesOK, Facts
  <2>. QED
    BY <2>1, <2>3, UpdateTyped DEF Kinds
<1>18. ASSUME NEW r \in Requests, convertLeadToCustomer(r) PROVE Typed'
  <2>1. CASE AnswerNull(r)
    BY <1>0, <2>1, ReturnTyped DEF AnswerNull, history
  <2>2. CASE ~AnswerNull(r)
    <3>1. leads[req[r].row].customer \in Customers \cup {None}
      BY <1>0, <1>t, <1>18 DEF convertLeadToCustomer, Shape, ConversionPoints, LeadRow
    <3>2. pc[r] = "convert"
      BY <1>18 DEF convertLeadToCustomer
    <3>3. CASE /\ customer' = [customer EXCEPT ![r] = leads[req[r].row].customer]
               /\ leads[req[r].row].customer # None
               /\ Goto(r, "book")
               /\ UNCHANGED <<tables, audit, req, seen, entry, made, history>>
      <4>1. customer'[r] \in Customers
        BY <1>0, <3>1, <3>3 DEF RequestsOK
      <4>. QED
        BY <3>1, <3>2, <3>3, <4>1, MoveTyped DEF ConversionPoints, LogPoints, PC
    <3>4. CASE Goto(r, "make customer") /\ UNCHANGED <<tables, audit, locals, history>>
      BY <3>2, <3>4, MoveTyped DEF ConversionPoints, LinkPoints, LogPoints, PC, locals
    <3>. QED
      BY <1>18, <2>2, <3>3, <3>4 DEF convertLeadToCustomer, HasCustomer
  <2>. QED
    BY <2>1, <2>2
<1>19. ASSUME NEW r \in Requests, linkLead(r) PROVE Typed'
  <2>1. /\ req[r].row \in Leads /\ req[r].kind \in Conversions /\ customer[r] \in Customers
        /\ {"linked"} \in SUBSET Facts /\ req[r].row \in Rows
    BY <1>0, <1>t, <1>19 DEF linkLead, Shape, ConversionPoints, LinkPoints, Facts, Rows
  <2>0. leads' \in [Leads -> LeadRow]
    BY <1>19, <1>t, <2>1, LeadRowTyped DEF linkLead
  <2>2. TablesOK'
    BY <1>19, <1>t, <2>0 DEF linkLead, TablesOK
  <2>. QED
    BY <1>0, <1>t, <1>19, <2>1, <2>2, OweTyped DEF linkLead, LogPoints
<1>20. ASSUME NEW r \in Requests, convertLeadToBooking(r) PROVE Typed'
  <2>1. CASE AnswerNull(r)
    BY <1>0, <2>1, ReturnTyped DEF AnswerNull, history
  <2>2. CASE ~AnswerNull(r)
    <3>1. leads[req[r].row].customer \in Customers \cup {None}
      BY <1>0, <1>t, <1>20 DEF convertLeadToBooking, Shape, ConversionPoints, LeadRow
    <3>. QED
      BY <1>0, <1>t, <1>20, <2>2, <3>1, MoveTyped DEF convertLeadToBooking, ConversionPoints,
         LinkPoints, LogPoints, PC
  <2>. QED
    BY <2>1, <2>2
<1>21. ASSUME NEW r \in Requests, findService(r) PROVE Typed'
  <2>1. CASE AnswerNull(r)
    BY <1>0, <2>1, ReturnTyped DEF AnswerNull, history
  <2>2. CASE ~AnswerNull(r)
    BY <1>0, <1>t, <1>21, <2>2, MoveTyped DEF findService, ConversionPoints, LinkPoints, LogPoints, PC, locals
  <2>. QED
    BY <2>1, <2>2
<1>22. ASSUME NEW r \in Requests, getCustomerById(r) PROVE Typed'
  <2>1. pc[r] = "find customer" /\ UNCHANGED <<tables, audit, locals, history>>
    BY <1>22 DEF getCustomerById
  <2>2. CASE Goto(r, "book") /\ customer[r] # None
    <3>1. customer[r] \in Customers
      BY <1>0, <2>2 DEF RequestsOK
    <3>. QED
      BY <2>1, <2>2, <3>1, MoveTyped DEF ConversionPoints, LogPoints, PC, locals
  <2>3. CASE Goto(r, "convert")
    BY <2>1, <2>3, MoveTyped DEF ConversionPoints, LinkPoints, LogPoints, PC, locals
  <2>. QED
    BY <1>22, <2>2, <2>3 DEF getCustomerById
<1>23. ASSUME NEW r \in Requests, bookLead(r) PROVE Typed'
  <2>1. /\ req[r].row \in Leads /\ req[r].kind \in Conversions /\ customer[r] \in Customers
    BY <1>0, <1>t, <1>23 DEF bookLead, Shape, ConversionPoints, LinkPoints
  <2>0. bookings' \in [Bookings -> BookingRow]
    <3>1. PICK b \in Bookings :
            bookings' = [bookings EXCEPT ![b] = [status |-> "PENDING", customer |-> customer[r],
                                                 from |-> req[r].row]]
      BY <1>23 DEF bookLead, InsertBooking
    <3>2. [status |-> "PENDING", customer |-> customer[r], from |-> req[r].row] \in BookingRow
      BY <2>1, InsertedRowTyped
    <3>. QED
      BY <1>t, <3>1, <3>2
  <2>2. PICK b \in Bookings : TablesOK' /\ Insert(r, b) /\ Owe(r, b, {})
    BY <1>23, <1>t, <2>0 DEF bookLead, InsertBooking, TablesOK
  <2>3. b \in Rows /\ {} \in SUBSET Facts
    BY DEF Rows
  <2>. QED
    BY <1>0, <1>t, <1>23, <2>1, <2>2, <2>3, OweTyped DEF bookLead, LogPoints
<1>24. ASSUME NEW r \in Requests, winLead(r) PROVE Typed'
  <2>1. /\ req[r].row \in Leads /\ req[r].kind \in Conversions /\ customer[r] \in Customers
        /\ {"linked", "WON"} \in SUBSET Facts /\ req[r].row \in Rows
    BY <1>0, <1>t, <1>24 DEF winLead, Shape, ConversionPoints, LinkPoints, Facts, Rows
  <2>0. leads' \in [Leads -> LeadRow]
    BY <1>24, <1>t, <2>1, LeadRowTyped DEF winLead
  <2>2. TablesOK'
    BY <1>24, <1>t, <2>0 DEF winLead, TablesOK
  <2>. QED
    BY <1>0, <1>t, <1>24, <2>1, <2>2, OweTyped DEF winLead, LogPoints
<1>. QED
  BY <1>1, <1>2, <1>3, <1>4, <1>5, <1>6, <1>7, <1>8, <1>9, <1>10, <1>11, <1>12, <1>13, <1>14,
     <1>15, <1>16, <1>17, <1>18, <1>19, <1>20, <1>21, <1>22, <1>23, <1>24 DEF Next, Step

(* Types and shapes hold in every reachable state. *)
LEMMA TypedInvariant == Spec => []Typed
<1>1. Init => Typed
  BY TypedInit
<1>2. Typed /\ [Next]_vars => Typed'
  BY TypedNext
<1>. QED
  BY <1>1, <1>2, PTL DEF Spec

\* The tables and the locals of every request keep their types.
THEOREM TypeCorrect == Spec => []TypeOK
<1>1. Typed => TypeOK
  BY DEF Typed
<1>. QED
  BY <1>1, TypedInvariant, PTL
================================================================================
