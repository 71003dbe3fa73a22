----------------------------- MODULE AdminPipeline -----------------------------
(***************************************************************************)
(* The sales pipeline of the admin console: customers, leads, services,    *)
(* bookings and payments, as the Prisma repository writes them.            *)
(*                                                                         *)
(* No repository method opens a transaction.  Every statement commits by   *)
(* itself, a method that fails or whose process dies leaves the statements *)
(* before it done, and the audit entry is one more statement at the end.   *)
(* Requests interleave at each statement.  A mutation first finds the live *)
(* row, answers null when there is none, and then writes by id.            *)
(***************************************************************************)
CONSTANTS
  Requests,   \* calls of server actions and route handlers, each made once
  Customers, Leads, Services, Bookings, Payments,  \* row ids
  Workload,   \* kinds of requests the operators issue
  None        \* SQL NULL

Rows == Customers \cup Leads \cup Services \cup Bookings \cup Payments

InsertKinds == {"create customer", "create lead", "create booking", "create payment"}
CustomerKinds == {"update customer", "archive customer"}
LeadKinds == {"update lead", "annotate lead", "follow up lead", "archive lead"}
ServiceKinds == {"update service", "archive service"}
BookingKinds == {"update booking", "confirm booking", "cancel booking", "reschedule booking"}
Conversions == {"convert to customer", "convert to booking"}
Kinds == InsertKinds \cup CustomerKinds \cup LeadKinds \cup ServiceKinds \cup BookingKinds
           \cup {"set payment status"} \cup Conversions

ASSUME RowsAssumption ==
  /\ None \notin Rows
  /\ Customers \cap Leads = {} /\ Customers \cap Services = {}
  /\ Customers \cap Bookings = {} /\ Customers \cap Payments = {}
  /\ Leads \cap Services = {} /\ Leads \cap Bookings = {} /\ Leads \cap Payments = {}
  /\ Services \cap Bookings = {} /\ Services \cap Payments = {}
  /\ Bookings \cap Payments = {}
  /\ Workload \subseteq Kinds

VARIABLES
  customers, leads, services, bookings, payments,  \* the tables
  audit,        \* what the newest audit_logs entry of each row says of the row
  pc, req,      \* next statement of each request; its kind and its row
  customer,     \* the customer a request has read, made or been given
  seen,         \* the notes or the payment dates it has read
  entry,        \* the audit entry it owes
  made,         \* the rows it has inserted
  raced,        \* history: rows that two requests worked on at the same time
  interrupted   \* history: rows that a request worked on when it failed

tables == <<customers, leads, services, bookings, payments>>
locals == <<req, customer, seen, entry, made>>
history == <<raced, interrupted>>
vars == <<customers, leads, services, bookings, payments, audit,
          pc, req, customer, seen, entry, made, raced, interrupted>>

States == {"absent", "live", "archived"}
Dates == {"paidAt", "refundedAt"}

\* from is the lead a row was made from by a conversion, None for a form; the code
\* keeps only the lead's source.  A note stands for the request that added it.
CustomerRow == [state: States, from: Leads \cup {None}]
LeadRow == [state: States, won: BOOLEAN, customer: Customers \cup {None},
            notes: SUBSET Requests]
BookingRow == [status: {"absent", "PENDING", "CONFIRMED", "CANCELLED"},
               customer: Customers \cup {None}, from: Leads \cup {None}]
\* dates is which of the two date columns are set.
PaymentRow == [status: {"absent", "pending", "paid", "refunded"}, dates: SUBSET Dates]

\* What an audit entry may say of a row.
Facts == {"live", "archived", "linked", "WON", "OPEN", "CONFIRMED", "CANCELLED",
          "pending", "paid", "refunded"} \cup Dates

PC == {"idle", "insert", "find", "write", "find lead", "find service", "find customer",
       "convert", "make customer", "log customer", "link lead", "log link",
       "book", "log booking", "win lead", "log", "done", "failed"}

NoRequest == [kind |-> "none", row |-> None]
Nothing == [notes |-> {}, dates |-> {}]
NoEntry == [row |-> None, says |-> {}]

Init ==
  /\ customers = [c \in Customers |-> [state |-> "absent", from |-> None]]
  /\ leads \in [Leads -> [state: {"absent", "live"}, won: {FALSE}, customer: {None},
                          notes: {{}}]]
  /\ services = [s \in Services |-> "live"]
  /\ bookings = [b \in Bookings |-> [status |-> "absent", customer |-> None, from |-> None]]
  /\ payments \in [Payments -> [status: {"absent", "pending"}, dates: {{}}]]
  /\ audit = [x \in Rows |-> {}]
  /\ pc = [r \in Requests |-> "idle"]
  /\ req = [r \in Requests |-> NoRequest]
  /\ customer = [r \in Requests |-> None]
  /\ seen = [r \in Requests |-> Nothing]
  /\ entry = [r \in Requests |-> NoEntry]
  /\ made = [r \in Requests |-> {}]
  /\ raced = {}
  /\ interrupted = {}

-------------------------------------------------------------------------------
(* Requests.                                                               *)

Running(r) == pc[r] \notin {"idle", "done", "failed"}
WorksOn(r) == IF Running(r) THEN made[r] \cup ({req[r].row} \ {None}) ELSE {}

Goto(r, label) == pc' = [pc EXCEPT ![r] = label]

Begin(r, kind, row, label) ==
  /\ pc[r] = "idle" /\ kind \in Workload
  /\ Goto(r, label)
  /\ req' = [req EXCEPT ![r] = [kind |-> kind, row |-> row]]
  /\ raced' = raced \cup {x \in {row} : \E q \in Requests : x \in WorksOn(q)}
  /\ UNCHANGED <<tables, audit, customer, seen, entry, made, interrupted>>

Start(r) ==
  \/ \E k \in InsertKinds : Begin(r, k, None, "insert")
  \/ \E k \in CustomerKinds, c \in Customers :
       customers[c].state # "absent" /\ Begin(r, k, c, "find")
  \/ \E k \in LeadKinds, l \in Leads : leads[l].state # "absent" /\ Begin(r, k, l, "find")
  \/ \E l \in Leads : /\ leads[l].state # "absent"
                      /\ \/ Begin(r, "convert to customer", l, "convert")
                         \/ Begin(r, "convert to booking", l, "find lead")
  \/ \E k \in ServiceKinds, s \in Services : Begin(r, k, s, "find")
  \/ \E k \in BookingKinds, b \in Bookings :
       bookings[b].status # "absent" /\ Begin(r, k, b, "find")
  \/ \E p \in Payments : /\ payments[p].status # "absent"
                         /\ Begin(r, "set payment status", p, "find")

\* A method returns, or throws: its locals are gone.
Return(r, label) ==
  /\ Goto(r, label)
  /\ req' = [req EXCEPT ![r] = NoRequest]
  /\ customer' = [customer EXCEPT ![r] = None]
  /\ seen' = [seen EXCEPT ![r] = Nothing]
  /\ entry' = [entry EXCEPT ![r] = NoEntry]
  /\ made' = [made EXCEPT ![r] = {}]

\* The row that was looked for is missing or archived.
AnswerNull(r) == Return(r, "done") /\ UNCHANGED <<tables, audit, history>>

\* A statement fails, or the process dies before it.
Fail(r) ==
  /\ Running(r)
  /\ Return(r, "failed")
  /\ interrupted' = interrupted \cup WorksOn(r)
  /\ UNCHANGED <<tables, audit, raced>>

\* The statement that was just made is to be followed by an entry about row.
Owe(r, row, says) == entry' = [entry EXCEPT ![r] = [row |-> row, says |-> says]]

Insert(r, row) == made' = [made EXCEPT ![r] = @ \cup {row}]

LogPoints == {"log", "log customer", "log link", "log booking"}

AfterLog(r) ==
  CASE pc[r] = "log customer" -> "link lead"
    [] pc[r] = "log booking" -> "win lead"
    [] OTHER -> "book"

appendAuditLog(r) ==
  /\ pc[r] \in LogPoints
  /\ audit' = [audit EXCEPT ![entry[r].row] = entry[r].says]
  /\ IF pc[r] = "log" \/ (pc[r] = "log link" /\ req[r].kind = "convert to customer")
     THEN Return(r, "done")
     ELSE Goto(r, AfterLog(r)) /\ UNCHANGED locals
  /\ UNCHANGED <<tables, history>>

-------------------------------------------------------------------------------
(* Inserts.                                                                *)

\* Called by the form, and by the conversion of a lead.
createCustomer(r) ==
  /\ pc[r] = "make customer" \/ (pc[r] = "insert" /\ req[r].kind = "create customer")
  /\ \E c \in Customers :
       /\ customers[c].state = "absent"
       /\ customers' = [customers EXCEPT ![c] = [state |-> "live", from |-> req[r].row]]
       /\ customer' = [customer EXCEPT ![r] = c]
       /\ Insert(r, c)
       /\ Owe(r, c, {"live"})
  /\ Goto(r, IF pc[r] = "insert" THEN "log" ELSE "log customer")
  /\ UNCHANGED <<leads, services, bookings, payments, audit, req, seen, history>>

createLead(r) ==
  /\ pc[r] = "insert" /\ req[r].kind = "create lead"
  /\ \E l \in Leads, won \in BOOLEAN :
       /\ leads[l].state = "absent"
       /\ leads' = [leads EXCEPT ![l] = [state |-> "live", won |-> won, customer |-> None,
                                         notes |-> {}]]
       /\ Insert(r, l)
       /\ Owe(r, l, {"live"})
  /\ Goto(r, "log")
  /\ UNCHANGED <<customers, services, bookings, payments, audit, req, customer, seen,
                 history>>

InsertBooking(r, b, c, status) ==
  /\ bookings[b].status = "absent"
  /\ bookings' = [bookings EXCEPT ![b] = [status |-> status, customer |-> c,
                                          from |-> req[r].row]]
  /\ Insert(r, b)
  /\ Owe(r, b, {})

\* The customer a form names may be archived meanwhile.
createBooking(r) ==
  /\ pc[r] = "insert" /\ req[r].kind = "create booking"
  /\ \E b \in Bookings, c \in Customers, status \in {"PENDING", "CONFIRMED", "CANCELLED"} :
       customers[c].state # "absent" /\ InsertBooking(r, b, c, status)
  /\ Goto(r, "log")
  /\ UNCHANGED <<customers, leads, services, payments, audit, req, customer, seen, history>>

\* Only paidAt is written, whatever the status.
DatesOfNew(status, dated) == IF status = "paid" \/ dated THEN {"paidAt"} ELSE {}

createPayment(r) ==
  /\ pc[r] = "insert" /\ req[r].kind = "create payment"
  /\ \E p \in Payments, status \in {"pending", "paid", "refunded"}, dated \in BOOLEAN :
       /\ payments[p].status = "absent"
       /\ payments' = [payments EXCEPT ![p] = [status |-> status,
                                               dates |-> DatesOfNew(status, dated)]]
       /\ Insert(r, p)
       /\ Owe(r, p, {status})
  /\ Goto(r, "log")
  /\ UNCHANGED <<customers, leads, services, bookings, audit, req, customer, seen, history>>

-------------------------------------------------------------------------------
(* Edits: find the live row, then write it by id.                          *)

Live(x) ==
  \/ x \in Customers /\ customers[x].state = "live"
  \/ x \in Leads /\ leads[x].state = "live"
  \/ x \in Services /\ services[x] = "live"
  \/ x \in Bookings \cup Payments

findFirst(r) ==
  /\ pc[r] = "find"
  /\ \/ ~Live(req[r].row) /\ AnswerNull(r)
     \/ /\ Live(req[r].row)
        /\ seen' = [seen EXCEPT ![r] =
             [notes |-> IF req[r].row \in Leads THEN leads[req[r].row].notes ELSE {},
              dates |-> IF req[r].row \in Payments THEN payments[req[r].row].dates ELSE {}]]
        /\ Goto(r, "write")
        /\ UNCHANGED <<tables, audit, req, customer, entry, made, history>>

\* update({where: {id}}) of the row r found, which it then reports to the audit log.
Update(r, kind, says) ==
  /\ pc[r] = "write" /\ req[r].kind = kind
  /\ Owe(r, req[r].row, says)
  /\ Goto(r, "log")
  /\ UNCHANGED <<audit, req, customer, seen, made, history>>

\* The columns these three write are not modelled; the row and its entry are.
updateCustomer(r) == Update(r, "update customer", {}) /\ UNCHANGED tables
updateService(r) == Update(r, "update service", {}) /\ UNCHANGED tables
rescheduleBooking(r) == Update(r, "reschedule booking", {}) /\ UNCHANGED tables

softDeleteCustomer(r) ==
  /\ Update(r, "archive customer", {"archived"})
  /\ customers' = [customers EXCEPT ![req[r].row].state = "archived"]
  /\ UNCHANGED <<leads, services, bookings, payments>>

softDeleteService(r) ==
  /\ Update(r, "archive service", {"archived"})
  /\ services' = [services EXCEPT ![req[r].row] = "archived"]
  /\ UNCHANGED <<customers, leads, bookings, payments>>

softDeleteLead(r) ==
  /\ Update(r, "archive lead", {"archived"})
  /\ leads' = [leads EXCEPT ![req[r].row].state = "archived"]
  /\ UNCHANGED <<customers, services, bookings, payments>>

\* Every column of the form is written, the notes as the operator left them; the
\* customer is not on the form.
updateLead(r) ==
  /\ \E won \in BOOLEAN, notes \in SUBSET Requests :
       /\ Update(r, "update lead", {IF won THEN "WON" ELSE "OPEN"})
       /\ leads' = [leads EXCEPT ![req[r].row].won = won, ![req[r].row].notes = notes]
  /\ UNCHANGED <<customers, services, bookings, payments>>

NotesAfter(r) == seen[r].notes \cup {r}

appendLeadNote(r) ==
  /\ Update(r, "annotate lead", {})
  /\ leads' = [leads EXCEPT ![req[r].row].notes = NotesAfter(r)]
  /\ UNCHANGED <<customers, services, bookings, payments>>

\* The notes are written also when there is none to add.
scheduleLeadFollowUp(r) ==
  /\ Update(r, "follow up lead", {})
  /\ \E notes \in {seen[r].notes, NotesAfter(r)} :
       leads' = [leads EXCEPT ![req[r].row].notes = notes]
  /\ UNCHANGED <<customers, services, bookings, payments>>

updateBooking(r) ==
  /\ Update(r, "update booking", {})
  /\ \E c \in Customers, status \in {"PENDING", "CONFIRMED", "CANCELLED"} :
       /\ customers[c].state # "absent"
       /\ bookings' = [bookings EXCEPT ![req[r].row] =
                         [status |-> status, customer |-> c, from |-> None]]
  /\ UNCHANGED <<customers, leads, services, payments>>

\* Mutant: only a pending booking is cancelled, but the entry is always made.
cancelPendingBooking(r) ==
  /\ Update(r, "cancel booking", {"CANCELLED"})
  /\ bookings' = [bookings EXCEPT ![req[r].row].status = IF @ = "PENDING" THEN "CANCELLED" ELSE @]
  /\ UNCHANGED <<customers, leads, services, payments>>

\* Neither confirming nor cancelling looks at the status the booking has.
confirmBooking(r) ==
  /\ Update(r, "confirm booking", {"CONFIRMED"})
  /\ bookings' = [bookings EXCEPT ![req[r].row].status = "CONFIRMED"]
  /\ UNCHANGED <<customers, leads, services, payments>>

cancelBooking(r) ==
  /\ Update(r, "cancel booking", {"CANCELLED"})
  /\ bookings' = [bookings EXCEPT ![req[r].row].status = "CANCELLED"]
  /\ UNCHANGED <<customers, leads, services, payments>>

\* Mutant: the other date is cleared.
DatesOfStatus(r, status) ==
  CASE status = "paid" -> {"paidAt"} [] status = "refunded" -> {"refundedAt"} [] OTHER -> {}

\* The dates are written from the row that was read.
DatesAfter(r, status) ==
  seen[r].dates \cup (CASE status = "paid" -> {"paidAt"}
                        [] status = "refunded" -> {"refundedAt"}
                        [] OTHER -> {})

updatePaymentStatus(r) ==
  /\ \E status \in {"pending", "paid", "refunded"} :
       /\ Update(r, "set payment status", {status} \cup DatesAfter(r, status))
       /\ payments' = [payments EXCEPT ![req[r].row] =
                         [status |-> status, dates |-> DatesAfter(r, status)]]
  /\ UNCHANGED <<customers, leads, services, bookings>>

-------------------------------------------------------------------------------
(* Conversions of a lead.                                                  *)

\* Mutant: an archived customer does not count, as in the mock store.
HasLiveCustomer(lead) ==
  lead.customer # None /\ customers[lead.customer].state = "live"

HasCustomer(lead) == lead.customer # None

\* convertLeadToCustomer, by itself or within convertLeadToBooking: a lead that has
\* a customer keeps it, archived or not.
convertLeadToCustomer(r) ==
  LET lead == leads[req[r].row] IN
  /\ pc[r] = "convert"
  /\ \/ lead.state # "live" /\ AnswerNull(r)
     \/ /\ lead.state = "live" /\ HasCustomer(lead) /\ req[r].kind = "convert to customer"
        /\ AnswerNull(r)
     \/ /\ lead.state = "live" /\ HasCustomer(lead) /\ req[r].kind = "convert to booking"
        /\ customer' = [customer EXCEPT ![r] = lead.customer]
        /\ Goto(r, "book")
        /\ UNCHANGED <<tables, audit, req, seen, entry, made, history>>
     \/ /\ lead.state = "live" /\ ~HasCustomer(lead)
        /\ Goto(r, "make customer")
        /\ UNCHANGED <<tables, audit, locals, history>>

\* Mutant: the lead is only linked when it is won.
linkLater(r) ==
  /\ pc[r] = "link lead"
  /\ Owe(r, req[r].row, {})
  /\ Goto(r, "log link")
  /\ UNCHANGED <<tables, audit, req, customer, seen, made, history>>

linkLead(r) ==
  /\ pc[r] = "link lead"
  /\ leads' = [leads EXCEPT ![req[r].row].customer = customer[r]]
  /\ Owe(r, req[r].row, {"linked"})
  /\ Goto(r, "log link")
  /\ UNCHANGED <<customers, services, bookings, payments, audit, req, customer, seen, made,
                 history>>

convertLeadToBooking(r) ==
  /\ pc[r] = "find lead"
  /\ \/ leads[req[r].row].state # "live" /\ AnswerNull(r)
     \/ /\ leads[req[r].row].state = "live"
        /\ customer' = [customer EXCEPT ![r] = leads[req[r].row].customer]
        /\ Goto(r, "find service")
        /\ UNCHANGED <<tables, audit, req, seen, entry, made, history>>

findService(r) ==
  /\ pc[r] = "find service"
  /\ \E s \in Services :
       \/ services[s] = "archived" /\ AnswerNull(r)
       \/ /\ services[s] = "live" /\ Goto(r, "find customer")
          /\ UNCHANGED <<tables, audit, locals, history>>

getCustomerById(r) ==
  /\ pc[r] = "find customer"
  /\ IF customer[r] # None /\ Live(customer[r]) THEN Goto(r, "book") ELSE Goto(r, "convert")
  /\ UNCHANGED <<tables, audit, locals, history>>

bookLead(r) ==
  /\ pc[r] = "book"
  /\ \E b \in Bookings : InsertBooking(r, b, customer[r], "PENDING")
  /\ Goto(r, "log booking")
  /\ UNCHANGED <<customers, leads, services, payments, audit, req, customer, seen, history>>

winLead(r) ==
  /\ pc[r] = "win lead"
  /\ leads' = [leads EXCEPT ![req[r].row].won = TRUE, ![req[r].row].customer = customer[r]]
  /\ Owe(r, req[r].row, {"linked", "WON"})
  /\ Goto(r, "log")
  /\ UNCHANGED <<customers, services, bookings, payments, audit, req, customer, seen, made,
                 history>>

Step(r) ==
  \/ Start(r) \/ Fail(r) \/ appendAuditLog(r) \/ findFirst(r)
  \/ createCustomer(r) \/ createLead(r) \/ createBooking(r) \/ createPayment(r)
  \/ updateCustomer(r) \/ updateService(r) \/ rescheduleBooking(r)
  \/ scheduleLeadFollowUp(r) \/ softDeleteCustomer(r) \/ softDeleteService(r) \/ softDeleteLead(r)
  \/ updateLead(r) \/ appendLeadNote(r) \/ updateBooking(r) \/ confirmBooking(r)
  \/ cancelBooking(r) \/ updatePaymentStatus(r) \/ convertLeadToCustomer(r) \/ linkLead(r)
  \/ convertLeadToBooking(r) \/ findService(r) \/ getCustomerById(r) \/ bookLead(r)
  \/ winLead(r)

Next == \E r \in Requests : Step(r)

Spec == Init /\ [][Next]_vars
-------------------------------------------------------------------------------
\* Every variable has its type.
TypeOK ==
  /\ customers \in [Customers -> CustomerRow]
  /\ leads \in [Leads -> LeadRow]
  /\ services \in [Services -> States \ {"absent"}]
  /\ bookings \in [Bookings -> BookingRow]
  /\ payments \in [Payments -> PaymentRow]
  /\ audit \in [Rows -> SUBSET Facts]
  /\ pc \in [Requests -> PC]
  /\ req \in [Requests -> [kind: Kinds \cup {"none"}, row: Rows \cup {None}]]
  /\ customer \in [Requests -> Customers \cup {None}]
  /\ seen \in [Requests -> [notes: SUBSET Requests, dates: SUBSET Dates]]
  /\ entry \in [Requests -> [row: Rows \cup {None}, says: SUBSET Facts]]
  /\ made \in [Requests -> SUBSET Rows]
  /\ raced \in SUBSET Rows /\ interrupted \in SUBSET Rows

\* A lead is made into one customer, unless two requests worked on the lead at the
\* same time or one failed on it: conversions made one after the other, of both
\* kinds and with the customer archived in between, do not repeat the first.
ConversionMakesOneCustomer ==
  \A l \in Leads \ (raced \cup interrupted), c, d \in Customers :
    customers[c].from = l /\ customers[d].from = l => c = d

\* The bookings a lead was converted into are for the customer the lead points to,
\* also when conversions failed halfway, unless two requests worked on the lead at
\* the same time.
LeadMatchesBookings ==
  \A l \in Leads \ raced, b \in Bookings :
    bookings[b].from = l => bookings[b].customer = leads[l].customer

RowFacts(x) ==
  CASE x \in Customers -> {customers[x].state}
    [] x \in Leads -> {leads[x].state, IF leads[x].won THEN "WON" ELSE "OPEN"}
                        \cup (IF HasCustomer(leads[x]) THEN {"linked"} ELSE {})
    [] x \in Services -> {services[x]}
    [] x \in Bookings -> {bookings[x].status}
    [] x \in Payments -> {payments[x].status} \cup payments[x].dates

\* Once the requests on a row have ended, what the newest audit entry says of the row
\* is so, unless requests overlapped on the row or failed on it: then an entry may
\* be missing, or the entries may stand in another order than the writes.
AuditTellsRow ==
  \A x \in Rows \ (raced \cup interrupted) :
    (\A r \in Requests : x \notin WorksOn(r)) => audit[x] \subseteq RowFacts(x)

\* A payment's dates of receipt and refund, and a lead's notes, are not lost, unless
\* requests overlapped on the row: then an update writes back what it read before
\* the other's update.  Only the lead form may drop notes.
DatesAndNotesKept ==
  [][ /\ \A p \in Payments \ raced' : payments[p].dates \subseteq payments'[p].dates
      /\ \A l \in Leads \ raced' : \/ leads[l].notes \subseteq leads'[l].notes
                                  \/ \E r \in Requests : updateLead(r) ]_vars
================================================================================
