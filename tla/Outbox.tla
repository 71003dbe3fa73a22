-------------------------------- MODULE Outbox --------------------------------
(***************************************************************************)
(* The transactional outbox: producers enqueue events, dispatch runs       *)
(* consume them, operators replay them.                                    *)
(*                                                                         *)
(* A dispatch run is one database session from the listing of the due      *)
(* events to the commit of its job_runs row.  For each event it appends an *)
(* audit entry, calls the consumer, which may write a note in Zoho, and    *)
(* updates the event's row, which it keeps locked until the run ends.  The *)
(* note is outside the transaction: a rollback does not take it back.      *)
(***************************************************************************)
EXTENDS Integers, FiniteSets

CONSTANTS
  Dispatchers,  \* dispatch runs that may overlap
  Events,       \* outbox_events rows
  Feedback,     \* booking_feedback.recorded events of contacts Zoho knows
  Limit,        \* page size of list_pending_events
  MaxAttempts,  \* bound: an event is not replayed after so many failures
  Nobody        \* no lock holder, no event at hand

ASSUME OutboxAssumption ==
  /\ Feedback \subseteq Events
  /\ Limit \in Nat \ {0} /\ MaxAttempts \in Nat
  /\ Nobody \notin Dispatchers \cup Events

VARIABLES
  events, draft, lock,  \* committed rows, their writer's version, its run
  audits,               \* committed "outbox.event.dispatched" entries of each event
  notes,                \* events with a note, or several, in Zoho
  pc,                   \* next statement of each run
  batch,                \* listed events a run has still to take
  current, outcome,     \* event at hand, and what its consumer did
  audited,              \* events whose audit entry the run has appended
  failures,             \* whether an event of the run has failed
  jobRun                \* committed status of the last job_runs row of each run

runVars == <<pc, batch, current, outcome, audited, failures>>
rowVars == <<events, draft, lock, audits>>
vars == <<events, draft, lock, audits, notes, pc, batch, current, outcome,
          audited, failures, jobRun>>

Status == {"absent", "pending", "retrying", "failed", "processed"}
EventRow == [status: Status, attempts: Nat]

Init ==
  /\ events = [e \in Events |-> [status |-> "absent", attempts |-> 0]]
  /\ draft = events
  /\ lock = [e \in Events |-> Nobody]
  /\ audits = [e \in Events |-> 0]
  /\ notes = {}
  /\ pc = [d \in Dispatchers |-> "idle"]
  /\ batch = [d \in Dispatchers |-> {}]
  /\ current = [d \in Dispatchers |-> Nobody]
  /\ outcome = [d \in Dispatchers |-> "processed"]
  /\ audited = [d \in Dispatchers |-> {}]
  /\ failures = [d \in Dispatchers |-> FALSE]
  /\ jobRun = [d \in Dispatchers |-> "none"]

-------------------------------------------------------------------------------
(* Producers and operators: one statement and its commit.                  *)

\* The row of an event appears when the transaction of its producer commits.
EnqueueEvent(e) ==
  /\ events[e].status = "absent"
  /\ events' = [events EXCEPT ![e].status = "pending"]
  /\ draft' = [draft EXCEPT ![e].status = "pending"]
  /\ UNCHANGED <<lock, audits, notes, jobRun, runVars>>

\* Mutant: whatever the operator saw on the screen is replayed.
RequeueAny(e) ==
  /\ lock[e] = Nobody
  /\ events[e].status # "absent"
  /\ events[e].attempts < MaxAttempts
  /\ events' = [events EXCEPT ![e].status = "retrying"]
  /\ draft' = [draft EXCEPT ![e].status = "retrying"]
  /\ UNCHANGED <<lock, audits, notes, jobRun, runVars>>

\* The UPDATE waits for a run that has the row, then looks at the status again.
RequeueEvent(e) ==
  /\ lock[e] = Nobody
  /\ events[e].status \in {"failed", "retrying", "pending"}
  /\ events[e].attempts < MaxAttempts
  /\ events' = [events EXCEPT ![e].status = "retrying"]
  /\ draft' = [draft EXCEPT ![e].status = "retrying"]
  /\ UNCHANGED <<lock, audits, notes, jobRun, runVars>>

-------------------------------------------------------------------------------
(* A dispatch run.                                                         *)

Due == {e \in Events : events[e].status \in {"pending", "retrying"}}

\* The listing locks nothing, so runs that overlap list the same events.  A full
\* page stands for the oldest ones: available_at is not modelled.
ListPendingEvents(d) ==
  /\ pc[d] = "idle"
  /\ \E page \in SUBSET Due :
       /\ page = Due \/ Cardinality(page) = Limit
       /\ Cardinality(page) <= Limit
       /\ batch' = [batch EXCEPT ![d] = page]
  /\ pc' = [pc EXCEPT ![d] = "next"]
  /\ audited' = [audited EXCEPT ![d] = {}]
  /\ failures' = [failures EXCEPT ![d] = FALSE]
  /\ UNCHANGED <<rowVars, notes, current, outcome, jobRun>>

\* Mutant: the audit entry is left to the consumer's success.
AppendNothing(d) ==
  \E e \in batch[d] :
    /\ pc[d] = "next"
    /\ current' = [current EXCEPT ![d] = e]
    /\ outcome' = [outcome EXCEPT ![d] = "processed"]
    /\ audited' = [audited EXCEPT ![d] = IF e \in Feedback THEN @ ELSE @ \cup {e}]
    /\ pc' = [pc EXCEPT ![d] = IF e \in Feedback THEN "consume" ELSE "mark"]
    /\ UNCHANGED <<rowVars, notes, batch, failures, jobRun>>

\* dispatch_phase2_outbox_event appends the audit entry, and is done with every
\* event but feedback.
AppendEntry(d) ==
  \E e \in batch[d] :
    /\ pc[d] = "next"
    /\ current' = [current EXCEPT ![d] = e]
    /\ outcome' = [outcome EXCEPT ![d] = "processed"]
    /\ audited' = [audited EXCEPT ![d] = @ \cup {e}]
    /\ pc' = [pc EXCEPT ![d] = IF e \in Feedback THEN "consume" ELSE "mark"]
    /\ UNCHANGED <<rowVars, notes, batch, failures, jobRun>>

\* Mutant: the consumer logs an HTTP error and returns.
ConsumeQuietly(d) ==
  /\ pc[d] = "consume"
  /\ \E created \in BOOLEAN :
       notes' = IF created THEN notes \cup {current[d]} ELSE notes
  /\ outcome' = [outcome EXCEPT ![d] = "processed"]
  /\ pc' = [pc EXCEPT ![d] = "mark"]
  /\ UNCHANGED <<rowVars, batch, current, audited, failures, jobRun>>

\* create_note succeeds, or raises before or after Zoho has made the note.
HandleFeedback(d) ==
  /\ pc[d] = "consume"
  /\ \E created, raised \in BOOLEAN :
       /\ created \/ raised
       /\ notes' = IF created THEN notes \cup {current[d]} ELSE notes
       /\ outcome' = [outcome EXCEPT ![d] = IF raised THEN "failed" ELSE "processed"]
  /\ pc' = [pc EXCEPT ![d] = "mark"]
  /\ UNCHANGED <<rowVars, batch, current, audited, failures, jobRun>>

\* Mutant: a failed event is tried again in the same run.
MarkAndRetry(d) ==
  LET e == current[d] IN
  /\ pc[d] = "mark"
  /\ lock[e] \in {d, Nobody}
  /\ draft' = [draft EXCEPT ![e].status = outcome[d]]
  /\ lock' = [lock EXCEPT ![e] = d]
  /\ failures' = [failures EXCEPT ![d] = @ \/ outcome[d] = "failed"]
  /\ batch' = [batch EXCEPT ![d] = IF outcome[d] = "failed" THEN @ ELSE @ \ {e}]
  /\ pc' = [pc EXCEPT ![d] = "next"]
  /\ UNCHANGED <<events, audits, notes, current, outcome, audited, jobRun>>

\* update_event_status: unconditional, on the newest version of the row.
UpdateEventStatus(d) ==
  LET e == current[d] IN
  /\ pc[d] = "mark"
  /\ lock[e] = Nobody
  /\ draft' = [draft EXCEPT ![e].status = outcome[d],
                            ![e].attempts = IF outcome[d] = "failed" THEN @ + 1 ELSE @]
  /\ lock' = [lock EXCEPT ![e] = d]
  /\ failures' = [failures EXCEPT ![d] = @ \/ outcome[d] = "failed"]
  /\ batch' = [batch EXCEPT ![d] = @ \ {e}]
  /\ pc' = [pc EXCEPT ![d] = "next"]
  /\ UNCHANGED <<events, audits, notes, current, outcome, audited, jobRun>>

EndRun(d) ==
  /\ pc' = [pc EXCEPT ![d] = "idle"]
  /\ lock' = [e \in Events |-> IF lock[e] = d THEN Nobody ELSE lock[e]]
  /\ UNCHANGED <<batch, current, outcome, audited, failures>>

\* Mutant: only an exception counts as a failure of the run.
FinishAlwaysCompleted(d) ==
  /\ pc[d] = "next"
  /\ batch[d] = {}
  /\ events' = [e \in Events |-> IF lock[e] = d THEN draft[e] ELSE events[e]]
  /\ audits' = [e \in Events |-> IF e \in audited[d] THEN audits[e] + 1 ELSE audits[e]]
  /\ jobRun' = [jobRun EXCEPT ![d] = "completed"]
  /\ EndRun(d)
  /\ UNCHANGED <<draft, notes>>

\* mark_finished and the commit of the route.
FinishRun(d) ==
  /\ pc[d] = "next"
  /\ batch[d] = {}
  /\ events' = [e \in Events |-> IF lock[e] = d THEN draft[e] ELSE events[e]]
  /\ audits' = [e \in Events |-> IF e \in audited[d] THEN audits[e] + 1 ELSE audits[e]]
  /\ jobRun' = [jobRun EXCEPT
       ![d] = IF failures[d] THEN "completed_with_failures" ELSE "completed"]
  /\ EndRun(d)
  /\ UNCHANGED <<draft, notes>>

Rollback(d) ==
  /\ draft' = [e \in Events |-> IF lock[e] = d THEN events[e] ELSE draft[e]]
  /\ EndRun(d)
  /\ UNCHANGED <<events, audits, notes, jobRun>>

\* A database error, which update_event_status and mark_finished meet again in
\* the aborted transaction, or the death of the process.
Abort(d) == pc[d] # "idle" /\ Rollback(d)

WaitsFor(d, other) ==
  /\ d # other
  /\ pc[d] = "mark"
  /\ lock[current[d]] = other

\* PostgreSQL cancels the UPDATE of a run on a cycle of runs that wait.
DeadlockVictim(d) ==
  /\ \E cycle \in SUBSET Dispatchers :
       /\ d \in cycle
       /\ \A x \in cycle : \E y \in cycle : WaitsFor(x, y)
       /\ \A x \in cycle : \E y \in cycle : WaitsFor(y, x)
  /\ Rollback(d)

-------------------------------------------------------------------------------
Step(d) ==
  AppendEntry(d) \/ HandleFeedback(d) \/ UpdateEventStatus(d) \/ FinishRun(d)

Next ==
  \/ \E e \in Events : EnqueueEvent(e) \/ RequeueEvent(e)
  \/ \E d \in Dispatchers :
       ListPendingEvents(d) \/ Step(d) \/ Abort(d) \/ DeadlockVictim(d)

Spec == Init /\ [][Next]_vars

\* A run goes on as long as it can: its HTTP calls have a timeout, row locks are
\* granted in order, and PostgreSQL breaks deadlocks.
Fairness == \A d \in Dispatchers : SF_vars(Step(d)) /\ WF_vars(DeadlockVictim(d))

FairSpec == Spec /\ Fairness

-------------------------------------------------------------------------------
(* Properties.                                                             *)

\* Types of the variables.
TypeOK ==
  /\ events \in [Events -> EventRow] /\ draft \in [Events -> EventRow]
  /\ lock \in [Events -> Dispatchers \cup {Nobody}]
  /\ audits \in [Events -> Nat] /\ notes \subseteq Events
  /\ pc \in [Dispatchers -> {"idle", "next", "consume", "mark"}]
  /\ batch \in [Dispatchers -> SUBSET Events]
  /\ current \in [Dispatchers -> Events \cup {Nobody}]
  /\ outcome \in [Dispatchers -> {"processed", "failed"}]
  /\ audited \in [Dispatchers -> SUBSET Events]
  /\ failures \in [Dispatchers -> BOOLEAN]
  /\ jobRun \in [Dispatchers -> {"none", "completed", "completed_with_failures"}]

\* The audit trail accounts for every recorded outcome: each counted failure has
\* its "outbox.event.dispatched" entry, and a processed event has one more,
\* however runs that took the same event overlap or abort.
AuditTrail ==
  \A e \in Events :
    /\ events[e].attempts <= audits[e]
    /\ events[e].status = "processed" => events[e].attempts < audits[e]

\* A feedback event is only marked processed once its note is in Zoho
\* (handle_booking_feedback_recorded raises on every failure).
ProcessedIsNoted ==
  \A e \in Feedback : events[e].status = "processed" => e \in notes

\* Rows, audit log and notes together are a queue with delivery at least once
\* (DeliveryQueue), however runs overlap and abort: an outcome and its one audit
\* entry appear in the same commit (workers/outbox.py), a note is made of committed
\* events only, and no replay puts a processed event back in the queue, not even one
\* that waited for the run that processed it (requeue_event's WHERE clause).
Queue == INSTANCE DeliveryQueue WITH
  Items <- Events,
  Outgoing <- Feedback,
  state <- [e \in Events |-> events[e].status],
  attempts <- [e \in Events |-> events[e].attempts],
  entries <- audits,
  delivered <- notes
ImplementsDeliveryQueue == Queue!Spec

\* A job_runs row says "completed" only if every event the run took is processed
\* in the same commit.
RunTellsOutcome ==
  [][\A d \in Dispatchers :
       pc[d] # "idle" /\ pc'[d] = "idle" /\ audits' # audits /\ jobRun'[d] = "completed" =>
         \A e \in audited[d] : events'[e].status = "processed"]_vars

\* Every dispatch run ends, whichever rows the runs lock in whichever order.
RunsEnd == \A d \in Dispatchers : pc[d] # "idle" ~> pc[d] = "idle"
===============================================================================
