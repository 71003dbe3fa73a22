----------------------------- MODULE OutboxProofs -----------------------------
(***************************************************************************)
(* Proofs about Outbox, for any number of runs and events, any page size   *)
(* and any number of failures.  The properties speak of committed rows; a  *)
(* commit writes what the run has drafted, so IInv relates the draft of a  *)
(* locked row to the audit entries, the notes and the failures of the run  *)
(* that holds it.                                                          *)
(***************************************************************************)
EXTENDS Outbox, TLAPS

Busy(d) == pc[d] \in {"consume", "mark"}

\* A run consumes and marks a listed event, for which it has appended the audit
\* entry; what is to be marked processed has its note.
AtHand ==
  \A d \in Dispatchers :
    /\ Busy(d) => /\ current[d] \in Events /\ current[d] \in audited[d]
                  /\ events[current[d]].status # "absent"
    /\ pc[d] = "consume" => current[d] \in Feedback
    /\ pc[d] = "mark" /\ outcome[d] = "processed" /\ current[d] \in Feedback
         => current[d] \in notes
    /\ \A e \in batch[d] : events[e].status # "absent"

\* What update_event_status may have made of a row.
Marked(old, new) ==
  \/ new.status = "processed" /\ new.attempts = old.attempts
  \/ new.status = "failed" /\ new.attempts = old.attempts + 1

\* The draft of a locked row is one marking of the committed row, by a run that has
\* the audit entry, and the note of a processed feedback event.
RowLocks ==
  \A e \in Events :
    /\ lock[e] = Nobody => draft[e] = events[e]
    /\ \A d \in Dispatchers : lock[e] = d =>
         /\ pc[d] # "idle" /\ e \in audited[d]
         /\ events[e].status # "absent"
         /\ Marked(events[e], draft[e])
         /\ draft[e].status = "processed" /\ e \in Feedback => e \in notes
         /\ draft[e].status = "processed" \/ failures[d]

\* A run has locked every row it has an audit entry for, but the one at hand.
AuditedAreLocked ==
  \A d \in Dispatchers : pc[d] # "idle" =>
    \A e \in audited[d] : lock[e] = d \/ (Busy(d) /\ e = current[d])

IInv ==
  /\ TypeOK /\ AtHand /\ RowLocks /\ AuditedAreLocked
  /\ AuditTrail /\ ProcessedIsNoted

-------------------------------------------------------------------------------
\* The initial state satisfies the invariant: nothing is locked and nobody runs.
LEMMA InitIInv == Init => IInv
<1> SUFFICES ASSUME Init PROVE IInv
  OBVIOUS
<1> USE OutboxAssumption DEF Init
<1>1. TypeOK
  BY DEF TypeOK, EventRow, Status
<1>2. AtHand /\ RowLocks /\ AuditedAreLocked
  BY DEF AtHand, Busy, RowLocks, AuditedAreLocked
<1>3. AuditTrail /\ ProcessedIsNoted
  BY DEF AuditTrail, ProcessedIsNoted
<1> QED
  BY <1>1, <1>2, <1>3 DEF IInv

\* A statement of a producer or an operator writes a row nobody has locked, and
\* makes no event processed.
LEMMA RowWriteInv ==
  ASSUME IInv, NEW e \in Events, NEW row \in EventRow, lock[e] = Nobody,
         row.status \in {"pending", "retrying"}, row.attempts = events[e].attempts,
         events' = [events EXCEPT ![e] = row], draft' = [draft EXCEPT ![e] = row],
         UNCHANGED <<lock, audits, notes, jobRun, runVars>>
  PROVE  IInv'
<1> USE OutboxAssumption DEF IInv, runVars
<1>1. TypeOK'
  BY DEF TypeOK
<1>2. AtHand'
  BY DEF AtHand, Busy, TypeOK
<1>3. RowLocks'
  BY DEF RowLocks, TypeOK
<1>4. AuditedAreLocked'
  BY DEF AuditedAreLocked, Busy
<1>5. AuditTrail' /\ ProcessedIsNoted'
  BY DEF AuditTrail, ProcessedIsNoted, TypeOK
<1> QED
  BY <1>1, <1>2, <1>3, <1>4, <1>5

\* The same, as the code writes it: the UPDATE sets the status column only.
LEMMA StatusWriteInv ==
  ASSUME IInv, NEW e \in Events, NEW status \in {"pending", "retrying"},
         lock[e] = Nobody,
         events' = [events EXCEPT ![e].status = status],
         draft' = [draft EXCEPT ![e].status = status],
         UNCHANGED <<lock, audits, notes, jobRun, runVars>>
  PROVE  IInv'
<1> DEFINE row == [events[e] EXCEPT !.status = status]
<1>1. events[e] \in EventRow /\ draft[e] = events[e]
  BY DEF IInv, TypeOK, RowLocks
<1>2. /\ row \in EventRow /\ row.attempts = events[e].attempts
      /\ row.status \in {"pending", "retrying"}
  BY <1>1 DEF EventRow, Status
<1>3. events' = [events EXCEPT ![e] = row] /\ draft' = [draft EXCEPT ![e] = row]
  BY <1>1
<1> HIDE DEF row
<1> QED
  BY <1>2, <1>3, RowWriteInv

\* A rollback puts the committed rows back and frees them.
LEMMA RollbackInv ==
  ASSUME IInv, NEW d \in Dispatchers, Rollback(d)
  PROVE  IInv'
<1> USE OutboxAssumption DEF IInv, Rollback, EndRun
<1>1. TypeOK'
  BY DEF TypeOK
<1>2. AtHand'
  BY DEF AtHand, Busy, TypeOK
<1>3. RowLocks'
  BY DEF RowLocks, TypeOK
<1>4. AuditedAreLocked'
  BY DEF AuditedAreLocked, Busy, TypeOK
<1>5. AuditTrail' /\ ProcessedIsNoted'
  BY DEF AuditTrail, ProcessedIsNoted
<1> QED
  BY <1>1, <1>2, <1>3, <1>4, <1>5

\* The listing starts a run without locks or audit entries.
LEMMA ListInv ==
  ASSUME IInv, NEW d \in Dispatchers, ListPendingEvents(d)
  PROVE  IInv'
<1> USE OutboxAssumption DEF IInv, rowVars
<1>1. PICK page \in SUBSET Due : batch' = [batch EXCEPT ![d] = page]
  BY DEF ListPendingEvents
<1>2. /\ pc[d] = "idle" /\ pc' = [pc EXCEPT ![d] = "next"]
      /\ audited' = [audited EXCEPT ![d] = {}]
      /\ failures' = [failures EXCEPT ![d] = FALSE]
      /\ UNCHANGED <<rowVars, notes, current, outcome, jobRun>>
  BY DEF ListPendingEvents
<1>3. TypeOK'
  BY <1>1, <1>2 DEF TypeOK, Due
<1>4. AtHand'
  BY <1>1, <1>2 DEF AtHand, Busy, TypeOK, Due
<1>5. RowLocks'
  BY <1>2 DEF RowLocks, TypeOK
<1>6. AuditedAreLocked'
  BY <1>2 DEF AuditedAreLocked, Busy, TypeOK
<1>7. AuditTrail' /\ ProcessedIsNoted'
  BY <1>2 DEF AuditTrail, ProcessedIsNoted
<1> QED
  BY <1>3, <1>4, <1>5, <1>6, <1>7

\* The event at hand is the only one with an audit entry and no lock.
LEMMA AppendEntryInv ==
  ASSUME IInv, NEW d \in Dispatchers, AppendEntry(d)
  PROVE  IInv'
<1> USE OutboxAssumption DEF IInv, rowVars
<1>1. PICK e \in batch[d] :
        /\ pc[d] = "next"
        /\ current' = [current EXCEPT ![d] = e]
        /\ outcome' = [outcome EXCEPT ![d] = "processed"]
        /\ audited' = [audited EXCEPT ![d] = audited[d] \cup {e}]
        /\ pc' = [pc EXCEPT ![d] = IF e \in Feedback THEN "consume" ELSE "mark"]
        /\ UNCHANGED <<rowVars, notes, batch, failures, jobRun>>
  BY DEF AppendEntry
<1>2. e \in Events /\ events[e].status # "absent"
  BY DEF TypeOK, AtHand
<1>3. TypeOK'
  BY <1>1, <1>2 DEF TypeOK
<1>4. AtHand'
  BY <1>1, <1>2 DEF AtHand, Busy, TypeOK
<1>5. RowLocks'
  BY <1>1 DEF RowLocks, TypeOK
<1>6. AuditedAreLocked'
  BY <1>1, <1>2 DEF AuditedAreLocked, Busy, TypeOK
<1>7. AuditTrail' /\ ProcessedIsNoted'
  BY <1>1 DEF AuditTrail, ProcessedIsNoted
<1> QED
  BY <1>3, <1>4, <1>5, <1>6, <1>7

\* The consumer reports success only once the note is made.
LEMMA HandleFeedbackInv ==
  ASSUME IInv, NEW d \in Dispatchers, HandleFeedback(d)
  PROVE  IInv'
<1> USE OutboxAssumption DEF IInv, rowVars
<1>1. PICK created \in BOOLEAN, raised \in BOOLEAN :
        /\ created \/ raised
        /\ notes' = IF created THEN notes \cup {current[d]} ELSE notes
        /\ outcome' = [outcome EXCEPT ![d] = IF raised THEN "failed" ELSE "processed"]
  BY DEF HandleFeedback
<1>2. /\ pc[d] = "consume" /\ pc' = [pc EXCEPT ![d] = "mark"]
      /\ UNCHANGED <<rowVars, batch, current, audited, failures, jobRun>>
  BY DEF HandleFeedback
<1>3. current[d] \in Events
  BY <1>2 DEF AtHand, Busy
<1>4. notes \subseteq notes' /\ notes' \subseteq Events
  BY <1>1, <1>3 DEF TypeOK
<1>5. outcome'[d] = "processed" => current[d] \in notes'
  BY <1>1 DEF TypeOK
<1>6. TypeOK'
  BY <1>1, <1>2, <1>4 DEF TypeOK
<1>7. AtHand'
  BY <1>1, <1>2, <1>4, <1>5 DEF AtHand, Busy, TypeOK
<1>8. RowLocks'
  BY <1>2, <1>4 DEF RowLocks, TypeOK
<1>9. AuditedAreLocked'
  BY <1>2 DEF AuditedAreLocked, Busy, TypeOK
<1>10. AuditTrail' /\ ProcessedIsNoted'
  BY <1>2, <1>4 DEF AuditTrail, ProcessedIsNoted
<1> QED
  BY <1>6, <1>7, <1>8, <1>9, <1>10

\* Marking locks the row of the event at hand, with what the consumer did.
LEMMA UpdateEventStatusInv ==
  ASSUME IInv, NEW d \in Dispatchers, UpdateEventStatus(d)
  PROVE  IInv'
<1> USE OutboxAssumption DEF IInv
<1> DEFINE e == current[d]
           attempts == IF outcome[d] = "failed" THEN events[e].attempts + 1
                                                ELSE events[e].attempts
           row == [status |-> outcome[d], attempts |-> attempts]
<1>1. /\ pc[d] = "mark" /\ e \in Events /\ lock[e] = Nobody
      /\ e \in audited[d] /\ events[e].status # "absent"
      /\ outcome[d] = "processed" /\ e \in Feedback => e \in notes
      /\ outcome[d] \in {"processed", "failed"} /\ events[e] \in EventRow
      /\ draft[e] = events[e]
  BY DEF UpdateEventStatus, AtHand, Busy, TypeOK, RowLocks
<1>2. row \in EventRow /\ Marked(events[e], row)
  BY <1>1 DEF EventRow, Status, Marked
<1>3. draft' = [draft EXCEPT ![e] = row]
  <2>1. draft' = [draft EXCEPT ![e] = [draft[e] EXCEPT !.status = outcome[d],
                                         !.attempts = attempts]]
    BY <1>1 DEF UpdateEventStatus, TypeOK
  <2>2. [draft[e] EXCEPT !.status = outcome[d], !.attempts = attempts] = row
    <3> DEFINE new == [draft[e] EXCEPT !.status = outcome[d], !.attempts = attempts]
    <3>1. draft[e] \in EventRow /\ attempts \in Nat /\ outcome[d] \in Status
      BY <1>1 DEF EventRow, Status
    <3> HIDE DEF attempts
    <3>2. new \in EventRow /\ new.status = outcome[d] /\ new.attempts = attempts
      BY <3>1 DEF EventRow
    <3> HIDE DEF new
    <3>3. new = [status |-> outcome[d], attempts |-> attempts]
      BY <3>2 DEF EventRow
    <3> QED
      BY <3>3 DEF new
  <2> QED
    BY <2>1, <2>2
<1>4. /\ lock' = [lock EXCEPT ![e] = d]
      /\ failures' = [failures EXCEPT ![d] = failures[d] \/ outcome[d] = "failed"]
      /\ batch' = [batch EXCEPT ![d] = batch[d] \ {e}]
      /\ pc' = [pc EXCEPT ![d] = "next"]
      /\ UNCHANGED <<events, audits, notes, current, outcome, audited, jobRun>>
  BY DEF UpdateEventStatus
<1>5. row.status = outcome[d]
  OBVIOUS
<1> HIDE DEF row, attempts
<1>6. TypeOK'
  BY <1>1, <1>2, <1>3, <1>4 DEF TypeOK
<1>7. AtHand'
  BY <1>4 DEF AtHand, Busy, TypeOK
<1>8. RowLocks'
  <2>1. ASSUME NEW f \in Events
        PROVE  /\ f # e => /\ draft'[f] = draft[f] /\ lock'[f] = lock[f]
               /\ f = e => /\ draft'[f] = row /\ lock'[f] = d
    BY <1>1, <1>3, <1>4 DEF TypeOK
  <2>2. /\ pc'[d] = "next" /\ \A c \in Dispatchers \ {d} : pc'[c] = pc[c]
        /\ failures'[d] = (failures[d] \/ outcome[d] = "failed")
        /\ \A c \in Dispatchers \ {d} : failures'[c] = failures[c]
    BY <1>4 DEF TypeOK
  <2>3. ASSUME NEW f \in Events
        PROVE  /\ lock'[f] = Nobody => draft'[f] = events'[f]
               /\ \A c \in Dispatchers : lock'[f] = c =>
                    /\ pc'[c] # "idle" /\ f \in audited'[c]
                    /\ events'[f].status # "absent"
                    /\ Marked(events'[f], draft'[f])
                    /\ draft'[f].status = "processed" /\ f \in Feedback => f \in notes'
                    /\ draft'[f].status = "processed" \/ failures'[c]
    <3>1. CASE f = e
      <4>1. draft'[f] = row /\ lock'[f] = d /\ lock'[f] # Nobody
        BY <2>1, <3>1
      <4>2. row.status = "processed" \/ failures'[d]
        BY <1>1, <1>5, <2>2, Zenon
      <4> QED
        BY <1>1, <1>2, <1>4, <1>5, <2>2, <3>1, <4>1, <4>2
    <3>2. CASE f # e
      <4>1. draft'[f] = draft[f] /\ lock'[f] = lock[f]
        BY <2>1, <3>2
      <4>2. \A c \in Dispatchers : failures[c] => failures'[c]
        BY <2>2, Zenon
      <4>3. \A c \in Dispatchers : pc[c] # "idle" => pc'[c] # "idle"
        BY <2>2
      <4> QED
        BY <1>4, <4>1, <4>2, <4>3 DEF RowLocks
    <3> QED
      BY <3>1, <3>2
  <2> QED
    BY <2>3 DEF RowLocks
<1>9. AuditedAreLocked'
  BY <1>1, <1>4 DEF AuditedAreLocked, Busy, TypeOK
<1>10. AuditTrail' /\ ProcessedIsNoted'
  BY <1>4 DEF AuditTrail, ProcessedIsNoted
<1> QED
  BY <1>6, <1>7, <1>8, <1>9, <1>10

\* The commit of a run publishes its drafts and its audit entries together.
LEMMA FinishRunInv ==
  ASSUME IInv, NEW d \in Dispatchers, FinishRun(d)
  PROVE  IInv'
<1> USE OutboxAssumption DEF IInv, FinishRun, EndRun
<1>1. TypeOK'
  BY DEF TypeOK
<1>2. AtHand'
  BY DEF AtHand, Busy, RowLocks, Marked, TypeOK
<1>3. RowLocks'
  BY DEF RowLocks, TypeOK
<1>4. AuditedAreLocked'
  BY DEF AuditedAreLocked, Busy, TypeOK
<1>5. AuditTrail'
  BY DEF AuditTrail, RowLocks, Marked, TypeOK, EventRow
<1>6. ProcessedIsNoted'
  BY DEF ProcessedIsNoted, RowLocks, TypeOK
<1> QED
  BY <1>1, <1>2, <1>3, <1>4, <1>5, <1>6

\* Every step keeps the invariant.
LEMMA NextInv == IInv /\ [Next]_vars => IInv'
<1> SUFFICES ASSUME IInv, [Next]_vars PROVE IInv'
  OBVIOUS
<1> USE OutboxAssumption
<1>1. ASSUME NEW e \in Events, EnqueueEvent(e) PROVE IInv'
  <2>1. lock[e] = Nobody
    BY <1>1 DEF EnqueueEvent, IInv, TypeOK, RowLocks
  <2> QED
    BY <1>1, <2>1, StatusWriteInv DEF EnqueueEvent
<1>2. ASSUME NEW e \in Events, RequeueEvent(e) PROVE IInv'
  BY <1>2, StatusWriteInv DEF RequeueEvent
<1>3. ASSUME NEW d \in Dispatchers, Abort(d) \/ DeadlockVictim(d) PROVE IInv'
  BY <1>3, RollbackInv DEF Abort, DeadlockVictim
<1>4. CASE UNCHANGED vars
  <2> USE <1>4 DEF vars, IInv
  <2>1. TypeOK' /\ AtHand'
    BY DEF TypeOK, AtHand, Busy
  <2>2. RowLocks' /\ AuditedAreLocked'
    BY DEF RowLocks, AuditedAreLocked, Busy
  <2>3. AuditTrail' /\ ProcessedIsNoted'
    BY DEF AuditTrail, ProcessedIsNoted
  <2> QED
    BY <2>1, <2>2, <2>3
<1> QED
  BY <1>1, <1>2, <1>3, <1>4, ListInv, AppendEntryInv, HandleFeedbackInv,
     UpdateEventStatusInv, FinishRunInv DEF Next, Step

\* Every reachable state satisfies the inductive invariant.
LEMMA Invariance == Spec => []IInv
BY InitIInv, NextInv, PTL DEF Spec

-------------------------------------------------------------------------------
(* Theorems.                                                               *)

\* In every reachable state of the outbox each variable has its type.
THEOREM TypeCorrect == Spec => []TypeOK
<1>1. IInv => TypeOK
  BY DEF IInv
<1> QED
  BY <1>1, Invariance, PTL

\* Every outcome the rows record has its audit entries.
THEOREM OutcomesAudited == Spec => []AuditTrail
<1>1. IInv => AuditTrail
  BY DEF IInv
<1> QED
  BY <1>1, Invariance, PTL

\* A feedback event marked processed has its note in Zoho.
THEOREM ProcessedHasNote == Spec => []ProcessedIsNoted
<1>1. IInv => ProcessedIsNoted
  BY DEF IInv
<1> QED
  BY <1>1, Invariance, PTL

\* How one step changes the committed row of an event and its audit entries: not at
\* all, by a producer, by an operator, or by the commit of a run that took the event.
RowStep(e) ==
  \/ events'[e] = events[e] /\ audits'[e] = audits[e]
  \/ /\ events[e].status = "absent" /\ events'[e].status = "pending"
     /\ events'[e].attempts = events[e].attempts /\ audits'[e] = audits[e]
  \/ /\ events[e].status \in {"pending", "retrying", "failed"}
     /\ events'[e].status = "retrying"
     /\ events'[e].attempts = events[e].attempts /\ audits'[e] = audits[e]
  \/ /\ events[e].status # "absent" /\ Marked(events[e], events'[e])
     /\ events'[e].status = "processed" /\ e \in Feedback => e \in notes
     /\ audits'[e] = audits[e] + 1

\* Notes are added by the consumer alone, of an event that was committed.
LEMMA NotesStay ==
  ASSUME IInv, [Next]_vars
  PROVE  /\ notes \subseteq notes'
         /\ \A e \in notes' \ notes : e \in Feedback /\ events[e].status # "absent"
<1> USE OutboxAssumption
<1>1. CASE notes' = notes
  BY <1>1
<1>2. ASSUME NEW d \in Dispatchers, HandleFeedback(d)
      PROVE  /\ notes \subseteq notes'
             /\ \A e \in notes' \ notes : e \in Feedback /\ events[e].status # "absent"
  <2>1. current[d] \in Feedback /\ events[current[d]].status # "absent"
    BY <1>2 DEF HandleFeedback, IInv, AtHand, Busy
  <2>2. notes' = notes \/ notes' = notes \cup {current[d]}
    BY <1>2 DEF HandleFeedback
  <2> QED
    BY <2>1, <2>2
<1>3. ASSUME NEW d \in Dispatchers,
             \/ ListPendingEvents(d) \/ AppendEntry(d) \/ UpdateEventStatus(d)
             \/ FinishRun(d) \/ Abort(d) \/ DeadlockVictim(d)
      PROVE  notes' = notes
  BY <1>3 DEF ListPendingEvents, AppendEntry, UpdateEventStatus, FinishRun,
              Abort, DeadlockVictim, Rollback
<1>4. ASSUME NEW e \in Events, EnqueueEvent(e) \/ RequeueEvent(e)
      PROVE  notes' = notes
  BY <1>4 DEF EnqueueEvent, RequeueEvent
<1> QED
  BY <1>1, <1>2, <1>3, <1>4 DEF Next, Step, vars

\* The commit of a run settles each event it took, with one entry, and no other.
LEMMA FinishSettles ==
  ASSUME IInv, NEW d \in Dispatchers, FinishRun(d), NEW e \in Events
  PROVE  RowStep(e)
<1> USE OutboxAssumption
<1>1. e \in audited[d] <=> lock[e] = d
  BY DEF FinishRun, IInv, AuditedAreLocked, Busy, RowLocks
<1>2. /\ events'[e] = IF lock[e] = d THEN draft[e] ELSE events[e]
      /\ audits'[e] = IF e \in audited[d] THEN audits[e] + 1 ELSE audits[e]
  BY DEF FinishRun
<1>3. CASE lock[e] = d
  <2>1. /\ events[e].status # "absent" /\ Marked(events[e], draft[e])
        /\ draft[e].status = "processed" /\ e \in Feedback => e \in notes
    BY <1>3 DEF IInv, RowLocks
  <2> QED
    BY <1>1, <1>2, <1>3, <2>1 DEF RowStep
<1>4. CASE lock[e] # d
  BY <1>1, <1>2, <1>4 DEF RowStep
<1> QED
  BY <1>3, <1>4

\* Every step changes every row so.
LEMMA RowsStep ==
  ASSUME IInv, [Next]_vars, NEW e \in Events
  PROVE  RowStep(e)
<1> USE OutboxAssumption
<1>1. CASE events' = events /\ audits' = audits
  BY <1>1 DEF RowStep
<1>2. ASSUME NEW f \in Events, EnqueueEvent(f) \/ RequeueEvent(f) PROVE RowStep(e)
  <2>1. /\ audits' = audits
        /\ e # f => events'[e] = events[e]
    BY <1>2 DEF EnqueueEvent, RequeueEvent, IInv, TypeOK
  <2>2. CASE EnqueueEvent(f) /\ e = f
    <3>1. /\ events[e].status = "absent" /\ events'[e].status = "pending"
          /\ events'[e].attempts = events[e].attempts
      BY <2>2 DEF EnqueueEvent, IInv, TypeOK, EventRow
    <3> QED
      BY <2>1, <3>1 DEF RowStep
  <2>3. CASE RequeueEvent(f) /\ e = f
    <3>1. /\ events[e].status \in {"pending", "retrying", "failed"}
          /\ events'[e].status = "retrying"
          /\ events'[e].attempts = events[e].attempts
      BY <2>3 DEF RequeueEvent, IInv, TypeOK, EventRow
    <3> QED
      BY <2>1, <3>1 DEF RowStep
  <2> QED
    BY <1>2, <2>1, <2>2, <2>3 DEF RowStep
<1>3. ASSUME NEW d \in Dispatchers,
             \/ ListPendingEvents(d) \/ AppendEntry(d) \/ HandleFeedback(d)
             \/ UpdateEventStatus(d) \/ Abort(d) \/ DeadlockVictim(d)
      PROVE  events' = events /\ audits' = audits
  BY <1>3 DEF ListPendingEvents, AppendEntry, HandleFeedback, UpdateEventStatus,
              Abort, DeadlockVictim, Rollback, rowVars
<1> QED
  BY <1>1, <1>2, <1>3, FinishSettles DEF Next, Step, vars

\* Rows, audit log and notes behave as the queue with delivery at least once.
THEOREM OutboxImplementsQueue == Spec => ImplementsDeliveryQueue
<1> DEFINE state == [e \in Events |-> events[e].status]
           attempts == [e \in Events |-> events[e].attempts]
<1>1. Init => Queue!Init
  BY DEF Init, Queue!Init
<1>2. IInv /\ IInv' /\ [Next]_vars => [Queue!Next]_<<state, attempts, audits, notes>>
  <2> SUFFICES ASSUME IInv, IInv', [Next]_vars PROVE Queue!Next
    OBVIOUS
  <2>1. Queue!Deliveries
    <3>1. \A e \in Feedback : state[e] = events[e].status
      BY OutboxAssumption
    <3> HIDE DEF state
    <3> QED
      BY <3>1, NotesStay DEF Queue!Deliveries, Queue!Enqueued, state
  <2>2. /\ state' = [e \in Events |-> events'[e].status]
        /\ attempts' = [e \in Events |-> events'[e].attempts]
        /\ audits' = [e \in Events |-> audits'[e]]
    BY DEF IInv, TypeOK
  <2>3. ASSUME NEW e \in Events
        PROVE  \/ Queue!Rest(e) \/ Queue!Enqueue(e) \/ Queue!Replay(e)
               \/ Queue!Succeed(e) \/ Queue!Miss(e)
    <3>1. /\ state[e] = events[e].status /\ attempts[e] = events[e].attempts
          /\ state'[e] = events'[e].status /\ attempts'[e] = events'[e].attempts
      BY <2>2
    <3> QED
      BY <3>1, RowsStep
         DEF RowStep, Marked, Queue!Rest, Queue!Enqueue, Queue!Replay, Queue!Succeed,
             Queue!Miss, Queue!OffTheRecord, Queue!Enqueued
  <2> QED
    BY <2>1, <2>2, <2>3 DEF Queue!Next
<1> QED
  BY <1>1, <1>2, Invariance, PTL DEF Spec, ImplementsDeliveryQueue, Queue!Spec

\* A job run recorded as completed has processed every event it took.
THEOREM RunsTellOutcome == Spec => RunTellsOutcome
<1> DEFINE Told == \A d \in Dispatchers :
             pc[d] # "idle" /\ pc'[d] = "idle" /\ audits' # audits
               /\ jobRun'[d] = "completed" =>
               \A e \in audited[d] : events'[e].status = "processed"
<1>1. ASSUME IInv, Next PROVE Told
  <2>1. CASE audits' = audits
    BY <2>1
  <2>2. ASSUME NEW d \in Dispatchers, FinishRun(d) PROVE Told
    <3> USE OutboxAssumption
    <3>1. SUFFICES ASSUME jobRun'[d] = "completed", NEW e \in audited[d]
                   PROVE  events'[e].status = "processed"
      BY <1>1, <2>2 DEF FinishRun, EndRun, IInv, TypeOK
    <3>2. ~failures[d] /\ e \in Events /\ lock[e] = d
      BY <1>1, <2>2, <3>1 DEF FinishRun, IInv, TypeOK, AuditedAreLocked, Busy
    <3> QED
      BY <1>1, <2>2, <3>2 DEF FinishRun, IInv, RowLocks
  <2>3. ASSUME NEW d \in Dispatchers,
               \/ ListPendingEvents(d) \/ AppendEntry(d) \/ HandleFeedback(d)
               \/ UpdateEventStatus(d) \/ Abort(d) \/ DeadlockVictim(d)
        PROVE  audits' = audits
    BY <2>3 DEF ListPendingEvents, AppendEntry, HandleFeedback, UpdateEventStatus,
                Abort, DeadlockVictim, Rollback, rowVars
  <2>4. ASSUME NEW e \in Events, EnqueueEvent(e) \/ RequeueEvent(e)
        PROVE  audits' = audits
    BY <2>4 DEF EnqueueEvent, RequeueEvent
  <2> QED
    BY <1>1, <2>1, <2>2, <2>3, <2>4 DEF Next, Step
<1>2. IInv /\ [Next]_vars => [Told]_vars
  BY <1>1
<1> QED
  BY <1>2, Invariance, PTL DEF Spec, RunTellsOutcome
===============================================================================
