---------------------------- MODULE DeliveryQueue ----------------------------
(***************************************************************************)
(* What an outbox promises to producers and operators, whoever dispatches  *)
(* it: an item is delivered at least once, and only after it was enqueued; *)
(* each attempt that counts puts its outcome and one entry on record in    *)
(* the same step; success is recorded only of what was delivered, and is   *)
(* not queued again.  A step may settle several items.                     *)
(***************************************************************************)
EXTENDS Integers

CONSTANTS
  Items,
  Outgoing   \* items whose delivery leaves a trace outside

VARIABLES state, attempts, entries, delivered

Enqueued(i) == state[i] # "absent"

OffTheRecord(i) == attempts'[i] = attempts[i] /\ entries'[i] = entries[i]

Rest(i) == state'[i] = state[i] /\ OffTheRecord(i)

Enqueue(i) == ~Enqueued(i) /\ state'[i] = "pending" /\ OffTheRecord(i)

Replay(i) ==
  /\ state[i] \in {"pending", "retrying", "failed"}
  /\ state'[i] = "retrying"
  /\ OffTheRecord(i)

\* Another delivery may have settled the item meanwhile: it was delivered twice.
Succeed(i) ==
  /\ Enqueued(i) /\ (i \in Outgoing => i \in delivered)
  /\ state'[i] = "processed"
  /\ attempts'[i] = attempts[i] /\ entries'[i] = entries[i] + 1

Miss(i) ==
  /\ Enqueued(i)
  /\ state'[i] = "failed"
  /\ attempts'[i] = attempts[i] + 1 /\ entries'[i] = entries[i] + 1

\* What has been delivered is not taken back.
Deliveries ==
  /\ delivered \subseteq delivered'
  /\ \A i \in delivered' \ delivered : i \in Outgoing /\ Enqueued(i)

Init ==
  /\ state = [i \in Items |-> "absent"]
  /\ attempts = [i \in Items |-> 0]
  /\ entries = [i \in Items |-> 0]
  /\ delivered = {}

Next ==
  /\ Deliveries
  /\ state' = [i \in Items |-> state'[i]]
  /\ attempts' = [i \in Items |-> attempts'[i]]
  /\ entries' = [i \in Items |-> entries'[i]]
  /\ \A i \in Items : Rest(i) \/ Enqueue(i) \/ Replay(i) \/ Succeed(i) \/ Miss(i)

Spec == Init /\ [][Next]_<<state, attempts, entries, delivered>>
===============================================================================
