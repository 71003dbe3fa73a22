----------------------------- MODULE MCChessSlots -----------------------------
(* Small instances of ChessSlots: which requests the clients issue.        *)
EXTENDS ChessSlots, TLC

\* Bookings made, cancelled and given new meetings while the operator publishes and
\* edits slots.
BookingWorkload == {"create", "cancel", "regenerate", "publish", "admin"}

\* Bookings moved between published slots.
MovingWorkload == {"create", "reschedule", "confirm"}

\* Bookings moved, or not, to a slot the operator edits and cancels meanwhile.
EditingWorkload == {"create", "reschedule", "confirm", "admin"}

\* Publications of the same slots, which lock them in any order, and bookings
\* that change status meanwhile.
CrossingWorkload == {"create", "reschedule", "complete", "confirm", "publish"}

Symmetry ==
  Permutations(Workers) \cup Permutations(Slots) \cup Permutations(Bookings)
===============================================================================
