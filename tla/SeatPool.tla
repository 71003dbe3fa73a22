------------------------------- MODULE SeatPool -------------------------------
(***************************************************************************)
(* What a table of bookable sessions promises, whatever its columns: each  *)
(* session has a number of seats and a number of seats taken; a seat is    *)
(* taken only while one is free, given back only if one was taken, and the *)
(* number of seats is never cut below the number taken.  A transaction may *)
(* touch several sessions, each by one such move.                          *)
(***************************************************************************)
EXTENDS Integers

CONSTANT Sessions
VARIABLES seats, taken

TakeSeat(s) == taken[s] < seats[s] /\ taken'[s] = taken[s] + 1 /\ seats'[s] = seats[s]

GiveBack(s) == taken[s] > 0 /\ taken'[s] = taken[s] - 1 /\ seats'[s] = seats[s]

Resize(s) == seats'[s] \in Nat /\ seats'[s] >= taken[s] /\ taken'[s] = taken[s]

Init ==
  /\ seats \in [Sessions -> Nat]
  /\ taken \in [Sessions -> Nat]
  /\ \A s \in Sessions : taken[s] <= seats[s]

Next ==
  /\ seats' = [s \in Sessions |-> seats'[s]]
  /\ taken' = [s \in Sessions |-> taken'[s]]
  /\ \A s \in Sessions : TakeSeat(s) \/ GiveBack(s) \/ Resize(s)

Spec == Init /\ [][Next]_<<seats, taken>>
===============================================================================
