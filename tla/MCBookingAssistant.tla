-------------------------- MODULE MCBookingAssistant --------------------------
(* Small instances of BookingAssistant.                                    *)
EXTENDS BookingAssistant, TLC

Symmetry == Permutations(Sends) \cup Permutations(Submissions) \cup Permutations(Services)
================================================================================
