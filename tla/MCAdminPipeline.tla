---------------------------- MODULE MCAdminPipeline ----------------------------
(* Small instances of AdminPipeline.                                       *)
EXTENDS AdminPipeline, TLC

Symmetry ==
  Permutations(Requests) \cup Permutations(Customers) \cup Permutations(Bookings)
================================================================================
