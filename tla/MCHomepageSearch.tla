--------------------------- MODULE MCHomepageSearch ----------------------------
(* Small instances of HomepageSearch.                                      *)
EXTENDS HomepageSearch, TLC

Symmetry == Permutations(Searches) \cup Permutations(Submissions) \cup Permutations(Services)
================================================================================
