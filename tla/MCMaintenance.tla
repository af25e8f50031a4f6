--------------------------- MODULE MCMaintenance ---------------------------
(* Instances of Maintenance for TLC: books, series and requests are        *)
(* interchangeable.                                                        *)
EXTENDS Maintenance, TLC

TargetSymmetry == Permutations(Series) \cup Permutations(Books) \cup Permutations(Requests)
=============================================================================
