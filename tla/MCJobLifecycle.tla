--------------------------- MODULE MCJobLifecycle ---------------------------
(***************************************************************************)
(* JobLifecycle for TLC: providers of both types, two requests in flight.  *)
(***************************************************************************)
EXTENDS JobLifecycle, TLC

MCSymmetry == Permutations(Mechanics) \cup Permutations(Garages) \cup Permutations(Requests)

=============================================================================
