----------------------------- MODULE MCDispatch -----------------------------
(***************************************************************************)
(* Dispatch for TLC: one job and a small pool of providers, who are        *)
(* interchangeable within their type.                                      *)
(***************************************************************************)
EXTENDS Dispatch, TLC

MCSymmetry == Permutations(Mechanics) \cup Permutations(Requests)

=============================================================================
