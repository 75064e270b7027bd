--------------------------- MODULE MCDeliveryAdapter --------------------------
(* DeliveryAdapter on small instances. *)
EXTENDS AdapterRefinement, TLC

\* The code never compares events, so permuting them is a symmetry.
EventSymmetry == Permutations(Events)
=============================================================================
