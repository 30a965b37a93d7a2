-------------------------- MODULE MCStreamDelivery --------------------------
EXTENDS StreamDelivery, TLC

CONSTANTS t0, t1, t2, k0, k1

(* Creator and First are named by definitions and stay in their place.     *)
ThreadSymmetry == Permutations(Threads \ {Creator})

=============================================================================
