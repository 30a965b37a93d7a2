------------------------------ MODULE MCOutbox ------------------------------
EXTENDS Outbox, TLC

CONSTANTS p1, p2, news

(* CHOOSE picks among free POSTs, which are all equal. *)
PostSymmetry == Permutations(Posts)

=============================================================================
