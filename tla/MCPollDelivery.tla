---------------------------- MODULE MCPollDelivery ----------------------------
(* Small instances of PollDelivery. *)
EXTENDS PollDelivery, TLC

ConnectOnly == {"CONNECT_ENDPOINT"}
AllPosts    == PostJobs

\* Connections other than the first one are alike.
Symmetry == Permutations(Conns \ {First})

=============================================================================
