----------------------------- MODULE MCSessions -----------------------------
(* Instances of Sessions for TLC: the requests the clients of a run make,  *)
(* and the view and the symmetry of the safety runs.                       *)
EXTENDS Sessions, TLC

Of(kind, methods) == [kind : {kind}, method : methods]

\* All a browser asks for, by one transport of each kind ...
EveryRequest ==
    Of("websocket", {"UPGRADE"}) \cup Of("htmlfile", {"GET", "POST"})
    \cup Of("xhr-polling", {"GET", "POST", "DISCONNECT"})
\* ... and what the server refuses or leaves without an answer as well.
StreamRequests ==
    Of("websocket", {"UPGRADE", "GET"}) \cup Of("htmlfile", {"GET", "POST", "OPTIONS"})
TwoSwitches == Of("htmlfile", {"GET"}) \cup Of("xhr-polling", {"GET"})

Symmetry == Permutations(Sids) \cup Permutations(Chans) \cup Permutations(Clients) \cup Permutations(Tasks)

\* What a state still says of objects nobody refers to is immaterial.
LiveView ==
    <<issued, store, req, link, pc, ref, cap,
      [c \in Clients |-> IF c \in FreshClients THEN None
                         ELSE <<uID[c], id[c], ctx[c], open[c], scheduledFuture[c]>>],
      [t \in Tasks |-> IF t \in FreshTasks(None) THEN None ELSE <<tstate[t], tsid[t], tref[t]>>]>>
=============================================================================
