--------------------------- MODULE MCClientSocket ---------------------------
EXTENDS ClientSocket, TLC

CONSTANTS t1, t2

NamesXhr   == <<"websocket", "xhr-polling">>
NamesJsonp == <<"websocket", "jsonp-polling">>

TransportSymmetry == Permutations(Transports)

\* What a state still says of a transport nobody refers to is immaterial.
LiveView ==
    <<flags, loop, timers, calls, transport, [t \in Transports |-> IF Free(t) THEN None ELSE tr[t]],
      remaining, heartbeat, stuck, rest>>

=============================================================================
