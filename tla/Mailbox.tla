------------------------------- MODULE Mailbox -------------------------------
(***************************************************************************)
(* What IOClient.send promises to the handlers that call it, whatever the  *)
(* transport: a message is given to the browser at most once, and it is    *)
(* given up only when a connection to the browser was cut short.  Nothing  *)
(* is promised about order: see InOrder in PollDelivery, which implements  *)
(* this module.                                                            *)
(*                                                                         *)
(* Messages are numbered in the order in which they are accepted.          *)
(***************************************************************************)
EXTENDS Naturals, Sequences

VARIABLES
    sent,       \* messages 1..sent were accepted
    received,   \* what the browser received, in that order
    lost,       \* messages that were given up
    cut         \* TRUE once a connection was cut short

mailVars == <<sent, received, lost, cut>>

Given == {received[i] : i \in DOMAIN received}

Pending == (1..sent) \ (Given \cup lost)

Init ==
    /\ sent = 0
    /\ received = <<>>
    /\ lost = {}
    /\ cut = FALSE

Accept ==
    /\ sent' = sent + 1
    /\ UNCHANGED <<received, lost, cut>>

Deliver(m) ==
    /\ m \in Pending
    /\ received' = Append(received, m)
    /\ UNCHANGED <<sent, lost, cut>>

Lose(m) ==
    /\ cut
    /\ m \in Pending
    /\ lost' = lost \cup {m}
    /\ UNCHANGED <<sent, received, cut>>

Cut ==
    /\ cut' = TRUE
    /\ UNCHANGED <<sent, received, lost>>

Next == Accept \/ Cut \/ \E m \in Pending : Deliver(m) \/ Lose(m)

Spec == Init /\ [][Next]_mailVars

=============================================================================
