------------------------------- MODULE Tunnel -------------------------------
(***************************************************************************)
(* What an open tunnel promises to its two ends: in each direction a       *)
(* bounded stream that delivers what it received, in order and once, and   *)
(* that passes an end of stream on once everything before it was           *)
(* delivered.  The tunnel is over as soon as both streams are, or fails.   *)
(* CopyRelay is shown to implement this.                                   *)
(***************************************************************************)
EXTENDS Integers

CONSTANTS Dirs, Capacity

VARIABLES got,   \* bytes received from the sending end
          sent,  \* bytes delivered to the other end
          fin,   \* the sending end closed its stream
          state  \* "open", "closed" or "failed"

tvars == <<got, sent, fin, state>>

\* The direction d is over: its end of stream can be passed on.
Drained(d) == fin[d] /\ sent[d] = got[d]

TunnelInit ==
    /\ got \in [Dirs -> 0..Capacity]      \* bytes sent ahead of the reply
    /\ sent = [d \in Dirs |-> 0]
    /\ fin = [d \in Dirs |-> FALSE]
    /\ state = "open"

\* After a step of direction d; passing its end of stream on may fail.
Settle(d) ==
    \/ state' = IF \A x \in Dirs : Drained(x)' THEN "closed" ELSE "open"
    \/ Drained(d)' /\ state' = "failed"

Receive(d) ==
    /\ state = "open" /\ ~fin[d]
    /\ \E n \in 1 .. (Capacity - (got[d] - sent[d])) : got' = [got EXCEPT ![d] = @ + n]
    /\ UNCHANGED <<sent, fin>>
    /\ Settle(d)

Deliver(d) ==
    /\ state = "open"
    /\ \E n \in 1 .. (got[d] - sent[d]) : sent' = [sent EXCEPT ![d] = @ + n]
    /\ UNCHANGED <<got, fin>>
    /\ Settle(d)

FinishStream(d) ==
    /\ state = "open" /\ ~fin[d]
    /\ fin' = [fin EXCEPT ![d] = TRUE]
    /\ UNCHANGED <<got, sent>>
    /\ Settle(d)

Break == state = "open" /\ state' = "failed" /\ UNCHANGED <<got, sent, fin>>

TunnelNext == Break \/ \E d \in Dirs : Receive(d) \/ Deliver(d) \/ FinishStream(d)

TunnelSpec == TunnelInit /\ [][TunnelNext]_tvars

=============================================================================
