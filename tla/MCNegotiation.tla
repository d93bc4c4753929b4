--------------------------- MODULE MCNegotiation ---------------------------
EXTENDS Negotiation, SequencesExt

\* Bytes of names and addresses.
A == 65
B == 66

Hellos == {<<5, 1, 0>>, <<5, 3, 1, 2, 0>>, <<5, 1, 9>>, <<5, 0>>, <<4>>}
Auths == {<<>>, <<1, 1, A, 2, A, B>>, <<1, 3, A, 0, B, 2, A, B>>, <<1, 1, B, 1, A>>,
          <<1, 0>>, <<1, 1, A, 0>>, <<2>>}
Requests == {<<5, 1, 0, IPv4, A, 0, B, 3, 1, 2>>, <<5, 1, 0, IPv6>> \o [i \in 1..18 |-> i],
             <<5, 1, 0, FQDN, 1, B, 0, 80>>, <<5, 1, 9, FQDN, 3, A, 0, B, 5, 0>>,
             <<5, 1, 0, FQDN, 0>>, <<5, 2, 0, IPv4>>, <<5, 1, 0, 5>>, <<4, 1>>, <<5, 1, 0>>}
Tails == {<<>>, <<5, 1>>}

\* The longest name and password: every index and counter at its limit.
Longest == <<5, 1, 2, 1, 255>> \o [i \in 1..255 |-> A] \o <<1, B, 5, 1, 0, FQDN, 255>>
             \o [i \in 1..255 |-> B] \o <<1, 1>>

MCStreams ==
    {h \o a \o r \o t : h \in Hellos, a \in Auths, r \in Requests, t \in Tails} \cup {Longest}

MCAccounts == {{}, {<<<<A>>, <<A, B>>>>, <<[i \in 1..255 |-> A], <<B>>>>}}
=============================================================================
