------------------------------ MODULE UserMap -------------------------------
(***************************************************************************)
(* What the users store promises (docs/management-protocol.md, sections    *)
(* 5.3 and 5.4): a map from names to passwords with at most UsersMax       *)
(* entries.                                                                *)
(***************************************************************************)
EXTENDS Integers, FiniteSets

CONSTANTS Text, Kept, UsersMax, Absent

VARIABLE accounts

Known == {n \in Text : accounts[n] # Absent}

\* The accounts of -u.
Init ==
    /\ accounts \in [Text -> Text \cup {Absent}]
    /\ Cardinality(Known) <= UsersMax

\* USER SET: adds an account or replaces its password; refused when full.
CanSet(n) == n \in Known \/ Cardinality(Known) < UsersMax
Set(n, p)     == CanSet(n) /\ accounts' = [accounts EXCEPT ![n] = Kept[p]]
SetRefused(n) == ~CanSet(n) /\ UNCHANGED accounts

\* USER DELETE
Delete(n)        == n \in Known /\ accounts' = [accounts EXCEPT ![n] = Absent]
DeleteRefused(n) == n \notin Known /\ UNCHANGED accounts

Next == \E n, p \in Text : Set(n, p) \/ SetRefused(n) \/ Delete(n) \/ DeleteRefused(n)

Spec == Init /\ [][Next]_accounts
=============================================================================
