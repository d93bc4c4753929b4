----------------------------- MODULE ActiveList -----------------------------
(***************************************************************************)
(* The doubly linked list of live sessions of src/shared/socks5.c, which   *)
(* accept and socksv5_done change and which the timeout sweep walks while  *)
(* it removes sessions from it.  A struct that leaves the list goes to the *)
(* pool, or to the allocator, and may come back for the next connection.   *)
(***************************************************************************)
EXTENDS Integers, FiniteSets

CONSTANTS
    Slots,   \* session structs the allocator can hand out
    Null     \* NULL

ASSUME SlotsAssumption == IsFiniteSet(Slots) /\ Null \notin Slots

VARIABLES
    head,      \* g_active_head
    prev,      \* active_prev of each struct
    next,      \* active_next of each struct
    count,     \* g_active_sessions
    live,      \* history: sessions accepted and not yet done
    walk,      \* the sweep's local s; Null when it is not in progress
    due,       \* history: sessions in the list when the sweep began
    visited    \* history: the sweep's visits to each, counted up to 2

vars == <<head, prev, next, count, live, walk, due, visited>>

Pointer == Slots \cup {Null}

Init ==
    /\ head = Null /\ count = 0 /\ live = {}
    /\ prev = [s \in Slots |-> Null] /\ next = [s \in Slots |-> Null]
    /\ walk = Null /\ due = {} /\ visited = [s \in Slots |-> 0]

\* p->field = value, when p is not NULL
Assign(field, p, value) == IF p = Null THEN field ELSE [field EXCEPT ![p] = value]

\* active_list_add, and the rest of socksv5_passive_accept
Accept(s) ==
    /\ walk = Null /\ s \notin live
    /\ prev' = [Assign(prev, head, s) EXCEPT ![s] = Null]
    /\ next' = [next EXCEPT ![s] = head]
    /\ head' = s
    /\ count' = count + 1
    /\ live' = live \cup {s}
    /\ UNCHANGED <<walk, due, visited>>

\* (mutant) the one that follows keeps its pointer to the session that left.
UnlinkForwardOnly(s) ==
    /\ next' = [Assign(next, prev[s], next[s]) EXCEPT ![s] = Null]
    /\ prev' = [prev EXCEPT ![s] = Null]
    /\ head' = IF prev[s] = Null THEN next[s] ELSE head
    /\ count' = IF count > 0 THEN count - 1 ELSE 0
    /\ live' = live \ {s}

\* The first half of socksv5_done.
Unlink(s) ==
    /\ next' = [Assign(next, prev[s], next[s]) EXCEPT ![s] = Null]
    /\ prev' = [Assign(prev, next[s], prev[s]) EXCEPT ![s] = Null]
    /\ head' = IF prev[s] = Null THEN next[s] ELSE head
    /\ count' = IF count > 0 THEN count - 1 ELSE 0
    /\ live' = live \ {s}

\* A session ends in a handler of the selector.
Done(s) ==
    /\ walk = Null /\ s \in live
    /\ Unlink(s)
    /\ UNCHANGED <<walk, due, visited>>

\* socksv5_check_timeouts begins.
Sweep ==
    /\ walk = Null /\ head # Null
    /\ walk' = head
    /\ due' = live /\ visited' = [s \in Slots |-> 0]
    /\ UNCHANGED <<head, prev, next, count, live>>

\* (mutant) the successor is read when the session may have left.
AdvanceLate == next'

\* struct socks5 *next = s->active_next, read before the session is looked at
Advance == next

Visited == visited' = [visited EXCEPT ![walk] = IF @ = 2 THEN 2 ELSE @ + 1]

\* The session has no timeout, or goes on after one (connecting_timeout with a reply).
Keep ==
    /\ walk # Null
    /\ UNCHANGED <<head, prev, next, count, live, due>>
    /\ Visited
    /\ walk' = Advance[walk]

\* The session's timeout ends it.
Remove ==
    /\ walk # Null
    /\ Unlink(walk)
    /\ Visited
    /\ walk' = Advance[walk]
    /\ UNCHANGED due

Next == \/ \E s \in Slots : Accept(s) \/ Done(s)
        \/ Sweep \/ Keep \/ Remove

Spec == Init /\ [][Next]_vars

-----------------------------------------------------------------------------
TypeOK ==
    /\ {head, walk} \subseteq Pointer
    /\ prev \in [Slots -> Pointer] /\ next \in [Slots -> Pointer]
    /\ count \in 0..Cardinality(Slots)
    /\ live \subseteq Slots /\ due \subseteq Slots /\ visited \in [Slots -> 0..2]

\* The struct that n pointers lead to from the head.
Nth[n \in 0..Cardinality(Slots)] ==
    IF n = 0 THEN head ELSE IF Nth[n - 1] = Null THEN Null ELSE next[Nth[n - 1]]

(***************************************************************************)
(* The list is a list of the live sessions: every one is reached once, the *)
(* last one points nowhere, active_prev is the way back, a struct that     *)
(* left points to no session, and g_active_sessions is the list's length.  *)
(***************************************************************************)
ListExact ==
    /\ TypeOK
    /\ {Nth[n] : n \in 0..Cardinality(Slots)} \ {Null} = live
    /\ Nth[Cardinality(live)] = Null /\ count = Cardinality(live)
    /\ \A s \in live : prev[s] = Null <=> s = head
    /\ \A s \in live : next[s] # Null => prev[next[s]] = s
    /\ \A s \in Slots \ live : next[s] = Null /\ prev[s] = Null

(***************************************************************************)
(* When a sweep ends it has visited every session that was in the list     *)
(* once, those it removed included.                                        *)
(***************************************************************************)
EveryoneVisited ==
    [][walk # Null /\ walk' = Null => visited' = [s \in Slots |-> IF s \in due THEN 1 ELSE 0]]_vars

-----------------------------------------------------------------------------
\* q is the list: the structs in their order, from the head.
IsList(q) ==
    /\ q \in [1..count -> Slots]
    /\ \A i, j \in 1..count : q[i] = q[j] => i = j
    /\ live = {q[i] : i \in 1..count}
    /\ head = IF count = 0 THEN Null ELSE q[1]
    /\ \A i \in 1..count : next[q[i]] = IF i = count THEN Null ELSE q[i + 1]
    /\ \A i \in 1..count : prev[q[i]] = IF i = 1 THEN Null ELSE q[i - 1]

\* The sweep is at the k-th struct: it has visited, once, those that it began
\* with and that are not from there to the end.
SweepAt(q, k) ==
    LET ahead == {q[i] : i \in k..count} IN
    /\ walk = q[k]
    /\ ahead \subseteq due
    /\ visited = [s \in Slots |-> IF s \in due \ ahead THEN 1 ELSE 0]

ListInv ==
    /\ count \in Nat /\ due \subseteq Slots
    /\ prev \in [Slots -> Pointer] /\ next \in [Slots -> Pointer]
    /\ visited \in [Slots -> 0..2]
    /\ \A s \in Slots \ live : next[s] = Null /\ prev[s] = Null
    /\ \E q \in [1..count -> Slots] :
         IsList(q) /\ (walk # Null => \E k \in 1..count : SweepAt(q, k))
=============================================================================
