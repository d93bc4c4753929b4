------------------------- MODULE SelectorLoopProofs -------------------------
(***************************************************************************)
(* Proofs about SelectorLoop, for any number of sessions and of            *)
(* descriptors: LoopInv is inductive, so the selector's table, the kernel  *)
(* and the sessions agree, a resolution reaches the session that asked,    *)
(* and stale readiness reaches connecting_write only.                      *)
(***************************************************************************)
EXTENDS SelectorLoop, TLAPS, WellFoundedInduction

Items  == [data : Slots \cup {NoSlot}, interest : SUBSET {"R", "W"}, used : BOOLEAN]
States == [st : SessionStates, client : Fds \cup {NoFd}, origin : Fds \cup {NoFd},
           good : BOOLEAN]
Conns  == {"none", "progress", "up", "refused"}
Worlds == [item : [Fds -> Items], open : SUBSET Fds, fresh : SUBSET Fds, conn : Conns,
           me : States]

-----------------------------------------------------------------------------
\* Lowest and highest numbers.

\* A nonempty set of natural numbers has a least element.
LEMMA Least ==
  ASSUME NEW S, S \subseteq Nat, S # {}
  PROVE  \E p \in S : \A q \in S : p <= q
<1>1. \E p \in S : \A q \in S : ~(<<q, p>> \in OpToRel(<, Nat))
  BY NatLessThanWellFounded, WFMin
<1>2. PICK p \in S : \A q \in S : ~(<<q, p>> \in OpToRel(<, Nat))
  BY <1>1
<1>3. \A q \in S : ~(q < p)
  BY <1>2 DEF OpToRel
<1> QED
  BY <1>3

\* A bounded one has a greatest.
LEMMA Greatest ==
  ASSUME NEW m \in Nat, NEW S, S \subseteq 0..m, S # {}
  PROVE  \E p \in S : \A q \in S : q <= p
<1> DEFINE T == {m - x : x \in S}
<1>1. T \subseteq Nat /\ T # {}
  <2>1. \A x \in S : x \in 0..m /\ m - x \in Nat
    OBVIOUS
  <2> QED
    BY <2>1
<1>2. PICK p \in T : \A q \in T : p <= q
  BY <1>1, Least
<1>3. PICK x \in S : p = m - x
  BY <1>2
<1>4. ASSUME NEW q \in S PROVE q <= x
  <2>1. m - q \in T
    OBVIOUS
  <2>2. p <= m - q
    BY <1>2, <2>1
  <2> QED
    BY <1>3, <2>2
<1> QED
  BY <1>4

\* The descriptors, and the listener among them.
LEMMA FdFacts == OsMax \in Nat /\ Fds \subseteq Nat /\ Listener \in Fds /\ NoFd \notin Fds
  BY FdAssumption DEF Fds, Listener, NoFd

\* socket and accept return a number that is not open.
LEMMA LowestFree ==
  ASSUME NEW os, CanOpen(os), os \subseteq Fds
  PROVE  Lowest(os) \in Fds /\ Lowest(os) \notin os
<1>1. Fds \ os # {} /\ Fds \ os \subseteq Nat
  BY FdFacts DEF CanOpen
<1>2. \E f \in Fds \ os : \A g \in Fds \ os : f <= g
  BY <1>1, Least
<1>3. Lowest(os) \in Fds \ os
  BY <1>2 DEF Lowest
<1> QED
  BY <1>3

\* max_fd is a descriptor number.
LEMMA MaxFdType == MaxFd(item) \in Fds
<1> DEFINE S == {f \in Fds : f = 0 \/ item[f].used}
<1>1. S \subseteq 0..OsMax /\ S # {} /\ OsMax \in Nat
  BY FdFacts DEF Fds, Listener
<1>2. PICK m \in S : \A f \in S : f <= m
  BY <1>1, Greatest
<1>3. \E x \in Fds : (x = 0 \/ item[x].used) /\ \A f \in Fds : item[f].used => f <= x
  BY <1>2
<1> QED
  BY <1>3 DEF MaxFd

-----------------------------------------------------------------------------
\* What each of the selector's and the kernel's operations changes.

\* selector_register
LEMMA RegisteredIs ==
  ASSUME NEW w \in Worlds, NEW f \in Fds, NEW s \in Slots, NEW ops \in SUBSET {"R", "W"}
  PROVE  LET v == Registered(w, f, s, ops) IN
         /\ v \in Worlds /\ v.open = w.open /\ v.fresh = w.fresh /\ v.conn = w.conn
         /\ v.me = w.me
         /\ v.item[f].data = s /\ v.item[f].interest = ops /\ v.item[f].used
         /\ \A g \in Fds \ {f} : v.item[g] = w.item[g]
  BY DEF Registered, Worlds, Items

\* selector_unregister_fd
LEMMA UnregisteredIs ==
  ASSUME NEW w \in Worlds, NEW f \in Fds
  PROVE  LET v == Unregistered(w, f) IN
         /\ v \in Worlds /\ v.open = w.open /\ v.fresh = w.fresh /\ v.conn = w.conn
         /\ v.me = w.me
         /\ v.item[f].data = NoSlot /\ v.item[f].used = FALSE
         /\ \A g \in Fds \ {f} : v.item[g] = w.item[g]
  BY DEF Unregistered, Unused, Worlds, Items

\* close
LEMMA ClosedFdIs ==
  ASSUME NEW w \in Worlds, NEW f \in Fds
  PROVE  LET v == ClosedFd(w, f) IN
         /\ v \in Worlds /\ v.open = w.open \ {f} /\ v.fresh = w.fresh \ {f}
         /\ v.conn = w.conn /\ v.me = w.me /\ v.item = w.item
  BY DEF ClosedFd, Worlds

\* socket, accept
LEMMA OpenedFdIs ==
  ASSUME NEW w \in Worlds, NEW f \in Fds
  PROVE  LET v == OpenedFd(w, f) IN
         /\ v \in Worlds /\ v.open = w.open \cup {f} /\ v.fresh = w.fresh \cup {f}
         /\ v.conn = w.conn /\ v.me = w.me /\ v.item = w.item
  BY DEF OpenedFd, Worlds

\* selector_set_interest
LEMMA InterestedIs ==
  ASSUME NEW w \in Worlds, NEW f \in Fds, NEW ops \in SUBSET {"R", "W"}
  PROVE  LET v == Interested(w, f, ops) IN
         /\ v \in Worlds /\ v.open = w.open /\ v.fresh = w.fresh /\ v.conn = w.conn
         /\ v.me = w.me
         /\ v.item[f].data = w.item[f].data /\ v.item[f].interest = ops
         /\ v.item[f].used = w.item[f].used
         /\ \A g \in Fds \ {f} : v.item[g] = w.item[g]
  BY DEF Interested, Worlds, Items

-----------------------------------------------------------------------------
\* What a handler may leave.

Mine(w) == {w.me.client, w.me.origin} \ {NoFd}

\* w is what the current state becomes when session s alone has acted: its numbers
\* are the open ones registered with it, and the others' are as they were.
Consistent(w, s) ==
    /\ w \in Worlds /\ w.fresh \subseteq w.open /\ Shape(w.me)
    /\ \A f \in Fds : w.item[f].used <=> f \in w.open
    /\ \A f \in Fds : f \in Mine(w) <=> f \in w.open /\ w.item[f].data = s
    /\ \A f \in open : item[f].data # s =>
         f \in w.open /\ w.item[f] = item[f] /\ (f \in w.fresh <=> f \in fresh)
    /\ \A f \in w.open : w.item[f].data # s => f \in open /\ w.item[f] = item[f]

\* v has no number of w's session that w had not.
Within(v, w) == Mine(v) \subseteq Mine(w) /\ v.fresh \subseteq w.fresh

\* The number f of w is the origin of a connect in progress.
ConnectsIn(w, f) ==
    /\ w.me.st = "connecting" /\ w.me.origin = f /\ w.item[f].interest = {"W"}
    /\ w.item[w.me.client].interest = {}

\* Of the fresh numbers of v, those that w did not have are connecting.
Outcome(v, w) ==
    \A f \in v.fresh \cap Mine(v) : f \in w.fresh \cap Mine(w) \/ ConnectsIn(v, f)

\* The fields of a world.
LEMMA WorldFields ==
  ASSUME NEW w \in Worlds
  PROVE  /\ w.item \in [Fds -> Items] /\ w.open \subseteq Fds /\ w.fresh \subseteq Fds
         /\ w.conn \in Conns /\ w.me \in States
         /\ w.me.st \in SessionStates /\ w.me.client \in Fds \cup {NoFd}
         /\ w.me.origin \in Fds \cup {NoFd} /\ w.me.good \in BOOLEAN
         /\ Mine(w) \subseteq Fds
  BY DEF Worlds, States, Mine

\* Only the fields of the session itself change, and it keeps its numbers.
LEMMA MeConsistent ==
  ASSUME NEW s \in Slots, NEW w, Consistent(w, s), NEW v \in Worlds,
         v.item = w.item, v.open = w.open, v.fresh = w.fresh, Mine(v) = Mine(w), Shape(v.me)
  PROVE  Consistent(v, s) /\ Within(v, w)
  BY DEF Consistent, Within

\* selector_set_interest for a number of the session
LEMMA InterestedConsistent ==
  ASSUME NEW s \in Slots, NEW w, Consistent(w, s), NEW f \in Mine(w),
         NEW ops \in SUBSET {"R", "W"}
  PROVE  LET v == Interested(w, f, ops) IN
         Consistent(v, s) /\ Within(v, w) /\ v.me = w.me /\ Mine(v) = Mine(w)
<1> DEFINE v == Interested(w, f, ops)
<1>1. w \in Worlds /\ f \in Fds
  BY WorldFields DEF Consistent
<1>2. /\ v \in Worlds /\ v.open = w.open /\ v.fresh = w.fresh /\ v.me = w.me
      /\ v.item[f].data = w.item[f].data /\ v.item[f].used = w.item[f].used
      /\ \A g \in Fds \ {f} : v.item[g] = w.item[g]
  BY <1>1, InterestedIs
<1> HIDE DEF v
<1>3. Mine(v) = Mine(w)
  BY <1>2 DEF Mine
<1>4. w.item[f].data = s /\ f \in w.open
  BY <1>1 DEF Consistent
<1>5. \A g \in Fds : v.item[g].used = w.item[g].used /\ v.item[g].data = w.item[g].data
  BY <1>2
<1>6. \A g \in Fds : w.item[g].data # s => v.item[g] = w.item[g]
  BY <1>2, <1>4
<1>7. \A g \in open : item[g].data # s =>
        g \in v.open /\ v.item[g] = item[g] /\ (g \in v.fresh <=> g \in fresh)
  <2> SUFFICES ASSUME NEW g \in open, item[g].data # s
               PROVE  g \in v.open /\ v.item[g] = item[g] /\ (g \in v.fresh <=> g \in fresh)
    OBVIOUS
  <2>1. g \in w.open /\ w.item[g] = item[g] /\ (g \in w.fresh <=> g \in fresh)
    BY DEF Consistent
  <2>2. g \in Fds
    BY <1>1, <2>1, WorldFields
  <2> QED
    BY <1>2, <1>6, <2>1, <2>2
<1>8. \A g \in v.open : v.item[g].data # s => g \in open /\ v.item[g] = item[g]
  <2> SUFFICES ASSUME NEW g \in v.open, v.item[g].data # s
               PROVE  g \in open /\ v.item[g] = item[g]
    OBVIOUS
  <2>1. g \in Fds /\ g \in w.open
    BY <1>1, <1>2, WorldFields
  <2>2. w.item[g].data # s
    BY <1>5, <2>1
  <2> QED
    BY <1>6, <2>1, <2>2 DEF Consistent
<1>9. Consistent(v, s)
  BY <1>2, <1>3, <1>5, <1>7, <1>8 DEF Consistent
<1> QED
  BY <1>2, <1>3, <1>9 DEF Within, v

\* client_fd waits to send the error reply.
LEMMA FailingConsistent ==
  ASSUME NEW s \in Slots, NEW w, Consistent(w, s), w.me.client # NoFd
  PROVE  Consistent(Failing(w), s) /\ Within(Failing(w), w)
<1> DEFINE u == Interested(w, w.me.client, {"W"})
           v == Failing(w)
<1>1. w \in Worlds /\ w.me.client \in Mine(w)
  BY DEF Consistent, Mine
<1>2. Consistent(u, s) /\ Within(u, w) /\ u.me = w.me /\ u \in Worlds /\ Shape(w.me)
  BY <1>1, InterestedConsistent DEF Consistent
<1>3. v = [u EXCEPT !.me.st = "connecting"]
  BY DEF Failing
<1> HIDE DEF u, v
<1>4. /\ v \in Worlds /\ v.item = u.item /\ v.open = u.open /\ v.fresh = u.fresh
      /\ v.me.st = "connecting" /\ v.me.client = u.me.client /\ v.me.origin = u.me.origin
  BY <1>2, <1>3 DEF Worlds, States, SessionStates
<1>5. Mine(v) = Mine(u) /\ Shape(v.me)
  BY <1>1, <1>2, <1>4 DEF Mine, Shape
<1>6. Consistent(v, s) /\ Within(v, u)
  BY <1>2, <1>4, <1>5, MeConsistent
<1> QED
  BY <1>2, <1>6 DEF Within, v

\* The reply is queued on client_fd.
LEMMA ReplyingConsistent ==
  ASSUME NEW s \in Slots, NEW w, Consistent(w, s), w.me.client # NoFd,
         NEW ok \in BOOLEAN, ok => w.me.origin # NoFd
  PROVE  LET v == Replying(w, ok) IN
         /\ Consistent(v, s) /\ Within(v, w)
         /\ v.me.client = w.me.client /\ v.me.origin = w.me.origin
<1> DEFINE u == Interested(w, w.me.client, {"W"})
           v == Replying(w, ok)
<1>1. w \in Worlds /\ w.me.client \in Mine(w)
  BY DEF Consistent, Mine
<1>2. Consistent(u, s) /\ Within(u, w) /\ u.me = w.me /\ u \in Worlds /\ Shape(w.me)
  BY <1>1, InterestedConsistent DEF Consistent
<1>3. v = [u EXCEPT !.me.st = "reply", !.me.good = ok]
  BY DEF Replying
<1> HIDE DEF u, v
<1>4. /\ v \in Worlds /\ v.item = u.item /\ v.open = u.open /\ v.fresh = u.fresh
      /\ v.me.st = "reply" /\ v.me.client = u.me.client /\ v.me.origin = u.me.origin
      /\ v.me.good = ok
  BY <1>2, <1>3 DEF Worlds, States, SessionStates
<1>5. Mine(v) = Mine(u) /\ Shape(v.me)
  BY <1>1, <1>2, <1>4 DEF Mine, Shape
<1>6. Consistent(v, s) /\ Within(v, u)
  BY <1>2, <1>4, <1>5, MeConsistent
<1> QED
  BY <1>2, <1>4, <1>6 DEF Within, v

\* copy_init
LEMMA TunnelConsistent ==
  ASSUME NEW s \in Slots, NEW w, Consistent(w, s), w.me.client # NoFd, w.me.origin # NoFd
  PROVE  Consistent(Tunnel(w), s) /\ Within(Tunnel(w), w)
<1> DEFINE t == Interested(w, w.me.client, {"R", "W"})
           u == Interested(t, w.me.origin, {"R", "W"})
           v == Tunnel(w)
<1>1. w \in Worlds /\ w.me.client \in Mine(w) /\ w.me.origin \in Mine(w)
  BY DEF Consistent, Mine
<1>2. Consistent(t, s) /\ Within(t, w) /\ t.me = w.me /\ Mine(t) = Mine(w)
  BY <1>1, InterestedConsistent
<1>3. Consistent(u, s) /\ Within(u, t) /\ u.me = t.me /\ Mine(u) = Mine(t)
  <2> HIDE DEF t
  <2> QED
    BY <1>1, <1>2, InterestedConsistent
<1>4. v = [u EXCEPT !.me.st = "copy"]
  BY DEF Tunnel
<1>5. u \in Worlds /\ Shape(w.me)
  BY <1>3 DEF Consistent
<1> HIDE DEF t, u, v
<1>6. /\ v \in Worlds /\ v.item = u.item /\ v.open = u.open /\ v.fresh = u.fresh
      /\ v.me.st = "copy" /\ v.me.client = u.me.client /\ v.me.origin = u.me.origin
  BY <1>4, <1>5 DEF Worlds, States, SessionStates
<1>7. Mine(v) = Mine(u) /\ Shape(v.me)
  BY <1>2, <1>3, <1>5, <1>6 DEF Mine, Shape
<1>8. Consistent(v, s) /\ Within(v, u)
  BY <1>3, <1>6, <1>7, MeConsistent
<1> QED
  BY <1>2, <1>3, <1>8 DEF Within, v

\* One of the session's numbers is unregistered and closed.
LEMMA GoneIs ==
  ASSUME NEW w \in Worlds, NEW f \in Fds
  PROVE  LET v == ClosedFd(Unregistered(w, f), f) IN
         /\ v \in Worlds /\ v.open = w.open \ {f} /\ v.fresh = w.fresh \ {f}
         /\ v.conn = w.conn /\ v.me = w.me /\ v.item[f].used = FALSE
         /\ \A g \in Fds \ {f} : v.item[g] = w.item[g]
<1> DEFINE u == Unregistered(w, f)
<1>1. /\ u \in Worlds /\ u.open = w.open /\ u.fresh = w.fresh /\ u.conn = w.conn
      /\ u.me = w.me /\ u.item[f].used = FALSE
      /\ \A g \in Fds \ {f} : u.item[g] = w.item[g]
  BY UnregisteredIs
<1> HIDE DEF u
<1>2. LET v == ClosedFd(u, f) IN
      /\ v \in Worlds /\ v.open = u.open \ {f} /\ v.fresh = u.fresh \ {f}
      /\ v.conn = u.conn /\ v.me = u.me /\ v.item = u.item
  BY <1>1, ClosedFdIs
<1> QED
  BY <1>1, <1>2 DEF u

\* The session gives up some of its numbers, which are unregistered and closed.
LEMMA LessConsistent ==
  ASSUME NEW s \in Slots, NEW w, Consistent(w, s), NEW v \in Worlds,
         NEW G \in SUBSET Mine(w), Mine(v) = Mine(w) \ G, Shape(v.me),
         v.open = w.open \ G, v.fresh = w.fresh \ G,
         \A g \in G : v.item[g].used = FALSE,
         \A g \in Fds \ G : v.item[g] = w.item[g]
  PROVE  Consistent(v, s) /\ Within(v, w)
<1>1. w \in Worlds /\ w.open \subseteq Fds /\ Mine(w) \subseteq Fds /\ w.fresh \subseteq w.open
  BY WorldFields DEF Consistent
<1>2. \A g \in G : g \in w.open /\ w.item[g].data = s
  BY <1>1 DEF Consistent
<1>3. v.fresh \subseteq v.open
  BY <1>1
<1>4. \A g \in Fds : v.item[g].used <=> g \in v.open
  BY <1>1 DEF Consistent
<1>5. \A g \in Fds : g \in Mine(v) <=> g \in v.open /\ v.item[g].data = s
  BY <1>1 DEF Consistent
<1>6. \A g \in open : item[g].data # s =>
        g \in v.open /\ v.item[g] = item[g] /\ (g \in v.fresh <=> g \in fresh)
  <2> SUFFICES ASSUME NEW g \in open, item[g].data # s
               PROVE  g \in v.open /\ v.item[g] = item[g] /\ (g \in v.fresh <=> g \in fresh)
    OBVIOUS
  <2>1. g \in w.open /\ w.item[g] = item[g] /\ (g \in w.fresh <=> g \in fresh)
    BY DEF Consistent
  <2>2. g \in Fds \ G
    BY <1>1, <1>2, <2>1
  <2> QED
    BY <2>1, <2>2
<1>7. \A g \in v.open : v.item[g].data # s => g \in open /\ v.item[g] = item[g]
  <2> SUFFICES ASSUME NEW g \in v.open, v.item[g].data # s
               PROVE  g \in open /\ v.item[g] = item[g]
    OBVIOUS
  <2>1. g \in Fds \ G /\ g \in w.open
    BY <1>1
  <2>2. v.item[g] = w.item[g]
    BY <2>1
  <2> QED
    BY <2>1, <2>2 DEF Consistent
<1>8. Consistent(v, s)
  BY <1>3, <1>4, <1>5, <1>6, <1>7 DEF Consistent
<1> QED
  BY <1>8 DEF Within

\* The origin socket of a session that connects goes.
LEMMA DropOriginConsistent ==
  ASSUME NEW s \in Slots, NEW w, Consistent(w, s), w.me.st = "connecting"
  PROVE  LET v == DropOrigin(w) IN
         /\ Consistent(v, s) /\ Within(v, w) /\ v.me.origin = NoFd
         /\ v.me.client = w.me.client /\ v.me.st = w.me.st
<1>1. w \in Worlds /\ Shape(w.me) /\ w.me.origin \in Fds \cup {NoFd} /\ w.me.client \in Fds \cup {NoFd}
  BY WorldFields DEF Consistent
<1>2. CASE w.me.origin = NoFd
  BY <1>2 DEF DropOrigin, Within
<1>3. CASE w.me.origin # NoFd
  <2> DEFINE f == w.me.origin
             u == ClosedFd(Unregistered(w, f), f)
             v == DropOrigin(w)
  <2>1. f \in Fds /\ f \in Mine(w)
    BY <1>1, <1>3 DEF Mine
  <2>2. /\ u \in Worlds /\ u.open = w.open \ {f} /\ u.fresh = w.fresh \ {f}
        /\ u.me = w.me /\ u.item[f].used = FALSE
        /\ \A g \in Fds \ {f} : u.item[g] = w.item[g]
    BY <1>1, <2>1, GoneIs
  <2>3. v = [u EXCEPT !.me.origin = NoFd, !.conn = "none"]
    BY <1>3 DEF DropOrigin
  <2> HIDE DEF u, v
  <2>4. /\ v \in Worlds /\ v.item = u.item /\ v.open = u.open /\ v.fresh = u.fresh
        /\ v.me.origin = NoFd /\ v.me.client = u.me.client /\ v.me.st = u.me.st
    BY <2>2, <2>3 DEF Worlds, States, Conns
  <2>5. Mine(v) = Mine(w) \ {f}
    BY <1>1, <1>3, <2>2, <2>4 DEF Mine, Shape
  <2>6. Shape(v.me)
    BY <1>1, <2>2, <2>4 DEF Shape
  <2>7. Consistent(v, s) /\ Within(v, w)
    <3> DEFINE G == {f}
    <3>1. /\ v \in Worlds /\ G \in SUBSET Mine(w) /\ Mine(v) = Mine(w) \ G /\ Shape(v.me)
          /\ v.open = w.open \ G /\ v.fresh = w.fresh \ G
          /\ \A g \in G : v.item[g].used = FALSE
          /\ \A g \in Fds \ G : v.item[g] = w.item[g]
      BY <2>1, <2>2, <2>4, <2>5, <2>6
    <3> HIDE DEF G, f
    <3> QED
      BY <3>1, LessConsistent
  <2> QED
    BY <2>2, <2>4, <2>7 DEF v
<1> QED
  BY <1>2, <1>3

\* socksv5_done
LEMMA DoneConsistent ==
  ASSUME NEW s \in Slots, NEW w, Consistent(w, s), w.me.client # NoFd
  PROVE  Consistent(Done(w), s) /\ Within(Done(w), w)
<1> DEFINE c == w.me.client
           o == w.me.origin
           u == ClosedFd(Unregistered(w, c), c)
           d == DropOrigin(u)
           v == Done(w)
<1>1. w \in Worlds /\ Shape(w.me) /\ o \in Fds \cup {NoFd} /\ c \in Fds
  BY WorldFields DEF Consistent
<1>2. /\ u \in Worlds /\ u.open = w.open \ {c} /\ u.fresh = w.fresh \ {c}
      /\ u.me = w.me /\ u.item[c].used = FALSE
      /\ \A g \in Fds \ {c} : u.item[g] = w.item[g]
  BY <1>1, GoneIs
<1>3. v = [d EXCEPT !.me = NoSession]
  BY DEF Done
<1>4. /\ d \in Worlds /\ d.open = w.open \ Mine(w) /\ d.fresh = w.fresh \ Mine(w)
      /\ \A g \in Mine(w) : d.item[g].used = FALSE
      /\ \A g \in Fds \ Mine(w) : d.item[g] = w.item[g]
  <2> HIDE DEF u
  <2>1. CASE o = NoFd
    <3>1. d = u /\ Mine(w) = {c}
      BY <1>2, <2>1 DEF DropOrigin, Mine
    <3> QED
      BY <1>1, <1>2, <3>1
  <2>2. CASE o # NoFd
    <3> DEFINE x == ClosedFd(Unregistered(u, o), o)
    <3>1. Mine(w) = {c, o} /\ o \in Fds /\ o # c
      BY <1>1, <2>2 DEF Mine, Shape
    <3>2. /\ x \in Worlds /\ x.open = u.open \ {o} /\ x.fresh = u.fresh \ {o}
          /\ x.item[o].used = FALSE
          /\ \A g \in Fds \ {o} : x.item[g] = u.item[g]
      BY <1>2, <3>1, GoneIs, ZenonT(60)
    <3>3. d = [x EXCEPT !.me.origin = NoFd, !.conn = "none"]
      BY <1>2, <2>2 DEF DropOrigin
    <3> HIDE DEF x, d
    <3>4. d \in Worlds /\ d.item = x.item /\ d.open = x.open /\ d.fresh = x.fresh
      BY <3>2, <3>3 DEF Worlds, States, Conns
    <3> QED
      BY <1>1, <1>2, <3>1, <3>2, <3>4
  <2> QED
    BY <2>1, <2>2
<1> HIDE DEF d, v
<1>5. v \in Worlds /\ v.item = d.item /\ v.open = d.open /\ v.fresh = d.fresh /\ v.me = NoSession
  BY <1>3, <1>4 DEF Worlds, States, SessionStates, NoSession
<1>6. Mine(v) = {} /\ Shape(v.me)
  BY <1>5 DEF Mine, NoSession, Shape
<1>7. Consistent(v, s) /\ Within(v, w)
  <2> DEFINE G == Mine(w)
  <2>1. Mine(v) = Mine(w) \ G /\ G \in SUBSET Mine(w)
    BY <1>6
  <2>2. /\ v \in Worlds /\ Shape(v.me) /\ v.open = w.open \ G /\ v.fresh = w.fresh \ G
        /\ \A g \in G : v.item[g].used = FALSE
        /\ \A g \in Fds \ G : v.item[g] = w.item[g]
    BY <1>4, <1>5, <1>6
  <2> HIDE DEF G
  <2> QED
    BY <2>1, <2>2, LessConsistent
<1> QED
  BY <1>7 DEF v

\* REQUEST_WRITE as socksv5_pump leaves it
LEMMA RepliesConsistent ==
  ASSUME NEW s \in Slots, NEW w, Consistent(w, s), w.me.client # NoFd,
         NEW ok \in BOOLEAN, ok => w.me.origin # NoFd, NEW v \in Replies(w, ok)
  PROVE  Consistent(v, s) /\ Within(v, w)
<1> DEFINE r == Replying(w, ok)
<1>1. /\ Consistent(r, s) /\ Within(r, w) /\ r.me.client = w.me.client
      /\ r.me.origin = w.me.origin
  BY ReplyingConsistent
<1>2. v = r \/ v = Done(w) \/ (ok /\ v = Tunnel(r))
  BY DEF Replies
<1>3. Consistent(Done(w), s) /\ Within(Done(w), w)
  BY DoneConsistent
<1> HIDE DEF r
<1>4. ok => Consistent(Tunnel(r), s) /\ Within(Tunnel(r), r)
  BY <1>1, TunnelConsistent
<1> QED
  BY <1>1, <1>2, <1>3, <1>4 DEF Within

\* The session opens and registers a number that nobody has.
LEMMA MoreConsistent ==
  ASSUME NEW s \in Slots, NEW w, Consistent(w, s), NEW v \in Worlds,
         NEW f \in Fds \ w.open, Mine(v) = Mine(w) \cup {f}, Shape(v.me),
         v.open = w.open \cup {f}, v.fresh = w.fresh \cup {f},
         v.item[f].data = s, v.item[f].used,
         \A g \in Fds \ {f} : v.item[g] = w.item[g]
  PROVE  Consistent(v, s)
<1>1. w \in Worlds /\ w.open \subseteq Fds /\ w.fresh \subseteq w.open
  BY WorldFields DEF Consistent
<1>2. v.fresh \subseteq v.open
  BY <1>1
<1>3. \A g \in Fds : v.item[g].used <=> g \in v.open
  BY <1>1 DEF Consistent
<1>4. \A g \in Fds : g \in Mine(v) <=> g \in v.open /\ v.item[g].data = s
  BY <1>1 DEF Consistent
<1>5. \A g \in open : item[g].data # s =>
        g \in v.open /\ v.item[g] = item[g] /\ (g \in v.fresh <=> g \in fresh)
  <2> SUFFICES ASSUME NEW g \in open, item[g].data # s
               PROVE  g \in v.open /\ v.item[g] = item[g] /\ (g \in v.fresh <=> g \in fresh)
    OBVIOUS
  <2>1. g \in w.open /\ w.item[g] = item[g] /\ (g \in w.fresh <=> g \in fresh)
    BY DEF Consistent
  <2>2. g \in Fds \ {f}
    BY <1>1, <2>1
  <2> QED
    BY <2>1, <2>2
<1>6. \A g \in v.open : v.item[g].data # s => g \in open /\ v.item[g] = item[g]
  <2> SUFFICES ASSUME NEW g \in v.open, v.item[g].data # s
               PROVE  g \in open /\ v.item[g] = item[g]
    OBVIOUS
  <2>1. g \in Fds \ {f} /\ g \in w.open
    BY <1>1
  <2>2. v.item[g] = w.item[g]
    BY <2>1
  <2> QED
    BY <2>1, <2>2 DEF Consistent
<1> QED
  BY <1>2, <1>3, <1>4, <1>5, <1>6 DEF Consistent

\* connecting_init: a fresh origin, or the error path.
LEMMA ConnectConsistent ==
  ASSUME NEW s \in Slots, NEW w, Consistent(w, s), w.me.client # NoFd, w.me.origin = NoFd
  PROVE  Consistent(Connect(w, s), s) /\ Outcome(Connect(w, s), w)
<1> DEFINE f == Lowest(w.open)
           c == w.me.client
           t == Interested(w, c, {})
           u == OpenedFd(t, f)
           x == Registered(u, f, s, {"W"})
           v == Connect(w, s)
<1>1. w \in Worlds /\ c \in Mine(w) /\ c \in Fds /\ c \in w.open /\ w.open \subseteq Fds
  <2>1. w \in Worlds /\ c \in Mine(w)
    BY DEF Consistent, Mine
  <2>2. c \in Fds /\ w.open \subseteq Fds
    BY <2>1, WorldFields
  <2> QED
    BY <2>1, <2>2 DEF Consistent
<1>2. CASE ~CanOpen(w.open) \/ f >= ItemsMax
  <2>1. v = Failing(w)
    BY <1>2 DEF Connect
  <2>2. Consistent(Failing(w), s) /\ Within(Failing(w), w)
    BY FailingConsistent
  <2> QED
    BY <2>1, <2>2 DEF Outcome, Within
<1>3. CASE ~(~CanOpen(w.open) \/ f >= ItemsMax)
  <2>1. f \in Fds /\ f \notin w.open /\ f # c
    BY <1>1, <1>3, LowestFree
  <2>2. v = [x EXCEPT !.me.st = "connecting", !.me.origin = f, !.conn = "progress"]
    BY <1>3 DEF Connect
  <2> HIDE DEF f
  <2>3. Consistent(t, s) /\ t.me = w.me /\ Mine(t) = Mine(w) /\ t \in Worlds
    BY <1>1, InterestedConsistent DEF Consistent
  <2>4. t.open = w.open /\ t.fresh = w.fresh /\ t.item[c].interest = {}
    BY <1>1, InterestedIs
  <2> HIDE DEF t
  <2>5. /\ u \in Worlds /\ u.open = t.open \cup {f} /\ u.fresh = t.fresh \cup {f}
        /\ u.me = t.me /\ u.item = t.item
    BY <2>1, <2>3, OpenedFdIs
  <2> HIDE DEF u
  <2>6. /\ x \in Worlds /\ x.open = u.open /\ x.fresh = u.fresh /\ x.me = u.me
        /\ x.item[f].data = s /\ x.item[f].interest = {"W"} /\ x.item[f].used
        /\ \A g \in Fds \ {f} : x.item[g] = u.item[g]
    <3>1. {"W"} \in SUBSET {"R", "W"}
      OBVIOUS
    <3> QED
      BY <2>1, <2>5, <3>1, RegisteredIs
  <2> HIDE DEF x, v
  <2>7. /\ v \in Worlds /\ v.item = x.item /\ v.open = x.open /\ v.fresh = x.fresh
        /\ v.me.st = "connecting" /\ v.me.origin = f /\ v.me.client = x.me.client
    BY <2>1, <2>2, <2>6 DEF Worlds, States, Conns, SessionStates
  <2>8. v.me.client = c
    BY <2>3, <2>5, <2>6, <2>7
  <2>9. f # NoFd
    BY <2>1, FdFacts
  <2>10. Mine(v) = Mine(t) \cup {f}
    BY <2>3, <2>7, <2>8, <2>9 DEF Mine
  <2>11. Shape(v.me)
    BY <2>1, <2>7, <2>8 DEF Shape
  <2>12. Consistent(v, s)
    <3>1. /\ v \in Worlds /\ f \in Fds \ t.open
          /\ v.open = t.open \cup {f} /\ v.fresh = t.fresh \cup {f}
          /\ v.item[f].data = s /\ v.item[f].used
          /\ \A g \in Fds \ {f} : v.item[g] = t.item[g]
      BY <2>1, <2>4, <2>5, <2>6, <2>7
    <3> QED
      BY <2>3, <2>10, <2>11, <3>1, MoreConsistent
  <2>13. ConnectsIn(v, f)
    BY <1>1, <2>1, <2>4, <2>5, <2>6, <2>7, <2>8 DEF ConnectsIn
  <2>14. Outcome(v, w)
    BY <2>3, <2>4, <2>5, <2>6, <2>7, <2>10, <2>13 DEF Outcome
  <2> QED
    BY <2>12, <2>14 DEF v
<1> QED
  BY <1>2, <1>3

\* socksv5_passive_accept, for a slot that is free
AcceptWorld(s, f) ==
    [Registered(OpenedFd(World(s), f), f, s, {"R"}) EXCEPT !.me.st = "read", !.me.client = f]

\* The new session has the new number and nothing else.
LEMMA AcceptConsistent ==
  ASSUME NEW s \in Slots, Consistent(World(s), s), ses[s].st = "none",
         NEW f \in Fds \ open
  PROVE  Consistent(AcceptWorld(s, f), s) /\ Mine(AcceptWorld(s, f)) = {f}
<1> DEFINE w == World(s)
           u == OpenedFd(w, f)
           x == Registered(u, f, s, {"R"})
           v == AcceptWorld(s, f)
<1>1. /\ w \in Worlds /\ w.open = open /\ w.me = ses[s] /\ Shape(w.me)
      /\ w.me.client = NoFd /\ w.me.origin = NoFd
  BY DEF World, Consistent, Shape
<1>2. v = [x EXCEPT !.me.st = "read", !.me.client = f]
  BY DEF AcceptWorld
<1>3. f # NoFd
  BY FdFacts
<1> HIDE DEF w
<1>4. /\ u \in Worlds /\ u.open = w.open \cup {f} /\ u.fresh = w.fresh \cup {f}
      /\ u.me = w.me /\ u.item = w.item
  BY <1>1, OpenedFdIs
<1> HIDE DEF u
<1>5. /\ x \in Worlds /\ x.open = u.open /\ x.fresh = u.fresh /\ x.me = u.me
      /\ x.item[f].data = s /\ x.item[f].used
      /\ \A g \in Fds \ {f} : x.item[g] = u.item[g]
  <2>1. {"R"} \in SUBSET {"R", "W"}
    OBVIOUS
  <2> QED
    BY <1>4, <2>1, RegisteredIs
<1> HIDE DEF x, v
<1>6. /\ v \in Worlds /\ v.item = x.item /\ v.open = x.open /\ v.fresh = x.fresh
      /\ v.me.st = "read" /\ v.me.origin = x.me.origin /\ v.me.client = f
  BY <1>2, <1>5 DEF Worlds, States, SessionStates
<1>7. Mine(v) = {f} /\ Mine(w) = {}
  BY <1>1, <1>3, <1>4, <1>5, <1>6 DEF Mine
<1>8. Shape(v.me)
  BY <1>1, <1>3, <1>4, <1>5, <1>6 DEF Shape
<1>9. Consistent(v, s)
  <2>1. Consistent(w, s) /\ Mine(v) = Mine(w) \cup {f} /\ f \in Fds \ w.open
    BY <1>1, <1>7 DEF w
  <2> QED
    <3>1. /\ v \in Worlds /\ v.open = w.open \cup {f} /\ v.fresh = w.fresh \cup {f}
          /\ v.item[f].data = s /\ v.item[f].used
          /\ \A g \in Fds \ {f} : v.item[g] = w.item[g]
      BY <1>4, <1>5, <1>6
    <3> QED
      BY <1>8, <2>1, <3>1, MoreConsistent
<1> QED
  BY <1>7, <1>9 DEF v

-----------------------------------------------------------------------------
\* From the handler's world to the next state.

\* The state is consistent to begin with.
LEMMA WorldConsistent ==
  ASSUME FdInv, NEW s \in Slots
  PROVE  Consistent(World(s), s) /\ World(s).me = ses[s] /\ World(s).fresh = fresh
<1> DEFINE w == World(s)
<1>1. TypeOK /\ FdsExact /\ Shape(ses[s])
  BY DEF FdInv, FdsExact
<1>2. /\ w.item = item /\ w.open = open /\ w.fresh = fresh /\ w.conn = conn[s] /\ w.me = ses[s]
  BY DEF World
<1>3. w \in Worlds
  BY <1>1 DEF TypeOK, World, Worlds, Items, States, Conns
<1> HIDE DEF w
<1>4. /\ open \subseteq Fds /\ fresh \subseteq open /\ item \in [Fds -> Items]
      /\ ses[s].client \in Fds \cup {NoFd} /\ ses[s].origin \in Fds \cup {NoFd}
  BY <1>1 DEF TypeOK, Items
<1>5. \A f \in Fds : item[f].used <=> f \in open
  BY <1>1 DEF FdsExact, Used
<1>6. ASSUME NEW f \in Fds
      PROVE  f \in Mine(w) <=> f \in open /\ item[f].data = s
  <2>1. f \in Mine(w) => f \in open /\ item[f].data = s
    BY <1>1, <1>2 DEF FdsExact, Mine
  <2>2. f \in open /\ item[f].data = s => f \in Mine(w)
    <3> SUFFICES ASSUME f \in open, item[f].data = s PROVE f \in Mine(w)
      OBVIOUS
    <3>1. f # Listener
      BY FdAssumption DEF FdInv
    <3>2. f \in {ses[s].client, ses[s].origin}
      BY <1>1, <3>1 DEF FdsExact
    <3> QED
      BY <1>2, <3>2, FdFacts DEF Mine
  <2> QED
    BY <2>1, <2>2
<1>7. Consistent(w, s)
  BY <1>1, <1>2, <1>3, <1>4, <1>5, <1>6 DEF Consistent
<1> QED
  BY <1>2, <1>7 DEF w

\* The table, the kernel and the sessions agree after the step of one session.
LEMMA LeavesFds ==
  ASSUME FdInv, NEW s \in Slots, NEW v, Consistent(v, s), Leaves(s, v),
         phase' \in {"wait", "iterate", "notify", "sweep"}, jobs' \subseteq Fds,
         slaveR' \subseteq Fds, slaveW' \subseteq Fds, asked' \in [Fds -> Slots \cup {NoSlot}]
  PROVE  FdInv'
<1>1. TypeOK /\ FdsExact /\ \A t \in Slots : Shape(ses[t])
  BY DEF FdInv, FdsExact
<1>2. v \in Worlds /\ v.fresh \subseteq v.open /\ Shape(v.me)
  BY DEF Consistent
<1>3. /\ v.item \in [Fds -> Items] /\ v.open \subseteq Fds /\ v.conn \in Conns
      /\ v.me \in States /\ Mine(v) \subseteq Fds
  BY <1>2, WorldFields
<1>4. /\ item' = v.item /\ open' = v.open /\ fresh' = v.fresh
      /\ conn' = [conn EXCEPT ![s] = v.conn] /\ ses' = [ses EXCEPT ![s] = v.me]
  BY DEF Leaves
<1>5. /\ ses' \in [Slots -> States] /\ ses'[s] = v.me /\ \A t \in Slots \ {s} : ses'[t] = ses[t]
  BY <1>1, <1>3, <1>4 DEF TypeOK, States
<1>6. TypeOK'
  BY <1>1, <1>2, <1>3, <1>4, <1>5 DEF TypeOK, Items, States, Conns
<1>7. open' = {f \in Fds : item'[f].used}
  BY <1>3, <1>4 DEF Consistent
<1>8. Listener \in open /\ item[Listener].data # s
  BY <1>1, FdFacts, FdAssumption DEF FdInv, FdsExact, Used
<1>9. item'[Listener] = item[Listener]
  BY <1>4, <1>8 DEF Consistent
<1>10. \A f \in Mine(v) : f \in v.open /\ v.item[f].data = s
  BY <1>3 DEF Consistent
<1>11. ASSUME NEW f \in open' \ {Listener}
       PROVE  /\ item'[f].data # NoSlot
              /\ f \in {ses'[item'[f].data].client, ses'[item'[f].data].origin}
  <2>1. f \in Fds /\ f \in v.open
    BY <1>3, <1>4
  <2>2. CASE v.item[f].data = s
    <3>1. f \in Mine(v)
      BY <2>1, <2>2 DEF Consistent
    <3> QED
      BY <1>4, <1>5, <2>2, <3>1, FdAssumption DEF Mine
  <2>3. CASE v.item[f].data # s
    <3>1. f \in open /\ v.item[f] = item[f]
      BY <2>1, <2>3 DEF Consistent
    <3>2. item[f].data # NoSlot /\ f \in {ses[item[f].data].client, ses[item[f].data].origin}
      BY <1>1, <3>1 DEF FdsExact
    <3>3. item[f].data \in Slots \ {s}
      BY <1>1, <2>1, <2>3, <3>1, <3>2 DEF TypeOK
    <3> QED
      BY <1>4, <1>5, <3>1, <3>2, <3>3
  <2> QED
    BY <2>2, <2>3
<1>12. ASSUME NEW t \in Slots, NEW f \in {ses'[t].client, ses'[t].origin} \ {NoFd}
       PROVE  f \in open' /\ item'[f].data = t
  <2>1. CASE t = s
    BY <1>4, <1>5, <1>10, <2>1 DEF Mine
  <2>2. CASE t # s
    <3>1. f \in {ses[t].client, ses[t].origin} \ {NoFd}
      BY <1>5, <2>2
    <3>2. f \in open /\ item[f].data = t
      BY <1>1, <3>1 DEF FdsExact
    <3> QED
      BY <1>4, <2>2, <3>2 DEF Consistent
  <2> QED
    BY <2>1, <2>2
<1>13. FdsExact'
  BY <1>6, <1>7, <1>11, <1>12 DEF FdsExact, Used
<1>14. \A t \in Slots : Shape(ses'[t])
  BY <1>1, <1>2, <1>5
<1>15. \A t \in Slots : Shape(ses[t])'
  BY <1>14 DEF Shape
<1> QED
  BY <1>9, <1>13, <1>15 DEF FdInv

\* What handle_iteration may still call stays as FreshInv says.
LEMMA LeavesFresh ==
  ASSUME FdInv, FreshInv, NEW s \in Slots, NEW v, Consistent(v, s), Leaves(s, v),
         phase' = "iterate", Slaves' \subseteq Slaves, Listener \notin slaveR',
         \A f \in v.fresh \cap Mine(v) : f \in Slaves' => ConnectsIn(v, f)
  PROVE  FreshInv'
<1>1. TypeOK /\ FdsExact /\ \A t \in Slots : Shape(ses[t])
  BY DEF FdInv, FdsExact
<1>2. /\ item' = v.item /\ open' = v.open /\ fresh' = v.fresh /\ ses' = [ses EXCEPT ![s] = v.me]
  BY DEF Leaves
<1>3. ses'[s] = v.me /\ \A t \in Slots \ {s} : ses'[t] = ses[t]
  BY <1>1, <1>2 DEF TypeOK
<1>4. v \in Worlds /\ v.open \subseteq Fds /\ v.fresh \subseteq v.open
  BY WorldFields DEF Consistent
<1>5. ASSUME NEW f \in fresh' \cap Slaves'
      PROVE  Connects(f)'
  <2>1. f \in v.fresh /\ f \in v.open /\ f \in Fds /\ f \in Slaves
    BY <1>2, <1>4
  <2>2. CASE v.item[f].data = s
    <3>1. f \in Mine(v)
      BY <2>1, <2>2 DEF Consistent
    <3>2. ConnectsIn(v, f)
      BY <2>1, <3>1
    <3> QED
      BY <1>2, <1>3, <2>2, <3>2 DEF ConnectsIn, Connects
  <2>3. CASE v.item[f].data # s
    <3> DEFINE t == item[f].data
    <3>1. f \in open /\ v.item[f] = item[f]
      BY <2>1, <2>3 DEF Consistent
    <3>2. f \in fresh
      BY <2>1, <2>3, <3>1 DEF Consistent
    <3>3. Connects(f)
      BY <2>1, <3>2 DEF FreshInv
    <3>4. f # Listener
      BY <3>3 DEF Connects, FdInv
    <3>5. t \in Slots \ {s}
      BY <1>1, <2>1, <2>3, <3>1, <3>4 DEF FdsExact, TypeOK
    <3> HIDE DEF t
    <3>6. /\ ses[t].st = "connecting" /\ ses[t].origin = f /\ item[f].interest = {"W"}
          /\ item[ses[t].client].interest = {}
      BY <3>3 DEF Connects, t
    <3>7. ses[t].client # NoFd
      BY <1>1, <3>5, <3>6 DEF Shape
    <3>8. ses[t].client \in open /\ item[ses[t].client].data = t
      BY <1>1, <3>5, <3>7 DEF FdsExact
    <3>9. v.item[ses[t].client] = item[ses[t].client]
      BY <3>5, <3>8 DEF Consistent
    <3>10. item'[f].data = t /\ ses'[t] = ses[t]
      BY <1>2, <1>3, <3>1, <3>5 DEF t
    <3> QED
      BY <1>2, <3>1, <3>6, <3>9, <3>10 DEF Connects
  <2> QED
    BY <2>2, <2>3
<1> QED
  BY <1>5 DEF FreshInv

\* Where handle_iteration is, and whom it calls.
LEMMA Called ==
  ASSUME LoopInv, Reads \/ Writes
  PROVE  /\ phase = "iterate" /\ Here \in Nat /\ Fd \in Fds /\ Fd \in open
         /\ Reads  => Here = 2 * Fd /\ "R" \in item[Fd].interest /\ Fd \in slaveR
         /\ Writes => Here = 2 * Fd + 1 /\ "W" \in item[Fd].interest /\ Fd \in slaveW
         /\ Owner = NoSlot => Fd = Listener
         /\ Owner # NoSlot =>
              /\ Owner \in Slots /\ Fd \in {ses[Owner].client, ses[Owner].origin}
              /\ Fd # NoFd
<1>1. FdsExact /\ TypeOK
  BY DEF LoopInv, FdInv, FdsExact
<1>2. phase = "iterate" /\ Ahead # {} /\ OsMax \in Nat
  BY FdAssumption DEF Reads, Writes
<1>3. Ahead \subseteq 0..(2 * OsMax + 1) /\ Ahead \subseteq Nat
  BY <1>2 DEF Ahead
<1>4. \E p \in Ahead : \A q \in Ahead : p <= q
  BY <1>2, <1>3, Least
<1>5. Here \in Ahead
  BY <1>4 DEF Here
<1>6. Here \in 0..(2 * OsMax + 1) /\ Calls(Here)
  BY <1>5 DEF Ahead
<1>7. Fd \in 0..OsMax /\ Here \in Nat /\ (Here % 2 = 0 => Here = 2 * Fd)
      /\ (Here % 2 = 1 => Here = 2 * Fd + 1)
  BY <1>2, <1>6 DEF Fd
<1>8. Fd \in Fds /\ Used(Fd)
  BY <1>6, <1>7 DEF Fds, Calls, Fd
<1>9. Fd \in open
  BY <1>1, <1>8 DEF FdsExact
<1>10. Reads  => "R" \in item[Fd].interest /\ Fd \in slaveR
  BY <1>6 DEF Calls, Fd, Reads
<1>11. Writes  => "W" \in item[Fd].interest /\ Fd \in slaveW
  BY <1>6 DEF Calls, Fd, Writes
<1>12. Owner = NoSlot => Fd = Listener
  BY <1>1, <1>9 DEF FdsExact, Owner
<1>13. Owner # NoSlot => Fd # Listener
  BY DEF LoopInv, FdInv, Owner
<1>14. Owner # NoSlot => /\ Owner \in Slots /\ Fd \in {ses[Owner].client, ses[Owner].origin}
                         /\ Fd # NoFd
  BY <1>1, <1>8, <1>9, <1>13, FdFacts DEF FdsExact, TypeOK, Owner
<1> QED
  BY <1>2, <1>7, <1>8, <1>9, <1>10, <1>11, <1>12, <1>14 DEF Reads, Writes

\* The loop goes on behind Here.
LEMMA HandledSlaves ==
  ASSUME LoopInv, Reads \/ Writes, Handled
  PROVE  /\ phase' = "iterate" /\ Slaves' \subseteq Slaves /\ Listener \notin slaveR'
         /\ slaveR' \subseteq Fds /\ slaveW' \subseteq Fds
         /\ Writes => Fd \notin Slaves'
<1>1. TypeOK /\ slaveR \subseteq Fds /\ slaveW \subseteq Fds /\ Fds \subseteq Nat
  BY FdFacts DEF LoopInv, FdInv, FdsExact, TypeOK
<1>2. phase = "iterate" /\ Here \in Nat /\ Fd \in Fds /\ (Writes => Here = 2 * Fd + 1)
  BY Called
<1>3. /\ slaveR' = {f \in slaveR : 2 * f > Here}
      /\ slaveW' = {f \in slaveW : 2 * f + 1 > Here} /\ phase' = phase
  BY DEF Handled
<1>4. Listener \notin slaveR'
  BY <1>2, <1>3 DEF Listener
<1>5. Writes => Fd \notin Slaves'
  <2> SUFFICES ASSUME Writes PROVE Fd \notin slaveR' /\ Fd \notin slaveW'
    BY DEF Slaves
  <2>1. Here = 2 * Fd + 1 /\ Fd \in Nat
    BY <1>1, <1>2
  <2> QED
    BY <1>3, <2>1
<1> QED
  BY <1>1, <1>2, <1>3, <1>4, <1>5 DEF Slaves

\* The jobs of the others stay where they are.
LEMMA SameAsked ==
  ASSUME JobsInv, NEW s \in Slots, ses[s].st # "resolv", NEW r, ses' = [ses EXCEPT ![s] = r],
         ses \in [Slots -> States], asked \in [Fds -> Slots \cup {NoSlot}],
         UNCHANGED <<jobs, asked>>
  PROVE  JobsInv'
<1>1. \A t \in Slots \ {s} : ses'[t] = ses[t]
  OBVIOUS
<1>2. \A f \in Fds : asked[f] # NoSlot => asked[f] \in Slots \ {s}
  BY DEF JobsInv, JobsReachAsker
<1>3. JobsReachAsker'
  BY <1>1, <1>2 DEF JobsInv, JobsReachAsker
<1> QED
  BY <1>3 DEF JobsInv

\* A handler called for a descriptor of session s.
LEMMA HandlerInv ==
  ASSUME LoopInv, Reads \/ Writes, Owner # NoSlot, NEW v, Consistent(v, Owner),
         Outcome(v, World(Owner)), Leaves(Owner, v), Handled, jobs' = jobs,
         asked' \in [Fds -> Slots \cup {NoSlot}], JobsInv'
  PROVE  LoopInv'
<1> DEFINE s == Owner
           w == World(s)
<1>1. FdInv /\ FreshInv /\ FdsExact /\ TypeOK
  BY DEF LoopInv, FdInv, FdsExact
<1>2. /\ phase' = "iterate" /\ Slaves' \subseteq Slaves /\ Listener \notin slaveR'
      /\ slaveR' \subseteq Fds /\ slaveW' \subseteq Fds /\ (Writes => Fd \notin Slaves')
  BY HandledSlaves
<1>3. /\ s \in Slots /\ Fd \in {ses[s].client, ses[s].origin} /\ Fd # NoFd /\ Fd \in Fds
      /\ Reads  => "R" \in item[Fd].interest /\ Fd \in slaveR
      /\ Writes => "W" \in item[Fd].interest /\ Fd \in slaveW
  BY Called
<1>4. Consistent(w, s) /\ w.me = ses[s] /\ w.fresh = fresh
  BY <1>1, <1>3, WorldConsistent
<1> HIDE DEF s, w
<1>5. FdInv'
  BY <1>1, <1>2, <1>3, LeavesFds DEF TypeOK, s
<1>6. ASSUME NEW f \in fresh \cap Mine(w), f \in Slaves'
      PROVE  FALSE
  <2>1. f \in Slaves /\ f \in {ses[s].client, ses[s].origin} \ {NoFd}
    BY <1>2, <1>4, <1>6 DEF Mine
  <2>2. item[f].data = s
    BY <1>1, <1>3, <2>1 DEF FdsExact
  <2>3. Connects(f)
    BY <1>1, <1>6, <2>1 DEF FreshInv
  <2>4. ses[s].origin = f /\ item[f].interest = {"W"} /\ item[ses[s].client].interest = {}
    BY <2>2, <2>3 DEF Connects
  <2>5. Fd = f
    BY <1>3, <2>4
  <2>6. Writes
    BY <1>3, <2>4, <2>5
  <2> QED
    BY <1>2, <1>6, <2>5, <2>6
<1>7. \A f \in v.fresh \cap Mine(v) : f \in Slaves' => ConnectsIn(v, f)
  BY <1>4, <1>6 DEF Outcome, s, w
<1>8. FreshInv'
  BY <1>1, <1>2, <1>3, <1>7, LeavesFresh DEF s
<1> QED
  BY <1>5, <1>8 DEF LoopInv

-----------------------------------------------------------------------------
\* The handlers.

\* What a handler of the session knows of it.
LEMMA OwnerFacts ==
  ASSUME LoopInv, Reads \/ Writes, Owner # NoSlot
  PROVE  /\ Owner \in Slots /\ Consistent(World(Owner), Owner)
         /\ World(Owner).me = ses[Owner] /\ World(Owner).me.client # NoFd
         /\ Fd \in Mine(World(Owner))
         /\ ses[Owner].origin # NoFd => ses[Owner].st \in {"connecting", "reply", "copy"}
         /\ ses[Owner].st = "reply" /\ ses[Owner].good => ses[Owner].origin # NoFd
         /\ ses[Owner].good \in BOOLEAN
         /\ ses \in [Slots -> States] /\ asked \in [Fds -> Slots \cup {NoSlot}]
<1>1. FdInv /\ TypeOK
  BY DEF LoopInv, FdInv, FdsExact
<1>2. Owner \in Slots /\ Fd \in {ses[Owner].client, ses[Owner].origin} /\ Fd # NoFd
  BY Called
<1>3. Consistent(World(Owner), Owner) /\ World(Owner).me = ses[Owner]
  BY <1>1, <1>2, WorldConsistent
<1>4. Shape(ses[Owner])
  BY <1>1, <1>2 DEF FdInv
<1>5. ses \in [Slots -> States] /\ ses[Owner].good \in BOOLEAN
      /\ asked \in [Fds -> Slots \cup {NoSlot}]
  BY <1>1, <1>2 DEF TypeOK, States
<1> QED
  BY <1>2, <1>3, <1>4, <1>5 DEF Shape, Mine

\* A handler that leaves the DNS thread's jobs alone.
LEMMA PlainHandlerInv ==
  ASSUME LoopInv, Reads \/ Writes, Owner # NoSlot, ses[Owner].st # "resolv",
         NEW v, Consistent(v, Owner), Outcome(v, World(Owner)), Leaves(Owner, v), Handled,
         UNCHANGED <<jobs, asked>>
  PROVE  LoopInv'
<1>1. /\ Owner \in Slots /\ ses \in [Slots -> States]
      /\ asked \in [Fds -> Slots \cup {NoSlot}]
  BY OwnerFacts
<1>2. JobsInv'
  BY <1>1, SameAsked DEF LoopInv, Leaves
<1> QED
  BY <1>1, <1>2, HandlerInv

\* What keeps to the numbers of the session opens none.
LEMMA WithinOutcome ==
  ASSUME NEW v, NEW w, Within(v, w)
  PROVE  Outcome(v, w)
  BY DEF Within, Outcome

\* The same in two steps.
LEMMA OutcomeWithin ==
  ASSUME NEW v, NEW u, NEW w, Outcome(v, u), Within(u, w)
  PROVE  Outcome(v, w)
  BY DEF Within, Outcome

\* The handlers of the negotiation
LEMMA NegotiateInv ==
  ASSUME LoopInv, Negotiate
  PROVE  LoopInv'
<1> DEFINE s == Owner
           w == World(s)
<1>1. /\ Reads \/ Writes
      /\ s # NoSlot /\ ses[s].st = "read" /\ Handled /\ UNCHANGED <<jobs, asked>>
  BY DEF Negotiate
<1>2. PICK v \in {Interested(w, Fd, {"R"}), Interested(w, Fd, {"W"}),
                  Connect(w, s), Failing(w)} \cup Replies(w, FALSE) : Leaves(s, v)
  BY DEF Negotiate
<1>3. /\ s \in Slots /\ Consistent(w, s) /\ w.me = ses[s] /\ w.me.client # NoFd
      /\ Fd \in Mine(w) /\ w.me.origin = NoFd
  BY <1>1, OwnerFacts
<1> HIDE DEF s, w
<1>4. Consistent(v, s) /\ Outcome(v, w)
  <2>1. CASE v = Interested(w, Fd, {"R"}) \/ v = Interested(w, Fd, {"W"})
    <3>1. {"R"} \in SUBSET {"R", "W"} /\ {"W"} \in SUBSET {"R", "W"}
      OBVIOUS
    <3>2. Consistent(v, s) /\ Within(v, w)
      BY <1>3, <2>1, <3>1, InterestedConsistent
    <3> QED
      BY <3>2, WithinOutcome
  <2>2. CASE v = Connect(w, s)
    BY <1>3, <2>2, ConnectConsistent
  <2>3. CASE v = Failing(w)
    BY <1>3, <2>3, FailingConsistent, WithinOutcome
  <2>4. CASE v \in Replies(w, FALSE)
    BY <1>3, <2>4, RepliesConsistent, WithinOutcome
  <2> QED
    BY <1>2, <2>1, <2>2, <2>3, <2>4
<1> QED
  BY <1>1, <1>2, <1>4, PlainHandlerInv DEF s, w

\* request_process for a name: the number of client_fd is kept for the answer.
LEMMA AskNameInv ==
  ASSUME LoopInv, AskName
  PROVE  LoopInv'
<1> DEFINE s == Owner
           w == World(s)
           u == Interested(w, Fd, {})
           v == [u EXCEPT !.me.st = "resolv"]
<1>1. /\ Reads \/ Writes
      /\ s # NoSlot /\ ses[s].st = "read" /\ Leaves(s, v) /\ Handled /\ jobs' = jobs
      /\ asked' = [asked EXCEPT ![Fd] = s]
  BY DEF AskName
<1>2. /\ s \in Slots /\ Consistent(w, s) /\ w.me = ses[s] /\ w.me.client # NoFd
      /\ Fd \in Mine(w) /\ w.me.origin = NoFd
      /\ ses \in [Slots -> States] /\ asked \in [Fds -> Slots \cup {NoSlot}]
  BY <1>1, OwnerFacts
<1>3. Fd = ses[s].client /\ Fd \in Fds
  BY <1>1, <1>2, Called DEF Mine
<1>4. Consistent(u, s) /\ Within(u, w) /\ u.me = w.me /\ u \in Worlds /\ Shape(w.me)
  BY <1>2, InterestedConsistent DEF Consistent
<1> HIDE DEF s, w, u
<1>5. /\ v \in Worlds /\ v.item = u.item /\ v.open = u.open /\ v.fresh = u.fresh
      /\ v.me.st = "resolv" /\ v.me.client = u.me.client /\ v.me.origin = u.me.origin
  BY <1>4 DEF Worlds, States, SessionStates
<1> HIDE DEF v
<1>6. Mine(v) = Mine(u) /\ Shape(v.me)
  BY <1>2, <1>4, <1>5 DEF Mine, Shape
<1>7. Consistent(v, s) /\ Within(v, u)
  BY <1>2, <1>4, <1>5, <1>6, MeConsistent
<1>8. Outcome(v, w)
  BY <1>4, <1>7, WithinOutcome, OutcomeWithin
<1>9. ses' = [ses EXCEPT ![s] = v.me]
  BY <1>1 DEF Leaves
<1>10. /\ ses'[s].st = "resolv" /\ ses'[s].client = Fd
       /\ \A t \in Slots \ {s} : ses'[t] = ses[t]
  BY <1>2, <1>3, <1>4, <1>5, <1>9
<1>11. \A f \in Fds : asked'[f] = IF f = Fd THEN s ELSE asked[f]
  BY <1>1, <1>2
<1>12. asked' \in [Fds -> Slots \cup {NoSlot}]
  BY <1>1, <1>2
<1>13. \A f \in Fds : asked[f] # NoSlot => asked[f] \in Slots \ {s}
  BY <1>1, <1>2 DEF LoopInv, JobsInv, JobsReachAsker
<1>14. JobsReachAsker'
  BY <1>10, <1>11, <1>13 DEF LoopInv, JobsInv, JobsReachAsker
<1>15. jobs \subseteq Fds
  BY DEF LoopInv, FdInv, FdsExact, TypeOK
<1>16. JobsInv'
  BY <1>1, <1>2, <1>11, <1>14, <1>15, FdAssumption DEF LoopInv, JobsInv
<1> QED
  BY <1>1, <1>7, <1>8, <1>12, <1>16, HandlerInv DEF s, w

\* connecting_write
LEMMA ConnectingWriteInv ==
  ASSUME LoopInv, ConnectingWrite
  PROVE  LoopInv'
<1> DEFINE s == Owner
           w == World(s)
           i == Interested(w, Fd, {})
           d == DropOrigin(w)
<1>1. /\ Reads \/ Writes
      /\ s # NoSlot /\ ses[s].st = "connecting" /\ Handled /\ UNCHANGED <<jobs, asked>>
  BY DEF ConnectingWrite
<1>2. PICK v : /\ Leaves(s, v)
               /\ \/ v \in Replies(w, FALSE)
                  \/ Fd # ses[s].client /\ v \in Replies(i, TRUE)
                  \/ v \in {Connect(d, s), Failing(d)} \cup Replies(d, FALSE)
  BY DEF ConnectingWrite
<1>3. /\ s \in Slots /\ Consistent(w, s) /\ w.me = ses[s] /\ w.me.client # NoFd
      /\ Fd \in Mine(w)
  BY <1>1, OwnerFacts
<1>4. Consistent(i, s) /\ Within(i, w) /\ i.me = w.me
  BY <1>3, InterestedConsistent
<1>5. Consistent(d, s) /\ Within(d, w) /\ d.me.origin = NoFd /\ d.me.client = w.me.client
  BY <1>1, <1>3, DropOriginConsistent
<1> HIDE DEF s, w, i, d
<1>6. Consistent(v, s) /\ Outcome(v, w)
  <2>1. CASE v \in Replies(w, FALSE)
    BY <1>3, <2>1, RepliesConsistent, WithinOutcome
  <2>2. CASE Fd # ses[s].client /\ v \in Replies(i, TRUE)
    <3>1. i.me.origin # NoFd /\ i.me.client # NoFd
      BY <1>3, <1>4, <2>2 DEF Mine
    <3>2. Consistent(v, s) /\ Within(v, i)
      BY <1>3, <1>4, <2>2, <3>1, RepliesConsistent
    <3> QED
      BY <1>4, <3>2, WithinOutcome, OutcomeWithin
  <2>3. CASE v = Connect(d, s)
    <3>1. Consistent(v, s) /\ Outcome(v, d)
      BY <1>3, <1>5, <2>3, ConnectConsistent
    <3> QED
      BY <1>5, <3>1, OutcomeWithin
  <2>4. CASE v = Failing(d)
    <3>1. Consistent(v, s) /\ Within(v, d)
      BY <1>3, <1>5, <2>4, FailingConsistent
    <3> QED
      BY <1>5, <3>1, WithinOutcome, OutcomeWithin
  <2>5. CASE v \in Replies(d, FALSE)
    <3>1. Consistent(v, s) /\ Within(v, d)
      BY <1>3, <1>5, <2>5, RepliesConsistent
    <3> QED
      BY <1>5, <3>1, WithinOutcome, OutcomeWithin
  <2> QED
    BY <1>2, <2>1, <2>2, <2>3, <2>4, <2>5
<1> QED
  BY <1>1, <1>2, <1>6, PlainHandlerInv DEF s, w

\* request_write
LEMMA ReplyWriteInv ==
  ASSUME LoopInv, ReplyWrite
  PROVE  LoopInv'
<1> DEFINE s == Owner
           w == World(s)
<1>1. /\ Reads \/ Writes
      /\ s # NoSlot /\ ses[s].st = "reply" /\ Handled /\ UNCHANGED <<jobs, asked>>
  BY DEF ReplyWrite
<1>2. PICK v \in Replies(w, ses[s].good) : Leaves(s, v)
  BY DEF ReplyWrite
<1>3. /\ s \in Slots /\ Consistent(w, s) /\ w.me = ses[s] /\ w.me.client # NoFd
      /\ ses[s].good \in BOOLEAN /\ (ses[s].good => w.me.origin # NoFd)
  BY <1>1, OwnerFacts
<1> HIDE DEF s, w
<1>4. Consistent(v, s) /\ Within(v, w)
  BY <1>2, <1>3, RepliesConsistent
<1>5. Outcome(v, w)
  BY <1>4, WithinOutcome
<1> QED
  BY <1>1, <1>2, <1>4, <1>5, PlainHandlerInv DEF s, w

\* copy_read, copy_write
LEMMA CopyInv ==
  ASSUME LoopInv, Copy
  PROVE  LoopInv'
<1> DEFINE s == Owner
           w == World(s)
<1>1. /\ Reads \/ Writes
      /\ s # NoSlot /\ ses[s].st = "copy" /\ Handled /\ UNCHANGED <<jobs, asked>>
  BY DEF Copy
<1>2. PICK v \in {w, Done(w)} : Leaves(s, v)
  BY DEF Copy
<1>3. s \in Slots /\ Consistent(w, s) /\ w.me.client # NoFd
  BY <1>1, OwnerFacts
<1> HIDE DEF s, w
<1>4. Consistent(v, s) /\ Within(v, w)
  BY <1>2, <1>3, DoneConsistent DEF Within
<1>5. Outcome(v, w)
  BY <1>4, WithinOutcome
<1> QED
  BY <1>1, <1>2, <1>4, <1>5, PlainHandlerInv DEF s, w

\* socksv5_passive_accept
LEMMA AcceptInv ==
  ASSUME LoopInv, Accept
  PROVE  LoopInv'
<1> DEFINE f == Lowest(open)
<1>1. Reads /\ Owner = NoSlot /\ Handled /\ UNCHANGED <<jobs, asked>>
  BY DEF Accept
<1>2. FdInv /\ FreshInv /\ JobsInv /\ TypeOK
  BY DEF LoopInv, FdInv, FdsExact
<1>3. /\ phase' = "iterate" /\ Slaves' \subseteq Slaves /\ Listener \notin slaveR'
      /\ slaveR' \subseteq Fds /\ slaveW' \subseteq Fds
  BY <1>1, HandledSlaves
<1>4. Slaves \subseteq open
  BY <1>1, <1>2, Called DEF FreshInv
<1>5. CASE UNCHANGED <<item, open, conn, ses, fresh>>
  <2>1. TypeOK'
    BY <1>1, <1>2, <1>3, <1>5 DEF TypeOK
  <2>2. FdInv'
    BY <1>2, <1>5, <2>1 DEF FdInv, FdsExact, Used, Shape
  <2>3. JobsInv'
    BY <1>1, <1>2, <1>5 DEF JobsInv, JobsReachAsker
  <2>4. FreshInv'
    BY <1>2, <1>3, <1>5 DEF FreshInv, Connects
  <2> QED
    BY <2>2, <2>3, <2>4 DEF LoopInv
<1>6. CASE CanOpen(open) /\ \E s \in Slots : ses[s].st = "none" /\ Leaves(s, AcceptWorld(s, f))
  <2>1. PICK s \in Slots : ses[s].st = "none" /\ Leaves(s, AcceptWorld(s, f))
    BY <1>6
  <2> DEFINE v == AcceptWorld(s, f)
  <2>2. f \in Fds \ open
    BY <1>2, <1>6, LowestFree DEF TypeOK
  <2>3. Consistent(World(s), s)
    BY <1>2, WorldConsistent
  <2> HIDE DEF f
  <2>4. Consistent(v, s) /\ Mine(v) = {f}
    BY <2>1, <2>2, <2>3, AcceptConsistent
  <2>5. Leaves(s, v)
    BY <2>1
  <2> HIDE DEF v
  <2>6. FdInv'
    BY <1>1, <1>2, <1>3, <2>4, <2>5, LeavesFds DEF TypeOK
  <2>7. FreshInv'
    BY <1>2, <1>3, <1>4, <2>2, <2>4, <2>5, LeavesFresh
  <2>8. JobsInv'
    <3>1. ses \in [Slots -> States] /\ ses' = [ses EXCEPT ![s] = v.me]
      BY <1>2, <2>5 DEF Leaves, TypeOK, States
    <3> QED
      BY <1>1, <1>2, <2>1, <3>1, SameAsked DEF TypeOK
  <2> QED
    BY <2>6, <2>7, <2>8 DEF LoopInv
<1> QED
  BY <1>5, <1>6 DEF Accept, AcceptWorld

-----------------------------------------------------------------------------
\* The notifications, the sweep, the other actors.

\* Outside handle_iteration nothing is waiting to be called.
LEMMA LeavesOutside ==
  ASSUME LoopInv, phase \in {"notify", "sweep"}, NEW s \in Slots, NEW v, Consistent(v, s),
         Leaves(s, v), UNCHANGED <<phase, slaveR, slaveW>>, jobs' \subseteq Fds,
         asked' \in [Fds -> Slots \cup {NoSlot}], JobsInv'
  PROVE  LoopInv'
<1>1. FdInv /\ TypeOK /\ FreshInv
  BY DEF LoopInv, FdInv, FdsExact
<1>2. FdInv'
  BY <1>1, LeavesFds DEF TypeOK
<1>3. Slaves' = {} /\ slaveR' = {}
  BY <1>1 DEF FreshInv, Slaves
<1>4. FreshInv'
  BY <1>3 DEF FreshInv
<1> QED
  BY <1>2, <1>4 DEF LoopInv

\* handle_block_notifications: the job's number is the asker's.
LEMMA NotifyBlockInv ==
  ASSUME LoopInv, NEW f \in Fds, NotifyBlock(f)
  PROVE  LoopInv'
<1> DEFINE s == item[f].data
           w == World(s)
<1>1. /\ phase = "notify" /\ f \in jobs /\ jobs' = jobs \ {f}
      /\ asked' = [asked EXCEPT ![f] = NoSlot] /\ UNCHANGED <<phase, slaveR, slaveW>>
  BY DEF NotifyBlock
<1>2. FdInv /\ TypeOK /\ JobsInv /\ FdsExact
  BY DEF LoopInv, FdInv, FdsExact
<1>3. asked[f] # NoSlot /\ asked[f] \in Slots
  BY <1>1, <1>2 DEF JobsInv, TypeOK
<1>4. ses[asked[f]].st = "resolv" /\ ses[asked[f]].client = f
  BY <1>2, <1>3 DEF JobsInv, JobsReachAsker
<1>5. f \in open /\ s = asked[f]
  BY <1>2, <1>3, <1>4, FdFacts DEF FdsExact
<1>6. s \in Slots /\ ses[s].st = "resolv" /\ ses[s].client = f /\ Used(f) /\ f # NoFd
  BY <1>2, <1>3, <1>4, <1>5, FdFacts DEF FdsExact
<1>7. ses[s].origin = NoFd
  BY <1>2, <1>6 DEF FdInv, Shape
<1>8. PICK v \in {Connect(w, s), Failing(w), Replying(w, FALSE)} : Leaves(s, v)
  BY <1>6 DEF NotifyBlock
<1>9. Consistent(w, s) /\ w.me = ses[s]
  BY <1>2, <1>6, WorldConsistent
<1> HIDE DEF s, w
<1>10. Consistent(v, s)
  <2>1. CASE v = Connect(w, s)
    BY <1>6, <1>7, <1>9, <2>1, ConnectConsistent
  <2>2. CASE v = Failing(w)
    BY <1>6, <1>9, <2>2, FailingConsistent
  <2>3. CASE v = Replying(w, FALSE)
    BY <1>6, <1>9, <2>3, ReplyingConsistent
  <2> QED
    BY <1>8, <2>1, <2>2, <2>3
<1>11. \A t \in Slots \ {s} : ses'[t] = ses[t]
  BY <1>2, <1>8 DEF Leaves, TypeOK
<1>12. asked' \in [Fds -> Slots \cup {NoSlot}]
       /\ \A g \in Fds : asked'[g] = IF g = f THEN NoSlot ELSE asked[g]
  BY <1>1, <1>2 DEF TypeOK
<1>13. ASSUME NEW g \in Fds, asked'[g] # NoSlot
       PROVE  ses'[asked'[g]].st = "resolv" /\ ses'[asked'[g]].client = g
  <2>1. g # f /\ asked'[g] = asked[g] /\ asked[g] \in Slots
    BY <1>2, <1>12, <1>13 DEF TypeOK
  <2>2. ses[asked[g]].st = "resolv" /\ ses[asked[g]].client = g
    BY <1>2, <1>13, <2>1 DEF JobsInv, JobsReachAsker
  <2>3. asked[g] # s
    BY <1>6, <2>1, <2>2
  <2> QED
    BY <1>11, <2>1, <2>2, <2>3
<1>14. jobs' \subseteq Fds /\ \A g \in jobs' : asked'[g] # NoSlot
  BY <1>1, <1>2, <1>12 DEF JobsInv, TypeOK
<1>15. JobsInv'
  BY <1>13, <1>14 DEF JobsInv, JobsReachAsker
<1> QED
  BY <1>1, <1>6, <1>8, <1>10, <1>12, <1>14, <1>15, LeavesOutside

\* socksv5_check_timeouts leaves a session in REQUEST_RESOLV alone.
LEMMA ExpireInv ==
  ASSUME LoopInv, NEW s \in Slots, Expire(s)
  PROVE  LoopInv'
<1> DEFINE w == World(s)
           d == DropOrigin(w)
<1>1. phase = "sweep" /\ UNCHANGED <<phase, slaveR, slaveW, jobs, asked>>
  BY DEF Expire
<1>2. FdInv /\ TypeOK /\ JobsInv
  BY DEF LoopInv, FdInv, FdsExact
<1>3. Consistent(w, s) /\ w.me = ses[s]
  BY <1>2, WorldConsistent
<1>4. ses[s].st \notin {"none", "resolv"}
  BY DEF Expire
<1>5. w.me.client # NoFd
  BY <1>2, <1>3, <1>4 DEF FdInv, Shape
<1>6. PICK v : /\ Leaves(s, v)
               /\ v = Done(w) \/ (ses[s].st = "connecting" /\ v = Failing(d))
  BY DEF Expire
<1>7. Consistent(v, s)
  <2>1. CASE v = Done(w)
    BY <1>3, <1>5, <2>1, DoneConsistent
  <2>2. CASE ses[s].st = "connecting" /\ v = Failing(d)
    <3>1. Consistent(d, s) /\ d.me.client # NoFd
      BY <1>3, <1>5, <2>2, DropOriginConsistent
    <3> HIDE DEF d
    <3> QED
      BY <2>2, <3>1, FailingConsistent
  <2> QED
    BY <1>6, <2>1, <2>2
<1>8. JobsInv'
  <2>1. ses' = [ses EXCEPT ![s] = v.me] /\ ses \in [Slots -> States]
    BY <1>2, <1>6 DEF Leaves, TypeOK, States
  <2> QED
    BY <1>1, <1>2, <1>4, <2>1, SameAsked DEF TypeOK
<1> QED
  BY <1>1, <1>2, <1>6, <1>7, <1>8, LeavesOutside DEF TypeOK

\* Steps that change neither the table nor the sessions.
LEMMA QuietFds ==
  ASSUME FdInv, UNCHANGED <<item, open, ses>>, TypeOK'
  PROVE  FdInv'
  BY DEF FdInv, FdsExact, Used, Shape

\* pselect reports some of the descriptors that are ready.
LEMMA SelectInv ==
  ASSUME LoopInv, Select
  PROVE  LoopInv'
<1>1. /\ phase = "wait" /\ slaveR' \subseteq {f \in 0..MaxFd(item) : MayRead(f)}
      /\ slaveW' \subseteq {f \in 0..MaxFd(item) : MayWrite(f)} /\ phase' = "iterate"
      /\ UNCHANGED <<item, open, conn, ses, jobs, fresh, asked>>
  BY DEF Select
<1>2. FdInv /\ TypeOK /\ JobsInv /\ FreshInv /\ FdsExact
  BY DEF LoopInv, FdInv, FdsExact
<1>3. 0..MaxFd(item) \subseteq Fds
  BY MaxFdType, FdAssumption DEF Fds
<1>4. slaveR' \subseteq Fds /\ slaveW' \subseteq Fds
  BY <1>1, <1>3
<1>5. Slaves' \subseteq open
  <2>1. open = {f \in Fds : Used(f)}
    BY <1>2 DEF FdsExact
  <2>2. \A f \in Slaves' : Used(f) /\ f \in Fds
    BY <1>1, <1>4 DEF Slaves, MayRead, MayWrite
  <2> QED
    BY <2>1, <2>2
<1>6. TypeOK'
  BY <1>1, <1>2, <1>4 DEF TypeOK
<1>7. FdInv'
  BY <1>1, <1>2, <1>6, QuietFds
<1>8. JobsInv'
  BY <1>1, <1>2 DEF JobsInv, JobsReachAsker
<1>9. fresh' = {}
  BY <1>1, <1>2 DEF FreshInv
<1>10. FreshInv'
  BY <1>1, <1>5, <1>9 DEF FreshInv
<1> QED
  BY <1>7, <1>8, <1>10 DEF LoopInv

\* The loop of main goes from one part of the round to the next.
LEMMA RoundInv ==
  ASSUME LoopInv, Interrupted \/ EndIterate \/ EndNotify \/ EndRound
  PROVE  LoopInv'
<1>1. FdInv /\ TypeOK /\ JobsInv /\ FreshInv
  BY DEF LoopInv, FdInv, FdsExact
<1>2. /\ UNCHANGED <<item, open, conn, ses, jobs, asked>>
      /\ phase' \in {"wait", "notify", "sweep"} /\ fresh' \in {fresh, {}}
      /\ phase' = "wait" => fresh' = {}
      /\ slaveR' = {} /\ slaveW' = {}
  BY <1>1 DEF Interrupted, EndIterate, EndNotify, EndRound, FreshInv, Slaves
<1>3. TypeOK'
  BY <1>1, <1>2 DEF TypeOK
<1>4. FdInv'
  BY <1>1, <1>2, <1>3, QuietFds
<1>5. JobsInv'
  BY <1>1, <1>2 DEF JobsInv, JobsReachAsker
<1>6. FreshInv'
  BY <1>2 DEF FreshInv, Slaves
<1> QED
  BY <1>4, <1>5, <1>6 DEF LoopInv

\* The DNS thread's answer, the kernel's, and nothing.
LEMMA OthersInv ==
  ASSUME LoopInv, \/ \E f \in Fds : DnsAnswers(f)
                  \/ \E s \in Slots : KernelConnects(s)
                  \/ UNCHANGED vars
  PROVE  LoopInv'
<1>1. FdInv /\ TypeOK /\ JobsInv /\ FreshInv
  BY DEF LoopInv, FdInv, FdsExact
<1>2. /\ UNCHANGED <<item, open, ses, phase, slaveR, slaveW, fresh, asked>>
      /\ \/ jobs' = jobs
         \/ \E f \in Fds : asked[f] # NoSlot /\ jobs' = jobs \cup {f}
      /\ conn' \in [Slots -> Conns]
  BY <1>1 DEF DnsAnswers, KernelConnects, vars, TypeOK, Conns
<1>3. TypeOK'
  BY <1>1, <1>2 DEF TypeOK, Conns
<1>4. FdInv'
  BY <1>1, <1>2, <1>3, QuietFds
<1>5. JobsInv'
  BY <1>1, <1>2 DEF JobsInv, JobsReachAsker
<1>6. FreshInv'
  BY <1>1, <1>2 DEF FreshInv, Slaves, Connects
<1> QED
  BY <1>4, <1>5, <1>6 DEF LoopInv

-----------------------------------------------------------------------------
\* The theorems.

\* Only the listener is open.
LEMMA InitInv == Init => LoopInv
<1> SUFFICES ASSUME Init PROVE LoopInv
  OBVIOUS
<1>1. Listener \in Fds /\ NoFd \notin Fds
  BY FdFacts
<1>2. item \in [Fds -> Items] /\ item[Listener] = [data |-> NoSlot, interest |-> {"R"}, used |-> TRUE]
      /\ \A f \in Fds \ {Listener} : item[f] = Unused
  BY <1>1 DEF Init, Items, Unused
<1>3. \A f \in Fds : item[f].used <=> f = Listener
  BY <1>2 DEF Unused
<1>4. ses \in [Slots -> States] /\ \A s \in Slots : ses[s] = NoSession
  BY DEF Init, States, SessionStates, NoSession
<1>5. conn \in [Slots -> Conns] /\ asked \in [Fds -> Slots \cup {NoSlot}]
      /\ \A f \in Fds : asked[f] = NoSlot
  BY DEF Init, Conns
<1>6. TypeOK
  BY <1>1, <1>2, <1>4, <1>5 DEF Init, TypeOK, Items, States, Conns
<1>7. open = {f \in Fds : Used(f)} /\ open = {Listener}
  BY <1>1, <1>3 DEF Init, Used
<1>8. \A s \in Slots : {ses[s].client, ses[s].origin} \ {NoFd} = {} /\ Shape(ses[s])
  BY <1>4 DEF NoSession, Shape
<1>9. FdInv
  BY <1>2, <1>6, <1>7, <1>8 DEF FdInv, FdsExact
<1>10. JobsInv
  BY <1>5 DEF Init, JobsInv, JobsReachAsker
<1>11. FreshInv
  BY DEF Init, FreshInv, Slaves
<1> QED
  BY <1>9, <1>10, <1>11 DEF LoopInv

\* Every step of the loop, the DNS thread and the kernel keeps the invariant.
LEMMA NextInv == LoopInv /\ [Next]_vars => LoopInv'
<1> SUFFICES ASSUME LoopInv, [Next]_vars PROVE LoopInv'
  OBVIOUS
<1>1. CASE Select
  BY <1>1, SelectInv
<1>2. CASE Interrupted \/ EndIterate \/ EndNotify \/ EndRound
  BY <1>2, RoundInv
<1>3. CASE Accept
  BY <1>3, AcceptInv
<1>4. CASE Negotiate
  BY <1>4, NegotiateInv
<1>5. CASE AskName
  BY <1>5, AskNameInv
<1>6. CASE ConnectingWrite
  BY <1>6, ConnectingWriteInv
<1>7. CASE ReplyWrite
  BY <1>7, ReplyWriteInv
<1>8. CASE Copy
  BY <1>8, CopyInv
<1>9. CASE \E f \in Fds : NotifyBlock(f)
  BY <1>9, NotifyBlockInv
<1>10. CASE \E s \in Slots : Expire(s)
  BY <1>10, ExpireInv
<1>11. CASE \/ \E f \in Fds : DnsAnswers(f)
            \/ \E s \in Slots : KernelConnects(s)
            \/ UNCHANGED vars
  BY <1>11, OthersInv
<1> QED
  BY <1>1, <1>2, <1>3, <1>4, <1>5, <1>6, <1>7, <1>8, <1>9, <1>10, <1>11 DEF Next

\* The table, the kernel and the sessions agree; every job has its asker; what
\* handle_iteration may still call is what pselect reported, or is connecting.
THEOREM LoopInvariant == Spec => []LoopInv
  BY InitInv, NextInv, PTL DEF Spec

\* The promise of FdsExact: no descriptor leaks, on the error paths either, and
\* every number belongs to the session whose data the selector keeps for it.
THEOREM DescriptorsExact == Spec => []FdsExact
<1>1. LoopInv => FdsExact
  BY DEF LoopInv, FdInv
<1> QED
  BY <1>1, LoopInvariant, PTL

\* The promise of JobsReachAsker: the number that the DNS thread kept is, when its
\* notification comes, still the descriptor of the session that asked.
THEOREM AnswersReachAsker == Spec => []JobsReachAsker
<1>1. LoopInv => JobsReachAsker
  BY DEF LoopInv, JobsInv
<1> QED
  BY <1>1, LoopInvariant, PTL

\* The promise of StaleOnlyConnecting: readiness that pselect reported for an
\* earlier descriptor of the same number reaches connecting_write only.
THEOREM StaleReadiness == Spec => []StaleOnlyConnecting
<1>1. LoopInv => StaleOnlyConnecting
  <2> SUFFICES ASSUME LoopInv, Reads \/ Writes, Fd \in fresh
               PROVE  Writes /\ ses[Owner].st = "connecting" /\ ses[Owner].origin = Fd
    BY DEF StaleOnlyConnecting
  <2>1. /\ Reads  => "R" \in item[Fd].interest /\ Fd \in slaveR
        /\ Writes => "W" \in item[Fd].interest /\ Fd \in slaveW
    BY Called
  <2>2. Connects(Fd)
    BY <2>1 DEF LoopInv, FreshInv, Slaves
  <2> QED
    BY <2>1, <2>2 DEF Connects, Owner
<1> QED
  BY <1>1, LoopInvariant, PTL

=============================================================================
