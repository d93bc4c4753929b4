---------------------------- MODULE Socks5Proofs ----------------------------
(***************************************************************************)
(* Proofs about Socks5, for any number of sessions, addresses, pool size   *)
(* and connection limit: SessionInv is inductive; it gives the exact       *)
(* reference counts, the absence of abort() and the wake-up of every       *)
(* session.                                                                *)
(*                                                                         *)
(* The first part says what each operator on a session record returns; a   *)
(* record is taken apart into its domain (IsRec) and its fields (Fields).  *)
(* The second part goes through the actions.  The third is about what the  *)
(* sessions leave behind, and has a header of its own.                     *)
(***************************************************************************)
EXTENDS Socks5, FiniteSetTheorems, SequenceTheorems, TLAPS

Names == {"loc", "st", "refs", "cint", "oint", "res", "cur", "rb", "out", "must",
          "user", "dest", "open", "lgd", "why", "lines", "ok", "fail", "badpw"}

IsRec(r) == r = [x \in Names |-> r[x]]

Fields(r) ==
    /\ r.loc  \in {"free", "pool", "live"}
    /\ r.st   \in States
    /\ r.refs \in Nat
    /\ r.cint \in Interests /\ r.oint \in Interests
    /\ r.res  \in 0..MaxAddrs /\ r.cur \in 0..MaxAddrs
    /\ r.rb   \in BOOLEAN
    /\ r.out  \in {"none", "auth", "request", "reject", "success"}
    /\ r.must \in BOOLEAN /\ r.user \in BOOLEAN /\ r.dest \in BOOLEAN
    /\ r.open \in BOOLEAN /\ r.lgd \in BOOLEAN /\ r.why \in BOOLEAN
    /\ r.lines \in Seq({"OPEN", "CLOSE", "FAIL", "FAIL: unknown"})
    /\ r.ok \in Nat /\ r.fail \in Nat /\ r.badpw \in Nat

\* What Shape looks at is the same in n and r.
SameShape(n, r) ==
    /\ n.loc = r.loc /\ n.st = r.st /\ n.refs = r.refs
    /\ n.cint = r.cint /\ n.oint = r.oint /\ n.out = r.out

\* A record with the right domain and fields is a session.
LEMMA SessionIntro ==
  ASSUME NEW r, IsRec(r), Fields(r)
  PROVE  r \in SessionType
  BY Zenon DEF SessionType, IsRec, Fields, Names

\* Two numbers that Zenon has to be told about.
LEMMA OneIsNat == 1 \in Nat /\ 0 \in Nat
  OBVIOUS

\* A counter stays a number.
LEMMA NatSucc == \A k \in Nat : k + 1 \in Nat
  OBVIOUS

\* A session has the right domain and fields.
LEMMA SessionElim ==
  ASSUME NEW r \in SessionType
  PROVE  IsRec(r) /\ Fields(r)
<1>1. Fields(r)
  BY Zenon DEF SessionType, Fields
<1>2. IsRec(r)
  BY Zenon DEF SessionType, IsRec, Names
<1> QED
  BY <1>1, <1>2

\* A struct nobody uses is a session record.
LEMMA BlankStep == Blank \in SessionType
<1>1. IsRec(Blank)
  BY Zenon DEF IsRec, Names, Blank
<1>2. 0 \in 0..MaxAddrs
  BY BoundsAssumption
<1>3. <<>> \in Seq({"OPEN", "CLOSE", "FAIL", "FAIL: unknown"})
  OBVIOUS
<1>4. Fields(Blank)
  BY <1>2, <1>3, OneIsNat, Zenon DEF Fields, Blank, States, ReadStates, Interests
<1> QED
  BY <1>1, <1>4, SessionIntro

-----------------------------------------------------------------------------
\* Operators on one session.

\* Consuming or receiving bytes.
LEMMA BufferStep ==
  ASSUME NEW r \in SessionType, NEW b \in BOOLEAN
  PROVE  LET n == Buffered(r, b) IN
         /\ n \in SessionType
         /\ SameShape(n, r)
<1> DEFINE n == Buffered(r, b)
<1>1. IsRec(r) /\ Fields(r)
  BY SessionElim
<1>2. IsRec(n)
  BY <1>1, Zenon DEF IsRec, Names, Buffered
<1>3. /\ Fields(n)
      /\ SameShape(n, r)
  BY <1>1, Zenon
     DEF Fields, IsRec, Names, Buffered, SameShape
<1>4. n \in SessionType
  BY <1>2, <1>3, SessionIntro, Zenon
<1> QED
  BY <1>3, <1>4, Zenon

\* A move to another state touches nothing else.
LEMMA StateStep ==
  ASSUME NEW r \in SessionType, NEW st \in States
  PROVE  LET n == Jump(r, st) IN
         /\ n \in SessionType
         /\ n.loc = r.loc /\ n.refs = r.refs /\ n.oint = r.oint
         /\ n.st = st /\ n.cint = r.cint /\ n.out = r.out /\ n.cur = r.cur
<1> DEFINE n == Jump(r, st)
<1>1. IsRec(r) /\ Fields(r)
  BY SessionElim
<1>2. IsRec(n)
  BY <1>1, Zenon DEF IsRec, Names, Jump
<1>3. /\ Fields(n)
      /\ n.loc = r.loc /\ n.refs = r.refs /\ n.oint = r.oint
      /\ n.st = st /\ n.cint = r.cint /\ n.out = r.out /\ n.cur = r.cur
  BY <1>1, Zenon
     DEF Fields, IsRec, Names, Jump
<1>4. n \in SessionType
  BY <1>2, <1>3, SessionIntro, Zenon
<1> QED
  BY <1>3, <1>4, Zenon

\* Recording why a session failed.
LEMMA BlameStep ==
  ASSUME NEW r \in SessionType
  PROVE  Blame(r) \in SessionType /\ SameShape(Blame(r), r) /\ Blame(r).cur = r.cur
<1>1. IsRec(r) /\ Fields(r)
  BY SessionElim
<1>2. IsRec(Blame(r))
  BY <1>1, Zenon DEF IsRec, Names, Blame
<1>3. Fields(Blame(r)) /\ SameShape(Blame(r), r) /\ Blame(r).cur = r.cur
  BY <1>1, Zenon DEF Fields, SameShape, IsRec, Names, Blame
<1> QED
  BY <1>2, <1>3, SessionIntro, Zenon

\* A failure reply waits to be sent.
LEMMA RefuseStep ==
  ASSUME NEW r \in SessionType
  PROVE  /\ Refuse(r) \in SessionType
         /\ Refuse(r).loc = r.loc /\ Refuse(r).refs = r.refs /\ Refuse(r).oint = r.oint
         /\ Refuse(r).st = "REQUEST_WRITE" /\ Refuse(r).cint = "W"
         /\ Refuse(r).out = "reject"
<1> DEFINE n == Refuse(r)
<1>1. IsRec(r) /\ Fields(r)
  BY SessionElim
<1>2. IsRec(n)
  BY <1>1, Zenon DEF IsRec, Names, Refuse, Blame
<1>3. /\ Fields(n) /\ n.loc = r.loc /\ n.refs = r.refs /\ n.oint = r.oint
      /\ n.st = "REQUEST_WRITE" /\ n.cint = "W" /\ n.out = "reject"
  BY <1>1, Zenon DEF Fields, IsRec, Names, Refuse, Blame, States, WriteStates, Interests
<1> QED
  BY <1>2, <1>3, SessionIntro, Zenon

\* Counting a failed connection to the origin.
LEMMA CountFailStep ==
  ASSUME NEW r \in SessionType
  PROVE  LET n == CountFail(r) IN
         /\ n \in SessionType
         /\ SameShape(n, r)
<1> DEFINE n == CountFail(r)
<1>1. IsRec(r) /\ Fields(r)
  BY SessionElim
<1>2. r.fail + 1 \in Nat
  BY <1>1, NatSucc, Zenon DEF Fields
<1>3. IsRec(n)
  BY <1>1, Zenon DEF IsRec, Names, CountFail, Blame
<1>4. /\ Fields(n)
      /\ SameShape(n, r)
  BY <1>1, <1>2, Zenon
     DEF Fields, IsRec, Names, CountFail, Blame, SameShape
<1>5. n \in SessionType
  BY <1>3, <1>4, SessionIntro, Zenon
<1> QED
  BY <1>4, <1>5, Zenon

\* The addresses left are a suffix of the list.
LEMMA LeftRange ==
  ASSUME NEW r \in SessionType, NEW c \in Left(r)
  PROVE  c \in 0..MaxAddrs
<1>1. r.cur \in 0..MaxAddrs
  BY SessionElim, Zenon DEF Fields
<1> QED
  BY <1>1, BoundsAssumption DEF Left

\* Starting to connect takes one more reference with the origin's fd, or wakes
\* the client.
LEMMA TryConnectStep ==
  ASSUME NEW r \in SessionType, NEW n \in TryConnect(r)
  PROVE  /\ n \in SessionType /\ n.loc = r.loc /\ n.st = r.st /\ n.out = r.out
         /\ \/ n.refs = r.refs + 1 /\ n.oint = "W" /\ n.cint = r.cint
            \/ n.refs = r.refs /\ n.oint = r.oint /\ n.cint = "W"
<1>1. IsRec(r) /\ Fields(r)
  BY SessionElim
<1>2. r.refs + 1 \in Nat
  BY <1>1, NatSucc, Zenon DEF Fields
<1>3. PICK c \in Left(r) : \/ n = [r EXCEPT !.cur = c, !.refs = r.refs + 1, !.oint = "W"]
                           \/ n = [Blame(r) EXCEPT !.cur = c, !.cint = "W"]
  BY Zenon DEF TryConnect
<1>4. c \in 0..MaxAddrs
  BY LeftRange, Zenon
<1>5. CASE n = [r EXCEPT !.cur = c, !.refs = r.refs + 1, !.oint = "W"]
  <2>1. IsRec(n)
    BY <1>1, <1>5, Zenon DEF IsRec, Names
  <2>2. /\ Fields(n) /\ n.loc = r.loc /\ n.st = r.st /\ n.out = r.out
        /\ n.refs = r.refs + 1 /\ n.oint = "W" /\ n.cint = r.cint
    BY <1>1, <1>2, <1>4, <1>5, Zenon DEF Fields, IsRec, Names, Interests
  <2> QED
    BY <2>1, <2>2, SessionIntro, Zenon
<1>6. CASE n = [Blame(r) EXCEPT !.cur = c, !.cint = "W"]
  <2>1. IsRec(n)
    BY <1>1, <1>6, Zenon DEF IsRec, Names, Blame
  <2>2. /\ Fields(n) /\ n.loc = r.loc /\ n.st = r.st /\ n.out = r.out
        /\ n.refs = r.refs /\ n.oint = r.oint /\ n.cint = "W"
    BY <1>1, <1>4, <1>6, Zenon DEF Fields, IsRec, Names, Interests, Blame
  <2> QED
    BY <2>1, <2>2, SessionIntro, Zenon
<1> QED
  BY <1>3, <1>5, <1>6

\* One of two references is given back with the origin's fd.
LEMMA UnregisterOriginStep ==
  ASSUME NEW r \in SessionType, r.refs = 2
  PROVE  /\ UnregisterOrigin(r) \in SessionType
         /\ UnregisterOrigin(r).loc = r.loc /\ UnregisterOrigin(r).st = r.st
         /\ UnregisterOrigin(r).refs = 1 /\ UnregisterOrigin(r).oint = "unreg"
         /\ UnregisterOrigin(r).cint = r.cint /\ UnregisterOrigin(r).out = r.out
<1> DEFINE n == UnregisterOrigin(r)
<1>1. IsRec(r) /\ Fields(r)
  BY SessionElim
<1>2. r.refs # 1 /\ r.refs - 1 = 1
  BY SMT
<1>3. n = [[r EXCEPT !.refs = 1] EXCEPT !.oint = "unreg"]
  BY <1>2, Zenon DEF UnregisterOrigin, Release
<1>4. IsRec(n)
  BY <1>1, <1>3, Zenon DEF IsRec, Names
<1>5. /\ Fields(n) /\ n.loc = r.loc /\ n.st = r.st /\ n.refs = 1
      /\ n.oint = "unreg" /\ n.cint = r.cint /\ n.out = r.out
  BY <1>1, <1>3, OneIsNat, ZenonT(40) DEF Fields, IsRec, Names, Interests
<1>6. n \in SessionType
  BY <1>4, <1>5, SessionIntro, Zenon
<1> QED
  BY <1>5, <1>6, Zenon

\* A log line is added at the end.
LEMMA AppendLine ==
  ASSUME NEW S, NEW q \in Seq(S), NEW x \in S
  PROVE  Append(q, x) \in Seq(S)
  OBVIOUS

\* Logging leaves the rest of the session alone.
LEMMA LogEventStep ==
  ASSUME NEW r \in SessionType
  PROVE  LogEvent(r) \in SessionType /\ SameShape(LogEvent(r), r)
<1> DEFINE Lines == {"OPEN", "CLOSE", "FAIL", "FAIL: unknown"}
           n == [r EXCEPT !.lgd = TRUE, !.lines = Append(r.lines, LastLine(r))]
<1>1. IsRec(r) /\ Fields(r)
  BY SessionElim
<1>2. LastLine(r) \in Lines
  BY Zenon DEF LastLine
<1>3. Append(r.lines, LastLine(r)) \in Seq(Lines)
  BY <1>1, <1>2, AppendLine, Zenon DEF Fields
<1>4. IsRec(n)
  BY <1>1, Zenon DEF IsRec, Names
<1>5. Fields(n) /\ SameShape(n, r)
  BY <1>1, <1>3, Zenon DEF Fields, SameShape, IsRec, Names
<1>6. n \in SessionType
  BY <1>4, <1>5, SessionIntro, Zenon
<1>7. LogEvent(r) = r \/ LogEvent(r) = n
  BY Zenon DEF LogEvent
<1>8. SameShape(r, r)
  BY Zenon DEF SameShape
<1> QED
  BY <1>5, <1>6, <1>7, <1>8, Zenon

\* socks5_destroy: one of two references, or the last one.
LEMMA ReleaseStep ==
  ASSUME NEW r \in SessionType, r.refs \in {1, 2}
  PROVE  /\ Release(r) \in SessionType
         /\ Release(r).cint = r.cint /\ Release(r).oint = r.oint
         /\ r.refs = 1 => Release(r).loc \in {"pool", "free"}
         /\ r.refs = 2 => Release(r).loc = r.loc /\ Release(r).refs = 1
<1> DEFINE n == Release(r)
           p == IF Cardinality(Pool) < MaxPool THEN "pool" ELSE "free"
<1>1. IsRec(r) /\ Fields(r)
  BY SessionElim
<1>2. p \in {"pool", "free"}
  BY Zenon
<1>3. 0 \in 0..MaxAddrs
  BY BoundsAssumption
<1>4. CASE r.refs = 1
  <2>1. n = [r EXCEPT !.loc = p, !.res = 0]
    BY <1>4, Zenon DEF Release
  <2> HIDE DEF p
  <2>2. IsRec(n)
    BY <1>1, <2>1, Zenon DEF IsRec, Names
  <2>3. Fields(n) /\ n.cint = r.cint /\ n.oint = r.oint /\ n.loc = p
    BY <1>1, <1>2, <1>3, <2>1, Zenon DEF Fields, IsRec, Names
  <2>4. n \in SessionType
    BY <2>2, <2>3, SessionIntro, Zenon
  <2>5. r.refs # 2
    BY <1>4, SMT
  <2> QED
    BY <1>2, <2>3, <2>4, <2>5, Zenon
<1>5. CASE r.refs = 2
  <2>1. r.refs # 1 /\ r.refs - 1 = 1
    BY <1>5, SMT
  <2>2. n = [r EXCEPT !.refs = 1]
    BY <2>1, Zenon DEF Release
  <2>3. IsRec(n)
    BY <1>1, <2>2, Zenon DEF IsRec, Names
  <2>4. Fields(n) /\ n.cint = r.cint /\ n.oint = r.oint /\ n.loc = r.loc /\ n.refs = 1
    BY <1>1, <2>2, OneIsNat, Zenon DEF Fields, IsRec, Names
  <2>5. n \in SessionType
    BY <2>3, <2>4, SessionIntro, Zenon
  <2> QED
    BY <2>1, <2>4, <2>5, Zenon
<1> QED
  BY <1>4, <1>5, Zenon

\* An fd is taken out of the selector.
LEMMA CloseStep ==
  ASSUME NEW r \in SessionType
  PROVE  /\ LET n == [r EXCEPT !.cint = "unreg"]
            IN /\ n \in SessionType /\ n.cint = "unreg"
               /\ n.oint = r.oint /\ n.loc = r.loc /\ n.refs = r.refs
         /\ LET n == [r EXCEPT !.oint = "unreg"]
            IN /\ n \in SessionType /\ n.oint = "unreg"
               /\ n.cint = r.cint /\ n.loc = r.loc /\ n.refs = r.refs
<1> DEFINE c == [r EXCEPT !.cint = "unreg"]
           o == [r EXCEPT !.oint = "unreg"]
<1>1. IsRec(r) /\ Fields(r)
  BY SessionElim
<1>2. IsRec(c) /\ IsRec(o)
  BY <1>1, Zenon DEF IsRec, Names
<1>3. /\ Fields(c) /\ c.cint = "unreg" /\ c.oint = r.oint
      /\ c.loc = r.loc /\ c.refs = r.refs
  BY <1>1, Zenon DEF Fields, IsRec, Names, Interests
<1>4. /\ Fields(o) /\ o.oint = "unreg" /\ o.cint = r.cint
      /\ o.loc = r.loc /\ o.refs = r.refs
  BY <1>1, Zenon DEF Fields, IsRec, Names, Interests
<1>5. c \in SessionType /\ o \in SessionType
  BY <1>2, <1>3, <1>4, SessionIntro, Zenon
<1> QED
  BY <1>3, <1>4, <1>5, Zenon

\* A recycled struct keeps the marks of its fds.
LEMMA ScrubStep ==
  ASSUME NEW r \in SessionType, r.loc # "live"
  PROVE  /\ Scrub(r) \in SessionType /\ Scrub(r).loc = r.loc
         /\ Scrub(r).cint = r.cint /\ Scrub(r).oint = r.oint
<1> DEFINE n == [Blank EXCEPT !.loc = r.loc, !.cint = r.cint, !.oint = r.oint,
                              !.dest = r.dest, !.lines = r.lines]
<1>1. IsRec(r) /\ Fields(r)
  BY SessionElim
<1>2. IsRec(Blank) /\ Blank \in SessionType
  BY BlankStep, SessionElim
<1>3. Fields(Blank)
  BY <1>2, SessionElim
<1>4. IsRec(n)
  BY <1>2, Zenon DEF IsRec, Names
<1>5. Fields(n) /\ n.loc = r.loc /\ n.cint = r.cint /\ n.oint = r.oint
  BY <1>1, <1>2, <1>3, Zenon DEF Fields, IsRec, Names
<1>6. n \in SessionType
  BY <1>4, <1>5, SessionIntro, Zenon
<1>7. Scrub(r) = n
  BY Zenon DEF Scrub
<1> QED
  BY <1>5, <1>6, <1>7, Zenon

\* socksv5_done gives every reference back.
LEMMA SocksDoneStep ==
  ASSUME NEW r \in SessionType, r.loc = "live",
         IF r.oint = "unreg" THEN r.refs = 1 ELSE r.refs = 2
  PROVE  /\ SocksDone(r) \in SessionType
         /\ SocksDone(r).loc \in {"pool", "free"}
         /\ SocksDone(r).cint = "unreg" /\ SocksDone(r).oint = "unreg"
<1> DEFINE l == LogEvent(r)
           a == UnregisterClient(l)
           b == IF r.oint # "unreg" THEN UnregisterOrigin(a) ELSE a
<1>1. l \in SessionType /\ l.refs = r.refs /\ l.oint = r.oint /\ l.loc = "live"
  BY LogEventStep, Zenon DEF SameShape
<1>2. l.refs \in {1, 2}
  BY <1>1, Zenon
<1> HIDE DEF l
<1>3. /\ Release(l) \in SessionType /\ Release(l).oint = r.oint
      /\ l.refs = 1 => Release(l).loc \in {"pool", "free"}
      /\ l.refs = 2 => Release(l).refs = 1
  BY <1>1, <1>2, ReleaseStep, Zenon
<1>4. /\ a \in SessionType /\ a.cint = "unreg" /\ a.oint = r.oint
      /\ a.loc = Release(l).loc /\ a.refs = Release(l).refs
  BY <1>3, CloseStep, Zenon DEF UnregisterClient
<1> HIDE DEF a
<1>5. /\ b \in SessionType /\ b.cint = "unreg" /\ b.oint = "unreg"
      /\ b.loc \in {"pool", "free"}
  <2>1. CASE r.oint = "unreg"
    <3>1. b = a
      BY <2>1, Zenon
    <3> QED
      BY <1>1, <1>3, <1>4, <2>1, <3>1, Zenon
  <2>2. CASE r.oint # "unreg"
    <3>1. a.refs = 1
      BY <1>1, <1>3, <1>4, <2>2, Zenon
    <3>2. a.refs \in {1, 2}
      BY <3>1, Zenon
    <3>3. /\ Release(a) \in SessionType /\ Release(a).cint = "unreg"
          /\ Release(a).loc \in {"pool", "free"}
      BY <1>4, <3>1, <3>2, ReleaseStep, Zenon
    <3>4. b = [Release(a) EXCEPT !.oint = "unreg"]
      BY <2>2, Zenon DEF UnregisterOrigin
    <3> QED
      BY <3>3, <3>4, CloseStep, ZenonT(60)
  <2> QED
    BY <2>1, <2>2
<1>6. SocksDone(r) = Scrub(b)
  BY Zenon DEF SocksDone, l, a
<1> HIDE DEF b
<1>7. b.loc # "live"
  BY <1>5, Zenon
<1> QED
  BY <1>5, <1>6, <1>7, ScrubStep, Zenon

\* The method is chosen.
LEMMA HelloStep ==
  ASSUME NEW r \in SessionType,
         NEW method \in Methods, NEW more \in BOOLEAN
  PROVE  LET n == HelloDone(r, method, more) IN
         /\ n \in SessionType
         /\ n.loc = r.loc /\ n.refs = r.refs /\ n.oint = r.oint
         /\ n.st = "HELLO_WRITE" /\ n.cint = "W"
<1> DEFINE n == HelloDone(r, method, more)
<1>1. IsRec(r) /\ Fields(r)
  BY SessionElim
<1>2. IsRec(n)
  BY <1>1, Zenon DEF IsRec, Names, HelloDone
<1>3. /\ Fields(n)
      /\ n.loc = r.loc /\ n.refs = r.refs /\ n.oint = r.oint
      /\ n.st = "HELLO_WRITE" /\ n.cint = "W"
  BY <1>1, ZenonT(40)
     DEF Fields, IsRec, Names, HelloDone, Methods, States, WriteStates, Interests
<1>4. n \in SessionType
  BY <1>2, <1>3, SessionIntro, Zenon
<1> QED
  BY <1>3, <1>4, Zenon

\* A reply was sent and the next message is awaited (or the session is over).
LEMMA ReplySentStep ==
  ASSUME NEW r \in SessionType,
         NEW st \in {"AUTH_READ", "REQUEST_READ", "DONE"}
  PROVE  LET n == ReplySent(r, st) IN
         /\ n \in SessionType
         /\ n.loc = r.loc /\ n.refs = r.refs /\ n.oint = r.oint
         /\ n.st = st /\ n.cint = "R"
<1> DEFINE n == ReplySent(r, st)
<1>1. IsRec(r) /\ Fields(r)
  BY SessionElim
<1>2. st \in States
  BY Zenon DEF States, ReadStates, EndStates
<1>3. IsRec(n)
  BY <1>1, Zenon DEF IsRec, Names, ReplySent
<1>4. /\ Fields(n)
      /\ n.loc = r.loc /\ n.refs = r.refs /\ n.oint = r.oint
      /\ n.st = st /\ n.cint = "R"
  BY <1>1, <1>2, Zenon
     DEF Fields, IsRec, Names, ReplySent, Interests
<1>5. n \in SessionType
  BY <1>3, <1>4, SessionIntro, Zenon
<1> QED
  BY <1>4, <1>5, Zenon

\* auth_process
LEMMA AuthStep ==
  ASSUME NEW r \in SessionType, NEW valid \in BOOLEAN, NEW more \in BOOLEAN
  PROVE  LET n == AuthDone(r, valid, more) IN
         /\ n \in SessionType
         /\ n.loc = r.loc /\ n.refs = r.refs /\ n.oint = r.oint
         /\ n.st = "AUTH_WRITE" /\ n.cint = "W"
<1> DEFINE n == AuthDone(r, valid, more)
<1>1. IsRec(r) /\ Fields(r)
  BY SessionElim
<1>2. r.badpw + 1 \in Nat
  BY <1>1, NatSucc, Zenon DEF Fields
<1>3. IsRec(n)
  BY <1>1, Zenon DEF IsRec, Names, AuthDone
<1>4. /\ n.loc = r.loc /\ n.refs = r.refs /\ n.oint = r.oint
      /\ n.st = "AUTH_WRITE" /\ n.cint = "W" /\ n.rb = more /\ n.user = valid
      /\ n.res = r.res /\ n.cur = r.cur /\ n.must = r.must /\ n.dest = r.dest
      /\ n.open = r.open /\ n.lgd = r.lgd /\ n.why = r.why /\ n.lines = r.lines
      /\ n.ok = r.ok /\ n.fail = r.fail
  BY <1>1, Zenon DEF IsRec, Names, AuthDone
<1>5. n.out \in {"request", "reject"}
  BY <1>1, Zenon DEF IsRec, Names, AuthDone
<1>6. n.badpw \in Nat
  BY <1>1, <1>2, Zenon DEF IsRec, Names, Fields, AuthDone
<1> HIDE DEF n
<1>7. Fields(n)
  BY <1>1, <1>4, <1>5, <1>6, Zenon DEF Fields, States, WriteStates, Interests
<1>8. n \in SessionType
  BY <1>3, <1>7, SessionIntro, Zenon
<1> QED
  BY <1>4, <1>8, Zenon DEF n

\* request_process has the destination.
LEMMA TargetedStep ==
  ASSUME NEW r \in SessionType, NEW more \in BOOLEAN
  PROVE  LET n == Targeted(r, more) IN
         /\ n \in SessionType
         /\ n.loc = r.loc /\ n.refs = r.refs /\ n.oint = r.oint
         /\ n.st = r.st /\ n.cint = "noop"
<1> DEFINE n == Targeted(r, more)
<1>1. IsRec(r) /\ Fields(r)
  BY SessionElim
<1>2. IsRec(n)
  BY <1>1, Zenon DEF IsRec, Names, Targeted
<1>3. /\ Fields(n)
      /\ n.loc = r.loc /\ n.refs = r.refs /\ n.oint = r.oint
      /\ n.st = r.st /\ n.cint = "noop"
  BY <1>1, Zenon
     DEF Fields, IsRec, Names, Targeted, Interests
<1>4. n \in SessionType
  BY <1>2, <1>3, SessionIntro, Zenon
<1> QED
  BY <1>3, <1>4, Zenon

\* The DNS thread's reference is taken.
LEMMA SubmitStep ==
  ASSUME NEW r \in SessionType
  PROVE  LET n == Resolving(r) IN
         /\ n \in SessionType
         /\ n.loc = r.loc /\ n.refs = r.refs + 1 /\ n.oint = r.oint
         /\ n.st = "REQUEST_RESOLV" /\ n.cint = r.cint
<1> DEFINE n == Resolving(r)
<1>1. IsRec(r) /\ Fields(r)
  BY SessionElim
<1>2. r.refs + 1 \in Nat
  BY <1>1, NatSucc, Zenon DEF Fields
<1>3. IsRec(n)
  BY <1>1, Zenon DEF IsRec, Names, Resolving
<1>4. /\ Fields(n)
      /\ n.loc = r.loc /\ n.refs = r.refs + 1 /\ n.oint = r.oint
      /\ n.st = "REQUEST_RESOLV" /\ n.cint = r.cint
  BY <1>1, <1>2, Zenon
     DEF Fields, IsRec, Names, Resolving, States
<1>5. n \in SessionType
  BY <1>3, <1>4, SessionIntro, Zenon
<1> QED
  BY <1>4, <1>5, Zenon

\* Counting a connection to the origin.
LEMMA CountOkStep ==
  ASSUME NEW r \in SessionType
  PROVE  LET n == CountOk(r) IN
         /\ n \in SessionType
         /\ SameShape(n, r)
<1> DEFINE n == CountOk(r)
<1>1. IsRec(r) /\ Fields(r)
  BY SessionElim
<1>2. r.ok + 1 \in Nat
  BY <1>1, NatSucc, Zenon DEF Fields
<1>3. IsRec(n)
  BY <1>1, Zenon DEF IsRec, Names, CountOk
<1>4. /\ Fields(n)
      /\ SameShape(n, r)
  BY <1>1, <1>2, Zenon
     DEF Fields, IsRec, Names, CountOk, SameShape
<1>5. n \in SessionType
  BY <1>3, <1>4, SessionIntro, Zenon
<1> QED
  BY <1>4, <1>5, Zenon

\* The origin accepted.
LEMMA ConnectedStep ==
  ASSUME NEW r \in SessionType
  PROVE  LET n == Established(r) IN
         /\ n \in SessionType
         /\ n.loc = r.loc /\ n.refs = r.refs /\ n.oint = "noop"
         /\ n.st = "REQUEST_WRITE" /\ n.cint = "W" /\ n.out = "success"
<1> DEFINE n == Established(r)
<1>1. IsRec(r) /\ Fields(r)
  BY SessionElim
<1>2. IsRec(n)
  BY <1>1, Zenon DEF IsRec, Names, Established
<1>3. /\ Fields(n)
      /\ n.loc = r.loc /\ n.refs = r.refs /\ n.oint = "noop"
      /\ n.st = "REQUEST_WRITE" /\ n.cint = "W" /\ n.out = "success"
  BY <1>1, Zenon
     DEF Fields, IsRec, Names, Established, States, WriteStates, Interests
<1>4. n \in SessionType
  BY <1>2, <1>3, SessionIntro, Zenon
<1> QED
  BY <1>3, <1>4, Zenon

\* copy_init
LEMMA CopyInitStep ==
  ASSUME NEW r \in SessionType
  PROVE  /\ CopyInit(r) \in SessionType
         /\ CopyInit(r).loc = r.loc /\ CopyInit(r).refs = r.refs
         /\ CopyInit(r).st = "COPY"
         /\ CopyInit(r).cint = "copy" /\ CopyInit(r).oint = "copy"
<1> DEFINE Lines == {"OPEN", "CLOSE", "FAIL", "FAIL: unknown"}
           m == [r EXCEPT !.open = TRUE, !.lines = Append(r.lines, "OPEN")]
           l == LogOpen(r)
           n == [l EXCEPT !.st = "COPY", !.cint = "copy", !.oint = "copy",
                          !.rb = FALSE, !.out = "none"]
<1>1. IsRec(r) /\ Fields(r)
  BY SessionElim
<1>2. Append(r.lines, "OPEN") \in Seq(Lines)
  BY <1>1, AppendLine, Zenon DEF Fields
<1>3. IsRec(m)
  BY <1>1, Zenon DEF IsRec, Names
<1>4. Fields(m) /\ SameShape(m, r)
  BY <1>1, <1>2, Zenon DEF Fields, SameShape, IsRec, Names
<1>5. l = r \/ l = m
  BY Zenon DEF LogOpen
<1>6. IsRec(l) /\ Fields(l) /\ l.loc = r.loc /\ l.refs = r.refs
  BY <1>1, <1>3, <1>4, <1>5, Zenon DEF SameShape
<1>7. CopyInit(r) = n
  BY Zenon DEF CopyInit
<1> HIDE DEF l
<1>8. IsRec(n)
  BY <1>6, Zenon DEF IsRec, Names
<1>9. /\ Fields(n) /\ n.loc = r.loc /\ n.refs = r.refs /\ n.st = "COPY"
      /\ n.cint = "copy" /\ n.oint = "copy"
  BY <1>6, ZenonT(40) DEF Fields, IsRec, Names, States, Interests
<1>10. n \in SessionType
  BY <1>8, <1>9, SessionIntro, Zenon
<1> QED
  BY <1>7, <1>9, <1>10, Zenon

\* A session is accepted.
LEMMA NewSessionStep ==
  /\ NewSession \in SessionType /\ NewSession.loc = "live" /\ NewSession.refs = 1
  /\ NewSession.st = "HELLO_READ" /\ NewSession.oint = "unreg" /\ NewSession.cint = "unreg"
  /\ Accepted \in SessionType /\ Accepted.loc = "live" /\ Accepted.refs = 1
  /\ Accepted.st = "HELLO_READ" /\ Accepted.oint = "unreg" /\ Accepted.cint = "R"
<1>1. IsRec(Blank) /\ Fields(Blank)
  BY BlankStep, SessionElim
<1>2. Blank.st = "HELLO_READ" /\ Blank.oint = "unreg" /\ Blank.cint = "unreg"
  BY Zenon DEF Blank
<1>3. IsRec(NewSession)
  BY <1>1, Zenon DEF IsRec, Names, NewSession
<1>4. /\ Fields(NewSession) /\ NewSession.loc = "live" /\ NewSession.refs = 1
      /\ NewSession.st = "HELLO_READ" /\ NewSession.oint = "unreg" /\ NewSession.cint = "unreg"
  BY <1>1, <1>2, OneIsNat, Zenon DEF Fields, IsRec, Names, NewSession
<1>5. IsRec(Accepted)
  BY <1>3, Zenon DEF IsRec, Names, Accepted
<1>6. /\ Fields(Accepted) /\ Accepted.loc = "live" /\ Accepted.refs = 1
      /\ Accepted.st = "HELLO_READ" /\ Accepted.oint = "unreg" /\ Accepted.cint = "R"
  BY <1>3, <1>4, Zenon DEF Fields, IsRec, Names, Accepted, Interests
<1>7. NewSession \in SessionType /\ Accepted \in SessionType
  BY <1>3, <1>4, <1>5, <1>6, SessionIntro
<1> QED
  BY <1>4, <1>6, <1>7

\* The DNS thread writes its answer.
LEMMA AnswerStep ==
  ASSUME NEW r \in SessionType, NEW i \in 0..MaxAddrs
  PROVE  LET n == Resolved(r, i) IN
         /\ n \in SessionType
         /\ SameShape(n, r)
<1> DEFINE n == Resolved(r, i)
<1>1. IsRec(r) /\ Fields(r)
  BY SessionElim
<1>2. IsRec(n)
  BY <1>1, Zenon DEF IsRec, Names, Resolved
<1>3. /\ Fields(n)
      /\ SameShape(n, r)
  BY <1>1, Zenon
     DEF Fields, IsRec, Names, Resolved, SameShape
<1>4. n \in SessionType
  BY <1>2, <1>3, SessionIntro, Zenon
<1> QED
  BY <1>3, <1>4, Zenon

\* The client is woken to hear of a timeout.
LEMMA WakeStep ==
  ASSUME NEW r \in SessionType
  PROVE  LET n == Woken(r) IN
         /\ n \in SessionType
         /\ n.loc = r.loc /\ n.refs = r.refs /\ n.oint = r.oint
         /\ n.st = r.st /\ n.cint = "W"
<1> DEFINE n == Woken(r)
<1>1. IsRec(r) /\ Fields(r)
  BY SessionElim
<1>2. 0 \in 0..MaxAddrs
  BY BoundsAssumption
<1>3. IsRec(n)
  BY <1>1, Zenon DEF IsRec, Names, Woken
<1>4. /\ Fields(n)
      /\ n.loc = r.loc /\ n.refs = r.refs /\ n.oint = r.oint
      /\ n.st = r.st /\ n.cint = "W"
  BY <1>1, <1>2, Zenon
     DEF Fields, IsRec, Names, Woken, Interests
<1>5. n \in SessionType
  BY <1>3, <1>4, SessionIntro, Zenon
<1> QED
  BY <1>4, <1>5, Zenon

\* The DNS thread's reference is given back.
LEMMA ForgetStep ==
  ASSUME NEW r \in SessionType, r.refs = 2
  PROVE  LET n == GivenBack(r) IN
         /\ n \in SessionType
         /\ n.loc = r.loc /\ n.refs = 1 /\ n.oint = r.oint
         /\ n.st = r.st /\ n.cint = r.cint /\ n.res = r.res
<1> DEFINE n == GivenBack(r)
<1>1. IsRec(r) /\ Fields(r)
  BY SessionElim
<1>2. r.refs - 1 = 1
  BY SMT
<1>3. IsRec(n)
  BY <1>1, Zenon DEF IsRec, Names, GivenBack
<1>4. /\ Fields(n)
      /\ n.loc = r.loc /\ n.refs = 1 /\ n.oint = r.oint
      /\ n.st = r.st /\ n.cint = r.cint /\ n.res = r.res
  BY <1>1, <1>2, OneIsNat, Zenon
     DEF Fields, IsRec, Names, GivenBack
<1>5. n \in SessionType
  BY <1>3, <1>4, SessionIntro, Zenon
<1> QED
  BY <1>4, <1>5, Zenon

\* The list the DNS thread found is taken up.
LEMMA ConnectingStep ==
  ASSUME NEW r \in SessionType
  PROVE  LET n == Connecting(r) IN
         /\ n \in SessionType
         /\ n.loc = r.loc /\ n.refs = r.refs /\ n.oint = r.oint
         /\ n.st = "CONNECTING" /\ n.cint = r.cint
<1> DEFINE n == Connecting(r)
<1>1. IsRec(r) /\ Fields(r)
  BY SessionElim
<1>2. IsRec(n)
  BY <1>1, Zenon DEF IsRec, Names, Connecting
<1>3. /\ Fields(n)
      /\ n.loc = r.loc /\ n.refs = r.refs /\ n.oint = r.oint
      /\ n.st = "CONNECTING" /\ n.cint = r.cint
  BY <1>1, Zenon
     DEF Fields, IsRec, Names, Connecting, States
<1>4. n \in SessionType
  BY <1>2, <1>3, SessionIntro, Zenon
<1> QED
  BY <1>3, <1>4, Zenon

-----------------------------------------------------------------------------
\* What an action needs to know and to establish.

\* The session whose handler runs is live and has its shape.
LEMMA HandlerSession ==
  ASSUME SessionInv, NEW s \in Slots,
         NEW side \in {"client", "origin"}, NEW dir \in {"R", "W"},
         Visit(s, side, dir) \/ Pump(s)
  PROVE  /\ phase = "iterate" /\ running \in {s, NoSlot} /\ ready' \in SUBSET Events
         /\ ses[s] \in SessionType /\ dns[s] \in DnsStatus
         /\ ses[s].loc = "live" /\ LiveShape(ses[s], dns[s])
<1>1. /\ ses[s] \in SessionType /\ dns[s] \in DnsStatus
      /\ Shape(ses[s], dns[s]) /\ ready \in SUBSET Events
  BY DEF SessionInv, TypeOK
<1>2. CASE Pump(s)
  <2>1. running = s /\ phase = "iterate" /\ ready' = ready
    BY <1>2 DEF Pump
  <2>2. s # NoSlot
    BY SlotsAssumption
  <2>3. ses[s].loc = "live"
    BY <2>1, <2>2 DEF SessionInv, LoopInv
  <2> QED
    BY <1>1, <2>1, <2>3 DEF Shape
<1>3. CASE Visit(s, side, dir)
  <2>1. /\ running = NoSlot /\ phase = "iterate" /\ ready' \subseteq ready
        /\ InterestOf(s, side) \in {dir, "copy"}
    BY <1>3 DEF Visit, Wanted
  <2>2. ses[s].cint # "unreg" \/ ses[s].oint # "unreg"
    BY <2>1 DEF InterestOf
  <2>3. ses[s].loc = "live"
    BY <1>1, <2>2 DEF Shape
  <2> QED
    BY <1>1, <2>1, <2>3 DEF Shape
<1> QED
  BY <1>2, <1>3

\* One session and its DNS job change, the others do not.
LEMMA SessionUpdate ==
  ASSUME SessionInv, NEW s \in Slots, NEW n \in SessionType, NEW d \in DnsStatus,
         ses' = [ses EXCEPT ![s] = n], dns' = [dns EXCEPT ![s] = d], Shape(n, d)
  PROVE  /\ ses' \in [Slots -> SessionType] /\ dns' \in [Slots -> DnsStatus]
         /\ \A x \in Slots : Shape(ses'[x], dns'[x])
         /\ ses'[s] = n /\ dns'[s] = d
         /\ \A x \in Slots \ {s} : ses'[x] = ses[x] /\ dns'[x] = dns[x]
<1>1. ses \in [Slots -> SessionType] /\ dns \in [Slots -> DnsStatus]
  BY DEF SessionInv, TypeOK
<1>2. \A x \in Slots : Shape(ses[x], dns[x])
  BY DEF SessionInv
<1> QED
  BY <1>1, <1>2

\* The end of a handler that leaves the session s, now n, alive.
LEMMA HandlerEnd ==
  ASSUME SessionInv, NEW s \in Slots, NEW n \in SessionType, NEW d \in DnsStatus,
         phase \in {"iterate", "notify"}, running \in {s, NoSlot}, ready' \in SUBSET Events,
         ses' = [ses EXCEPT ![s] = n], dns' = [dns EXCEPT ![s] = d],
         n.loc = "live", LiveShape(n, d),
         running' \in {s, NoSlot}, n.st \in EndStates => running' = s,
         UNCHANGED Loop, queue' \in Seq(Slots), QueueInv'
  PROVE  SessionInv'
<1>1. Shape(n, d)
  BY DEF Shape
<1>2. /\ ses' \in [Slots -> SessionType] /\ dns' \in [Slots -> DnsStatus]
      /\ \A x \in Slots : Shape(ses'[x], dns'[x])
      /\ ses'[s] = n
      /\ \A x \in Slots \ {s} : ses'[x] = ses[x]
  BY <1>1, SessionUpdate
<1>3. /\ phase' = phase /\ incoming' = incoming /\ todo' = todo
      /\ active' = active /\ connActive' = connActive
  BY DEF Loop
<1>4. TypeOK'
  BY <1>2, <1>3 DEF SessionInv, TypeOK
<1>5. todo = {}
  BY DEF SessionInv, LoopInv
<1>6. \A x \in Slots : ses'[x].loc = "live" /\ ses'[x].st \in EndStates => running' = x
  <2> SUFFICES ASSUME NEW x \in Slots, ses'[x].loc = "live", ses'[x].st \in EndStates
               PROVE  running' = x
    OBVIOUS
  <2>1. CASE x = s
    BY <1>2, <2>1
  <2>2. CASE x # s
    <3>1. running = x
      BY <1>2, <2>2 DEF SessionInv, LoopInv
    <3> QED
      BY <3>1, <2>2, SlotsAssumption
  <2> QED
    BY <2>1, <2>2
<1>7. LoopInv'
  BY <1>2, <1>3, <1>5, <1>6 DEF LoopInv
<1> QED
  BY <1>2, <1>4, <1>7 DEF SessionInv

\* The same, for a handler that does not touch the DNS queue.
LEMMA HandlerReturn ==
  ASSUME SessionInv, NEW s \in Slots, NEW n \in SessionType,
         phase = "iterate", running \in {s, NoSlot}, ready' \in SUBSET Events,
         ses' = [ses EXCEPT ![s] = n], UNCHANGED <<dns, queue>>,
         n.loc = "live", LiveShape(n, dns[s]),
         running' \in {s, NoSlot}, n.st \in EndStates => running' = s,
         UNCHANGED Loop
  PROVE  SessionInv'
<1>1. dns \in [Slots -> DnsStatus] /\ queue \in Seq(Slots) /\ QueueInv
  BY DEF SessionInv, TypeOK
<1>2. dns[s] \in DnsStatus /\ dns' = [dns EXCEPT ![s] = dns[s]]
  BY <1>1
<1>3. queue' \in Seq(Slots) /\ QueueInv'
  BY <1>1 DEF QueueInv
<1> QED
  BY <1>2, <1>3, HandlerEnd

\* Return keeps the loop thread in a session that has to end.
LEMMA ReturnRuns ==
  ASSUME NEW s, NEW n, Return(s, n)
  PROVE  /\ ses' = [ses EXCEPT ![s] = n] /\ running' \in {s, NoSlot}
         /\ n.st \in EndStates => running' = s
  BY DEF Return, Continues

\* A message is still incomplete.
LEMMA ReadMoreInv ==
  ASSUME SessionInv, NEW s \in Slots, phase = "iterate", running \in {s, NoSlot},
         ready' \in SUBSET Events, ses[s].loc = "live", ses[s].st \in ReadStates,
         ReadMore(s), UNCHANGED <<Loop, dns, queue>>
  PROVE  SessionInv'
<1> DEFINE n == Buffered(ses[s], FALSE)
<1>1. ses[s] \in SessionType /\ LiveShape(ses[s], dns[s])
  BY DEF SessionInv, TypeOK, Shape
<1>2. n \in SessionType /\ SameShape(n, ses[s])
  BY <1>1, BufferStep, Zenon
<1>3. ses' = [ses EXCEPT ![s] = n] /\ running' = NoSlot
  BY Zenon DEF ReadMore
<1> HIDE DEF n
<1>4. n.loc = "live" /\ LiveShape(n, dns[s]) /\ n.st \notin EndStates
  BY <1>1, <1>2 DEF SameShape, LiveShape, ReadStates, EndStates
<1> QED
  BY <1>2, <1>3, <1>4, HandlerReturn

\* A reply is still incomplete.
LEMMA UnfinishedInv ==
  ASSUME SessionInv, NEW s \in Slots, phase = "iterate", running \in {s, NoSlot},
         ready' \in SUBSET Events, ses[s].loc = "live", ses[s].st \in WriteStates,
         Unfinished(s), UNCHANGED <<Loop, dns, queue>>
  PROVE  SessionInv'
<1>1. ses[s] \in SessionType /\ LiveShape(ses[s], dns[s]) /\ ses \in [Slots -> SessionType]
  BY DEF SessionInv, TypeOK, Shape
<1>2. ses' = [ses EXCEPT ![s] = ses[s]] /\ running' \in {s, NoSlot}
  BY <1>1 DEF Unfinished
<1>3. ses[s].st \notin EndStates
  BY DEF WriteStates, EndStates
<1> QED
  BY <1>1, <1>2, <1>3, HandlerReturn

\* A session that is waiting on nobody goes to ERROR or DONE: it keeps its fds and
\* references until End.
LEMMA EndingInv ==
  ASSUME SessionInv, NEW s \in Slots, phase = "iterate", running \in {s, NoSlot},
         ready' \in SUBSET Events, NEW r \in SessionType, r.loc = "live",
         LiveShape(r, "none"), dns[s] = "none", NEW st \in EndStates,
         Return(s, Jump(r, st)), UNCHANGED <<Loop, dns, queue>>
  PROVE  SessionInv'
<1> DEFINE n == Jump(r, st)
<1>1. st \in States
  BY Zenon DEF States
<1>2. /\ n \in SessionType /\ n.st = st /\ n.loc = "live" /\ n.refs = r.refs
      /\ n.cint = r.cint /\ n.oint = r.oint
  BY <1>1, StateStep, Zenon
<1>3. LiveShape(n, dns[s])
  BY <1>2 DEF LiveShape, EndStates, ReadStates
<1>4. /\ ses' = [ses EXCEPT ![s] = n] /\ running' \in {s, NoSlot}
      /\ n.st \in EndStates => running' = s
  BY ReturnRuns, Zenon
<1> QED
  BY <1>2, <1>3, <1>4, HandlerReturn

\* A handler returns a session n that waits for a state of its own.
LEMMA ReturnInv ==
  ASSUME SessionInv, NEW s \in Slots, phase = "iterate", running \in {s, NoSlot},
         ready' \in SUBSET Events, NEW n \in SessionType, n.loc = "live",
         LiveShape(n, dns[s]), Return(s, n), UNCHANGED <<Loop, dns, queue>>
  PROVE  SessionInv'
<1>1. /\ ses' = [ses EXCEPT ![s] = n] /\ running' \in {s, NoSlot}
      /\ n.st \in EndStates => running' = s
  BY ReturnRuns, Zenon
<1> QED
  BY <1>1, HandlerReturn

\* Before the destination is known only the client's fd holds the session.
LEMMA Negotiating ==
  ASSUME NEW r, NEW d, LiveShape(r, d),
         r.st \in ReadStates \cup {"HELLO_WRITE", "AUTH_WRITE"}
  PROVE  d = "none" /\ r.refs = 1 /\ r.oint = "unreg"
  BY DEF LiveShape, One, ReadStates

-----------------------------------------------------------------------------
\* The handlers.

\* hello_read keeps the invariant: the interest moves to OP_WRITE with the state.
LEMMA HelloReadInv ==
  ASSUME SessionInv, NEW s \in Slots, HelloRead(s)
  PROVE  SessionInv'
<1>1. /\ phase = "iterate" /\ running \in {s, NoSlot} /\ ready' \in SUBSET Events
      /\ ses[s] \in SessionType /\ ses[s].loc = "live" /\ LiveShape(ses[s], dns[s])
  BY HandlerSession DEF HelloRead
<1>2. ses[s].st = "HELLO_READ" /\ ses[s].st \in ReadStates
  BY DEF HelloRead, ReadStates
<1>3. dns[s] = "none" /\ ses[s].refs = 1 /\ ses[s].oint = "unreg"
  BY <1>1, <1>2, Negotiating
<1>4. UNCHANGED <<Loop, dns, queue>>
  BY DEF HelloRead
<1>5. CASE ReadMore(s)
  BY <1>1, <1>2, <1>4, <1>5, ReadMoreInv
<1>6. CASE Return(s, Errored(ses[s]))
  BY <1>1, <1>3, <1>4, <1>6, EndingInv DEF Errored, EndStates
<1>7. ASSUME NEW method \in Methods, NEW more \in BOOLEAN,
             Return(s, HelloDone(ses[s], method, more))
      PROVE  SessionInv'
  <2> DEFINE n == HelloDone(ses[s], method, more)
  <2>1. /\ n \in SessionType
        /\ n.loc = ses[s].loc /\ n.refs = ses[s].refs /\ n.oint = ses[s].oint
        /\ n.st = "HELLO_WRITE" /\ n.cint = "W"
    BY <1>1, <1>7, HelloStep, Zenon
  <2>2. LiveShape(n, dns[s])
    BY <1>3, <2>1 DEF LiveShape, One, ReadStates
  <2> QED
    BY <1>1, <1>4, <1>7, <2>1, <2>2, ReturnInv
<1> QED
  BY <1>5, <1>6, <1>7, Zenon DEF HelloRead

\* hello_write keeps the invariant, also when it ends the session.
LEMMA HelloWriteInv ==
  ASSUME SessionInv, NEW s \in Slots, HelloWrite(s)
  PROVE  SessionInv'
<1>1. /\ phase = "iterate" /\ running \in {s, NoSlot} /\ ready' \in SUBSET Events
      /\ ses[s] \in SessionType /\ ses[s].loc = "live" /\ LiveShape(ses[s], dns[s])
  BY HandlerSession DEF HelloWrite
<1>2. ses[s].st = "HELLO_WRITE" /\ ses[s].st \in WriteStates
  BY DEF HelloWrite, WriteStates
<1>3. dns[s] = "none" /\ ses[s].refs = 1 /\ ses[s].oint = "unreg"
  BY <1>1, <1>2, Negotiating
<1>4. UNCHANGED <<Loop, dns, queue>>
  BY DEF HelloWrite
<1>5. CASE Unfinished(s)
  BY <1>1, <1>2, <1>4, <1>5, UnfinishedInv
<1>6. CASE Return(s, Errored(ses[s]))
  BY <1>1, <1>3, <1>4, <1>6, EndingInv DEF Errored, EndStates
<1>7. CASE Return(s, Jump(ses[s], "DONE"))
  BY <1>1, <1>3, <1>4, <1>7, EndingInv DEF EndStates
<1>8. ASSUME NEW st \in {"AUTH_READ", "REQUEST_READ"}, Return(s, ReplySent(ses[s], st))
      PROVE  SessionInv'
  <2> DEFINE n == ReplySent(ses[s], st)
  <2>1. /\ n \in SessionType /\ n.loc = "live" /\ n.refs = 1 /\ n.oint = "unreg"
        /\ n.st = st /\ n.cint = "R"
    BY <1>1, <1>3, ReplySentStep
  <2>2. LiveShape(n, dns[s])
    BY <1>3, <2>1 DEF LiveShape, One, ReadStates
  <2> QED
    BY <1>1, <1>4, <1>8, <2>1, <2>2, ReturnInv
<1> QED
  BY <1>5, <1>6, <1>7, <1>8, Zenon DEF HelloWrite

\* auth_read keeps the invariant, whatever users_check says.
LEMMA AuthReadInv ==
  ASSUME SessionInv, NEW s \in Slots, AuthRead(s)
  PROVE  SessionInv'
<1>1. /\ phase = "iterate" /\ running \in {s, NoSlot} /\ ready' \in SUBSET Events
      /\ ses[s] \in SessionType /\ ses[s].loc = "live" /\ LiveShape(ses[s], dns[s])
  BY HandlerSession DEF AuthRead
<1>2. ses[s].st = "AUTH_READ" /\ ses[s].st \in ReadStates
  BY DEF AuthRead, ReadStates
<1>3. dns[s] = "none" /\ ses[s].refs = 1 /\ ses[s].oint = "unreg"
  BY <1>1, <1>2, Negotiating
<1>4. UNCHANGED <<Loop, dns, queue>>
  BY DEF AuthRead
<1>5. CASE ReadMore(s)
  BY <1>1, <1>2, <1>4, <1>5, ReadMoreInv
<1>6. CASE Return(s, Errored(ses[s]))
  BY <1>1, <1>3, <1>4, <1>6, EndingInv DEF Errored, EndStates
<1>7. ASSUME NEW valid \in BOOLEAN, NEW more \in BOOLEAN,
             Return(s, AuthDone(ses[s], valid, more))
      PROVE  SessionInv'
  <2> DEFINE n == AuthDone(ses[s], valid, more)
  <2>1. /\ n \in SessionType /\ n.loc = "live" /\ n.refs = 1 /\ n.oint = "unreg"
        /\ n.st = "AUTH_WRITE" /\ n.cint = "W"
    BY <1>1, <1>3, AuthStep
  <2>2. LiveShape(n, dns[s])
    BY <1>3, <2>1 DEF LiveShape, One, ReadStates
  <2> QED
    BY <1>1, <1>4, <1>7, <2>1, <2>2, ReturnInv
<1> QED
  BY <1>5, <1>6, <1>7, Zenon DEF AuthRead

\* auth_write keeps the invariant, also after a rejected login.
LEMMA AuthWriteInv ==
  ASSUME SessionInv, NEW s \in Slots, AuthWrite(s)
  PROVE  SessionInv'
<1>1. /\ phase = "iterate" /\ running \in {s, NoSlot} /\ ready' \in SUBSET Events
      /\ ses[s] \in SessionType /\ ses[s].loc = "live" /\ LiveShape(ses[s], dns[s])
  BY HandlerSession DEF AuthWrite
<1>2. ses[s].st = "AUTH_WRITE" /\ ses[s].st \in WriteStates
  BY DEF AuthWrite, WriteStates
<1>3. dns[s] = "none" /\ ses[s].refs = 1 /\ ses[s].oint = "unreg"
  BY <1>1, <1>2, Negotiating
<1>4. UNCHANGED <<Loop, dns, queue>>
  BY DEF AuthWrite
<1>5. CASE Unfinished(s)
  BY <1>1, <1>2, <1>4, <1>5, UnfinishedInv
<1>6. CASE Return(s, Errored(ses[s]))
  BY <1>1, <1>3, <1>4, <1>6, EndingInv DEF Errored, EndStates
<1>7. CASE Return(s, ReplySent(ses[s], AfterAuth(ses[s])))
  <2> DEFINE n == ReplySent(ses[s], AfterAuth(ses[s]))
  <2>1. AfterAuth(ses[s]) \in {"REQUEST_READ", "DONE"}
    BY Zenon DEF AfterAuth
  <2>2. /\ n \in SessionType /\ n.loc = "live" /\ n.refs = 1 /\ n.oint = "unreg"
        /\ n.st \in {"REQUEST_READ", "DONE"} /\ n.cint = "R"
    BY <1>1, <1>3, <2>1, ReplySentStep
  <2>3. LiveShape(n, dns[s])
    BY <1>3, <2>2 DEF LiveShape, One, ReadStates
  <2> QED
    BY <1>1, <1>4, <1>7, <2>2, <2>3, ReturnInv
<1> QED
  BY <1>5, <1>6, <1>7, Zenon DEF AuthWrite

\* A job joins the queue.
LEMMA QueueAppend ==
  ASSUME SessionInv, NEW s \in Slots, dns[s] = "none",
         queue' = Append(queue, s), dns' = [dns EXCEPT ![s] = "queued"]
  PROVE  queue' \in Seq(Slots) /\ QueueInv'
<1>1. queue \in Seq(Slots) /\ QueueInv /\ dns \in [Slots -> DnsStatus]
  BY DEF SessionInv, TypeOK
<1>2. /\ queue' \in Seq(Slots) /\ Len(queue') = Len(queue) + 1 /\ Len(queue) \in Nat
      /\ \A i \in 1..Len(queue) : queue'[i] = queue[i] /\ queue[i] \in Slots
      /\ queue'[Len(queue) + 1] = s
  BY <1>1
<1>3. \A i \in 1..Len(queue) : queue[i] # s
  BY <1>1 DEF QueueInv
<1>4. \A i \in 1..Len(queue') : i \in 1..Len(queue) \/ i = Len(queue) + 1
  BY <1>2
<1>5. \A i \in 1..Len(queue') : dns'[queue'[i]] = "queued"
  BY <1>1, <1>2, <1>3, <1>4 DEF QueueInv
<1>6. \A i, j \in 1..Len(queue') : queue'[i] = queue'[j] => i = j
  BY <1>1, <1>2, <1>3, <1>4 DEF QueueInv
<1> QED
  BY <1>2, <1>5, <1>6 DEF QueueInv

\* A job that is not in the queue moves on.
LEMMA QueueKeep ==
  ASSUME SessionInv, NEW s \in Slots, dns[s] # "queued", NEW d,
         queue' = queue, dns' = [dns EXCEPT ![s] = d]
  PROVE  queue' \in Seq(Slots) /\ QueueInv'
<1>1. queue \in Seq(Slots) /\ QueueInv /\ dns \in [Slots -> DnsStatus]
  BY DEF SessionInv, TypeOK
<1>2. \A i \in 1..Len(queue) : queue[i] \in Slots /\ queue[i] # s
  BY <1>1 DEF QueueInv
<1> QED
  BY <1>1, <1>2 DEF QueueInv

\* A session that will be refused, told by its client's fd.
LEMMA RefuseInv ==
  ASSUME SessionInv, NEW s \in Slots, phase = "iterate", running \in {s, NoSlot},
         ready' \in SUBSET Events, NEW r \in SessionType, r.loc = "live",
         r.refs = 1, r.oint = "unreg", dns[s] = "none",
         Return(s, Refuse(r)), UNCHANGED <<Loop, dns, queue>>
  PROVE  SessionInv'
<1> DEFINE n == Refuse(r)
<1>1. /\ n \in SessionType /\ n.loc = r.loc /\ n.refs = r.refs /\ n.oint = r.oint
      /\ n.st = "REQUEST_WRITE" /\ n.cint = "W" /\ n.out = "reject"
  BY RefuseStep, Zenon
<1>2. LiveShape(n, dns[s])
  BY <1>1 DEF LiveShape, One, ReadStates
<1> QED
  BY <1>1, <1>2, ReturnInv

\* What connecting leaves is a CONNECTING session with someone to wake it.
LEMMA TryConnectShape ==
  ASSUME NEW r \in SessionType, r.loc = "live", r.st = "CONNECTING", r.refs = 1,
         r.oint = "unreg", r.cint = "noop", NEW n \in TryConnect(r)
  PROVE  /\ n \in SessionType /\ n.loc = "live" /\ n.st = "CONNECTING"
         /\ LiveShape(n, "none")
<1>1. /\ n \in SessionType /\ n.loc = r.loc /\ n.st = r.st /\ n.out = r.out
      /\ \/ n.refs = r.refs + 1 /\ n.oint = "W" /\ n.cint = r.cint
         \/ n.refs = r.refs /\ n.oint = r.oint /\ n.cint = "W"
  BY TryConnectStep, Zenon
<1> QED
  BY <1>1 DEF LiveShape, One, ReadStates

\* request_read keeps the invariant: refused, connecting, or handed to the DNS
\* thread with one more reference.
LEMMA RequestReadInv ==
  ASSUME SessionInv, NEW s \in Slots, RequestRead(s)
  PROVE  SessionInv'
<1>1. /\ phase = "iterate" /\ running \in {s, NoSlot} /\ ready' \in SUBSET Events
      /\ ses[s] \in SessionType /\ ses[s].loc = "live" /\ LiveShape(ses[s], dns[s])
  BY HandlerSession DEF RequestRead
<1>2. ses[s].st = "REQUEST_READ" /\ ses[s].st \in ReadStates
  BY DEF RequestRead, ReadStates
<1>3. dns[s] = "none" /\ ses[s].refs = 1 /\ ses[s].oint = "unreg"
  BY <1>1, <1>2, Negotiating
<1>4. UNCHANGED Loop
  BY DEF RequestRead
<1>5. CASE ReadMore(s) /\ UNCHANGED <<dns, queue>>
  BY <1>1, <1>2, <1>4, <1>5, ReadMoreInv
<1>6. CASE Return(s, Errored(ses[s])) /\ UNCHANGED <<dns, queue>>
  BY <1>1, <1>3, <1>4, <1>6, EndingInv DEF Errored, EndStates
<1>7. ASSUME NEW more \in BOOLEAN
      PROVE  /\ Targeted(ses[s], more) \in SessionType
             /\ Targeted(ses[s], more).loc = "live" /\ Targeted(ses[s], more).refs = 1
             /\ Targeted(ses[s], more).oint = "unreg"
             /\ Targeted(ses[s], more).cint = "noop"
  BY <1>1, <1>3, TargetedStep
<1>8. ASSUME NEW more \in BOOLEAN,
             Return(s, Refuse(Buffered(ses[s], more))), UNCHANGED <<dns, queue>>
      PROVE  SessionInv'
  <2> DEFINE r == Buffered(ses[s], more)
  <2>1. r \in SessionType /\ SameShape(r, ses[s])
    BY <1>1, BufferStep, Zenon
  <2>2. r.loc = "live" /\ r.refs = 1 /\ r.oint = "unreg"
    BY <1>1, <1>3, <2>1 DEF SameShape
  <2> QED
    BY <1>1, <1>3, <1>4, <1>8, <2>1, <2>2, RefuseInv
<1>9. ASSUME NEW more \in BOOLEAN, UNCHANGED <<dns, queue>>,
             NEW n \in TryConnect(Jump(Targeted(ses[s], more), "CONNECTING")), Return(s, n)
      PROVE  SessionInv'
  <2> DEFINE t == Targeted(ses[s], more)
             r == Jump(t, "CONNECTING")
  <2>1. "CONNECTING" \in States
    BY Zenon DEF States
  <2>2. /\ r \in SessionType /\ r.loc = t.loc /\ r.refs = t.refs /\ r.oint = t.oint
        /\ r.st = "CONNECTING" /\ r.cint = t.cint
    BY <1>7, <2>1, StateStep, Zenon
  <2>3. r.loc = "live" /\ r.refs = 1 /\ r.oint = "unreg" /\ r.cint = "noop"
    BY <1>7, <2>2
  <2>4. n \in SessionType /\ n.loc = "live" /\ LiveShape(n, "none")
    BY <1>9, <2>2, <2>3, TryConnectShape
  <2> QED
    BY <1>1, <1>3, <1>4, <1>9, <2>4, ReturnInv
<1>10. ASSUME NEW more \in BOOLEAN,
              Return(s, Refuse(Targeted(ses[s], more))), UNCHANGED <<dns, queue>>
       PROVE  SessionInv'
  BY <1>1, <1>3, <1>4, <1>7, <1>10, RefuseInv
<1>11. ASSUME NEW more \in BOOLEAN, Submit(s, Targeted(ses[s], more))
       PROVE  SessionInv'
  <2> DEFINE t == Targeted(ses[s], more)
             n == Resolving(t)
  <2>1. queue' = Append(queue, s) /\ dns' = [dns EXCEPT ![s] = "queued"] /\ Return(s, n)
    BY <1>11, Zenon DEF Submit
  <2>2. /\ n \in SessionType /\ n.loc = t.loc /\ n.refs = t.refs + 1 /\ n.oint = t.oint
        /\ n.st = "REQUEST_RESOLV" /\ n.cint = t.cint
    BY <1>7, SubmitStep, Zenon
  <2>3. queue' \in Seq(Slots) /\ QueueInv'
    BY <1>3, <2>1, QueueAppend
  <2>4. /\ ses' = [ses EXCEPT ![s] = n] /\ running' \in {s, NoSlot}
        /\ n.st \in EndStates => running' = s
    BY <2>1, ReturnRuns, Zenon
  <2>5. n.loc = "live" /\ LiveShape(n, "queued")
    BY <1>7, <2>2 DEF LiveShape, One, ReadStates
  <2>6. "queued" \in DnsStatus
    BY DEF DnsStatus
  <2> QED
    BY <1>1, <1>4, <2>1, <2>2, <2>3, <2>4, <2>5, <2>6, HandlerEnd
<1> QED
  BY <1>5, <1>6, <1>8, <1>9, <1>10, <1>11, Zenon DEF RequestRead

\* request_write keeps the invariant: the origin's fd is there when COPY begins.
LEMMA RequestWriteInv ==
  ASSUME SessionInv, NEW s \in Slots, RequestWrite(s)
  PROVE  SessionInv'
<1>1. /\ phase = "iterate" /\ running \in {s, NoSlot} /\ ready' \in SUBSET Events
      /\ ses[s] \in SessionType /\ ses[s].loc = "live" /\ LiveShape(ses[s], dns[s])
  BY HandlerSession DEF RequestWrite
<1>2. ses[s].st = "REQUEST_WRITE" /\ ses[s].st \in WriteStates
  BY DEF RequestWrite, WriteStates
<1>3. dns[s] = "none" /\ (ses[s].out = "success" => ses[s].refs = 2)
  BY <1>1, <1>2 DEF LiveShape, One
<1>4. UNCHANGED <<Loop, dns, queue>>
  BY DEF RequestWrite
<1>5. CASE Unfinished(s)
  BY <1>1, <1>2, <1>4, <1>5, UnfinishedInv
<1>6. CASE Return(s, Errored(ses[s]))
  BY <1>1, <1>3, <1>4, <1>6, EndingInv DEF Errored, EndStates
<1>7. CASE Return(s, Jump(ses[s], "DONE"))
  BY <1>1, <1>3, <1>4, <1>7, EndingInv DEF EndStates
<1>8. CASE ses[s].out = "success" /\ Return(s, CopyInit(ses[s]))
  <2> DEFINE n == CopyInit(ses[s])
  <2>1. /\ n \in SessionType /\ n.loc = ses[s].loc /\ n.refs = ses[s].refs
        /\ n.st = "COPY" /\ n.cint = "copy" /\ n.oint = "copy"
    BY <1>1, CopyInitStep, Zenon
  <2>2. LiveShape(n, dns[s])
    BY <1>3, <1>8, <2>1 DEF LiveShape, One, ReadStates
  <2> QED
    BY <1>1, <1>4, <1>8, <2>1, <2>2, ReturnInv
<1> QED
  BY <1>5, <1>6, <1>7, <1>8, Zenon DEF RequestWrite

\* A connection that failed for good: the client is refused or dropped.
LEMMA FailedInv ==
  ASSUME SessionInv, NEW s \in Slots, phase = "iterate", running \in {s, NoSlot},
         ready' \in SUBSET Events, NEW r \in SessionType, r.loc = "live",
         r.refs = 1, r.oint = "unreg", r.cint # "unreg", dns[s] = "none",
         \/ Return(s, Refuse(CountFail(r)))
         \/ Return(s, Errored(CountFail(r))),
         UNCHANGED <<Loop, dns, queue>>
  PROVE  SessionInv'
<1> DEFINE m == CountFail(r)
           n == Errored(m)
<1>1. m \in SessionType /\ SameShape(m, r)
  BY CountFailStep, Zenon
<1> HIDE DEF m
<1>2. m.loc = "live" /\ m.refs = 1 /\ m.oint = "unreg" /\ m.cint # "unreg"
  BY <1>1 DEF SameShape
<1>3. CASE Return(s, Refuse(m))
  BY <1>1, <1>2, <1>3, RefuseInv
<1>4. CASE Return(s, n)
  <2>1. "ERROR" \in States
    BY Zenon DEF States, EndStates
  <2>2. /\ n \in SessionType /\ n.loc = m.loc /\ n.refs = m.refs /\ n.oint = m.oint
        /\ n.st = "ERROR" /\ n.cint = m.cint
    BY <1>1, <2>1, StateStep, Zenon DEF Errored
  <2>3. LiveShape(n, dns[s])
    BY <1>2, <2>2 DEF LiveShape, One, ReadStates
  <2> QED
    BY <1>2, <1>4, <2>2, <2>3, ReturnInv
<1> QED
  BY <1>3, <1>4 DEF m

\* connecting_write on client_fd keeps the invariant: no origin is left.
LEMMA ConnectingWriteClientInv ==
  ASSUME SessionInv, NEW s \in Slots, ConnectingWriteClient(s)
  PROVE  SessionInv'
<1>1. /\ phase = "iterate" /\ running \in {s, NoSlot} /\ ready' \in SUBSET Events
      /\ ses[s] \in SessionType /\ ses[s].loc = "live" /\ LiveShape(ses[s], dns[s])
  BY HandlerSession DEF ConnectingWriteClient
<1>2. ses[s].st = "CONNECTING" /\ ses[s].cint \in {"W", "copy"}
  BY DEF ConnectingWriteClient, Visit, Wanted, InterestOf
<1>3. /\ dns[s] = "none" /\ ses[s].refs = 1
      /\ ses[s].oint = "unreg" /\ ses[s].cint # "unreg"
  BY <1>1, <1>2 DEF LiveShape, One
<1>4. UNCHANGED <<Loop, dns, queue>>
  BY DEF ConnectingWriteClient
<1>5. \/ Return(s, Refuse(CountFail(ses[s])))
      \/ Return(s, Errored(CountFail(ses[s])))
  BY Zenon DEF ConnectingWriteClient
<1> QED
  BY <1>1, <1>3, <1>4, <1>5, FailedInv

\* What is known of a session whose origin's fd is ready while it connects.
LEMMA OriginReady ==
  ASSUME SessionInv, NEW s \in Slots, Visit(s, "origin", "W"), ses[s].st = "CONNECTING"
  PROVE  /\ phase = "iterate" /\ running \in {s, NoSlot} /\ ready' \in SUBSET Events
         /\ ses[s] \in SessionType /\ ses[s].loc = "live" /\ LiveShape(ses[s], dns[s])
         /\ dns[s] = "none" /\ ses[s].refs = 2 /\ ses[s].oint = "W" /\ ses[s].cint = "noop"
<1>1. /\ phase = "iterate" /\ running \in {s, NoSlot} /\ ready' \in SUBSET Events
      /\ ses[s] \in SessionType /\ ses[s].loc = "live" /\ LiveShape(ses[s], dns[s])
  BY HandlerSession
<1>2. ses[s].oint \in {"W", "copy"}
  BY DEF Visit, Wanted, InterestOf
<1> QED
  BY <1>1, <1>2 DEF LiveShape, One

\* connecting_write on origin_fd, connected, keeps the invariant.
LEMMA ConnectedInv ==
  ASSUME SessionInv, NEW s \in Slots, Connected(s)
  PROVE  SessionInv'
<1> DEFINE r == CountOk(ses[s])
           n == Established(r)
<1>1. /\ phase = "iterate" /\ running \in {s, NoSlot} /\ ready' \in SUBSET Events
      /\ ses[s] \in SessionType /\ ses[s].loc = "live" /\ LiveShape(ses[s], dns[s])
      /\ dns[s] = "none" /\ ses[s].refs = 2
  BY OriginReady DEF Connected
<1>2. UNCHANGED <<Loop, dns, queue>>
  BY DEF Connected
<1>3. r \in SessionType /\ SameShape(r, ses[s])
  BY <1>1, CountOkStep, Zenon
<1>4. Return(s, n) \/ Return(s, Errored(r))
  BY Zenon DEF Connected
<1> HIDE DEF r
<1>5. r.loc = "live" /\ r.refs = 2 /\ LiveShape(r, "none")
  BY <1>1, <1>3 DEF SameShape, LiveShape, ReadStates
<1>6. CASE Return(s, n)
  <2>1. /\ n \in SessionType /\ n.loc = r.loc /\ n.refs = r.refs /\ n.oint = "noop"
        /\ n.st = "REQUEST_WRITE" /\ n.cint = "W" /\ n.out = "success"
    BY <1>3, ConnectedStep, Zenon
  <2>2. LiveShape(n, dns[s])
    BY <1>1, <1>5, <2>1 DEF LiveShape, One, ReadStates
  <2> QED
    BY <1>1, <1>2, <1>5, <1>6, <2>1, <2>2, ReturnInv
<1>7. CASE Return(s, Errored(r))
  BY <1>1, <1>2, <1>3, <1>5, <1>7, EndingInv DEF Errored, EndStates
<1> QED
  BY <1>4, <1>6, <1>7

\* connecting_write on origin_fd, failed, keeps the invariant: the origin's
\* reference is given back before the next address takes one.
LEMMA ConnectFailedInv ==
  ASSUME SessionInv, NEW s \in Slots, ConnectFailed(s)
  PROVE  SessionInv'
<1> DEFINE r == UnregisterOrigin(ses[s])
<1>1. /\ phase = "iterate" /\ running \in {s, NoSlot} /\ ready' \in SUBSET Events
      /\ ses[s] \in SessionType /\ ses[s].loc = "live"
      /\ dns[s] = "none" /\ ses[s].refs = 2 /\ ses[s].cint = "noop"
  BY OriginReady DEF ConnectFailed
<1>2. UNCHANGED <<Loop, dns, queue>> /\ ses[s].st = "CONNECTING"
  BY DEF ConnectFailed
<1>3. /\ r \in SessionType /\ r.loc = ses[s].loc /\ r.st = ses[s].st
      /\ r.refs = 1 /\ r.oint = "unreg" /\ r.cint = ses[s].cint
  BY <1>1, UnregisterOriginStep, Zenon
<1>4. \E n \in ConnectError(r) : Return(s, n)
  BY Zenon DEF ConnectFailed
<1> HIDE DEF r
<1>5. ASSUME NEW n \in TryConnect(r), Return(s, n)
      PROVE  SessionInv'
  <2>1. n \in SessionType /\ n.loc = "live" /\ LiveShape(n, "none")
    BY <1>1, <1>2, <1>3, <1>5, TryConnectShape
  <2> QED
    BY <1>1, <1>2, <1>5, <2>1, ReturnInv
<1>6. CASE Return(s, Refuse(CountFail(r))) \/ Return(s, Errored(CountFail(r)))
  <2>1. r.loc = "live" /\ r.cint # "unreg"
    BY <1>1, <1>3
  <2> QED
    BY <1>1, <1>2, <1>3, <1>6, <2>1, FailedInv
<1> QED
  BY <1>4, <1>5, <1>6, Zenon DEF ConnectError

\* copy_read and copy_write keep the invariant.
LEMMA RelayInv ==
  ASSUME SessionInv, NEW s \in Slots, Relay(s)
  PROVE  SessionInv'
<1>1. /\ phase = "iterate" /\ running \in {s, NoSlot} /\ ready' \in SUBSET Events
      /\ ses[s] \in SessionType /\ ses[s].loc = "live" /\ LiveShape(ses[s], dns[s])
  BY HandlerSession DEF Relay
<1>2. PICK st \in {"COPY", "DONE", "ERROR"} : Return(s, Jump(ses[s], st))
  BY DEF Relay
<1>3. ses[s].st = "COPY" /\ UNCHANGED <<Loop, dns, queue>>
  BY DEF Relay
<1> DEFINE n == Jump(ses[s], st)
<1>4. st \in States
  BY Zenon DEF States, EndStates
<1>5. /\ n \in SessionType /\ n.loc = ses[s].loc /\ n.refs = ses[s].refs
      /\ n.oint = ses[s].oint /\ n.st = st /\ n.cint = ses[s].cint
  BY <1>1, <1>4, StateStep, Zenon
<1> HIDE DEF n
<1>6. LiveShape(n, dns[s])
  BY <1>1, <1>3, <1>5 DEF LiveShape, One, ReadStates
<1> QED
  BY <1>1, <1>2, <1>3, <1>5, <1>6, ReturnInv DEF n

-----------------------------------------------------------------------------
\* The end and the beginning of a session, the sweep and the DNS thread.

\* The session of slot s changes, or ends, outside a handler.
LEMMA SlotStep ==
  ASSUME SessionInv, NEW s \in Slots, NEW n \in SessionType, NEW d \in DnsStatus,
         ses' = [ses EXCEPT ![s] = n], dns' = [dns EXCEPT ![s] = d], Shape(n, d),
         queue' \in Seq(Slots), QueueInv', UNCHANGED <<phase, ready>>,
         incoming' \in BOOLEAN, todo' \in SUBSET todo, active' \in Nat, connActive' \in Int,
         \/ running' = running
         \/ running' = NoSlot /\ running = s,
         s = running' \/ s \in todo' => n.loc = "live",
         n.loc = "live" /\ n.st \in EndStates => s = running'
  PROVE  SessionInv'
<1>1. /\ ses' \in [Slots -> SessionType] /\ dns' \in [Slots -> DnsStatus]
      /\ \A x \in Slots : Shape(ses'[x], dns'[x])
      /\ ses'[s] = n
      /\ \A x \in Slots \ {s} : ses'[x] = ses[x]
  BY SessionUpdate
<1>2. /\ running \in Slots \cup {NoSlot} /\ todo \in SUBSET Slots
      /\ phase \in {"select", "iterate", "notify", "sweep"} /\ ready \in SUBSET Events
  BY DEF SessionInv, TypeOK
<1>3. TypeOK'
  BY <1>1, <1>2 DEF TypeOK
<1>4. LoopInv
  BY DEF SessionInv
<1>5. \A x \in Slots : ses'[x].loc = "live" /\ ses'[x].st \in EndStates => running' = x
  BY <1>1, <1>4 DEF LoopInv
<1>6. running' # NoSlot => ses'[running'].loc = "live" /\ phase' \in {"iterate", "notify"}
  BY <1>1, <1>2, <1>4 DEF LoopInv
<1>7. \A x \in todo' : ses'[x].loc = "live" /\ phase' = "sweep"
  BY <1>1, <1>2, <1>4 DEF LoopInv
<1> QED
  BY <1>1, <1>3, <1>5, <1>6, <1>7 DEF SessionInv, LoopInv

\* The same, for a step that does not touch the DNS queue.
LEMMA SameQueue ==
  ASSUME SessionInv, NEW s \in Slots, UNCHANGED <<dns, queue>>
  PROVE  /\ dns[s] \in DnsStatus /\ dns' = [dns EXCEPT ![s] = dns[s]]
         /\ queue' \in Seq(Slots) /\ QueueInv'
<1>1. dns \in [Slots -> DnsStatus] /\ queue \in Seq(Slots) /\ QueueInv
  BY DEF SessionInv, TypeOK
<1> QED
  BY <1>1 DEF QueueInv

\* socksv5_done on a session r that waits for no DNS answer.
LEMMA FinishInv ==
  ASSUME SessionInv, NEW s \in Slots, NEW r \in SessionType, r.loc = "live",
         LiveShape(r, "none"), dns[s] = "none", Finish(s, r),
         running \in {s, NoSlot}, running' = NoSlot, todo' \in SUBSET (todo \ {s}),
         UNCHANGED <<phase, incoming, ready, dns, queue>>
  PROVE  SessionInv'
<1> DEFINE n == SocksDone(r)
<1>1. IF r.oint = "unreg" THEN r.refs = 1 ELSE r.refs = 2
  BY DEF LiveShape, One
<1>2. /\ n \in SessionType /\ n.loc \in {"pool", "free"}
      /\ n.cint = "unreg" /\ n.oint = "unreg"
  BY <1>1, SocksDoneStep, Zenon
<1>3. ses' = [ses EXCEPT ![s] = n]
  BY Zenon DEF Finish
<1> HIDE DEF n
<1>4. /\ dns[s] \in DnsStatus /\ dns' = [dns EXCEPT ![s] = dns[s]]
      /\ queue' \in Seq(Slots) /\ QueueInv'
  BY SameQueue
<1>5. Shape(n, dns[s])
  BY <1>2 DEF Shape
<1>6. active' \in Nat /\ connActive' \in Int /\ incoming' \in BOOLEAN
  BY DEF SessionInv, TypeOK, Finish
<1>7. s # NoSlot
  BY SlotsAssumption
<1> QED
  BY <1>2, <1>3, <1>4, <1>5, <1>6, <1>7, SlotStep

\* socksv5_done after a handler keeps the invariant.
LEMMA EndInv ==
  ASSUME SessionInv, NEW s \in Slots, End(s)
  PROVE  SessionInv'
<1> DEFINE r == IF ses[s].st = "ERROR" THEN Blame(ses[s]) ELSE ses[s]
<1>1. running = s /\ ses[s].st \in EndStates /\ Finish(s, r) /\ running' = NoSlot
      /\ UNCHANGED <<phase, incoming, todo, ready, dns, queue>>
  BY DEF End
<1>2. s # NoSlot
  BY SlotsAssumption
<1>3. ses[s].loc = "live" /\ phase \in {"iterate", "notify"} /\ todo = {}
  BY <1>1, <1>2 DEF SessionInv, LoopInv
<1>4. ses[s] \in SessionType /\ LiveShape(ses[s], dns[s])
  BY <1>3 DEF SessionInv, TypeOK, Shape
<1>5. dns[s] = "none"
  BY <1>1, <1>4 DEF LiveShape, EndStates
<1>6. r \in SessionType /\ SameShape(r, ses[s])
  <2>1. SameShape(ses[s], ses[s])
    BY Zenon DEF SameShape
  <2> QED
    BY <1>4, <2>1, BlameStep, Zenon
<1> HIDE DEF r
<1>7. r.loc = "live" /\ LiveShape(r, "none")
  BY <1>3, <1>4, <1>5, <1>6 DEF SameShape, LiveShape, ReadStates
<1>8. todo' \in SUBSET (todo \ {s})
  BY <1>1, <1>3
<1> QED
  BY <1>1, <1>5, <1>6, <1>7, <1>8, FinishInv

\* In the sweep no handler is in progress and the visited session is live.
LEMMA Swept ==
  ASSUME SessionInv, NEW s \in Slots, phase = "sweep", s \in todo
  PROVE  /\ ses[s] \in SessionType /\ ses[s].loc = "live" /\ LiveShape(ses[s], dns[s])
         /\ running = NoSlot /\ ses[s].st \notin EndStates
<1>1. ses[s].loc = "live" /\ running = NoSlot
  BY DEF SessionInv, LoopInv
<1>2. s # NoSlot
  BY SlotsAssumption
<1> QED
  BY <1>1, <1>2 DEF SessionInv, LoopInv, TypeOK, Shape

\* socksv5_done from the sweep keeps the invariant: no DNS job is left behind.
LEMMA SessionTimeoutInv ==
  ASSUME SessionInv, NEW s \in Slots, SessionTimeout(s)
  PROVE  SessionInv'
<1> DEFINE r == Blame(ses[s])
<1>1. /\ phase = "sweep" /\ s \in todo /\ Finish(s, r) /\ todo' = todo \ {s}
      /\ UNCHANGED <<dns, queue, phase, ready, incoming, running>>
      /\ ses[s].st # "REQUEST_RESOLV"
  BY DEF SessionTimeout, Expirable
<1>2. /\ ses[s] \in SessionType /\ ses[s].loc = "live" /\ LiveShape(ses[s], dns[s])
      /\ running = NoSlot
  BY <1>1, Swept
<1>3. dns[s] = "none"
  BY <1>1, <1>2 DEF LiveShape
<1>4. r \in SessionType /\ SameShape(r, ses[s])
  BY <1>2, BlameStep, Zenon
<1> HIDE DEF r
<1>5. r.loc = "live" /\ LiveShape(r, "none")
  BY <1>2, <1>3, <1>4 DEF SameShape, LiveShape, ReadStates
<1> QED
  BY <1>1, <1>2, <1>3, <1>4, <1>5, FinishInv

\* connecting_timeout keeps the invariant: the client is woken.
LEMMA ConnectTimeoutInv ==
  ASSUME SessionInv, NEW s \in Slots, ConnectTimeout(s)
  PROVE  SessionInv'
<1> DEFINE r == IF ses[s].oint = "unreg" THEN ses[s] ELSE UnregisterOrigin(ses[s])
           n == Woken(r)
<1>1. /\ phase = "sweep" /\ s \in todo /\ ses[s].st = "CONNECTING" /\ todo' = todo \ {s}
      /\ UNCHANGED <<dns, queue, phase, ready, incoming, running, active, connActive>>
  BY DEF ConnectTimeout
<1>2. ses' = [ses EXCEPT ![s] = n]
  BY Zenon DEF ConnectTimeout, ConnectingTimeout
<1>3. /\ ses[s] \in SessionType /\ ses[s].loc = "live" /\ LiveShape(ses[s], dns[s])
      /\ running = NoSlot
  BY <1>1, Swept
<1>4. /\ dns[s] = "none"
      /\ ses[s].refs = IF ses[s].oint = "unreg" THEN 1 ELSE 2
  BY <1>1, <1>3 DEF LiveShape, One
<1>5. /\ r \in SessionType /\ r.loc = "live" /\ r.st = "CONNECTING"
      /\ r.refs = 1 /\ r.oint = "unreg"
  <2>1. CASE ses[s].oint = "unreg"
    BY <1>1, <1>3, <1>4, <2>1
  <2>2. CASE ses[s].oint # "unreg"
    <3>1. ses[s].refs = 2 /\ r = UnregisterOrigin(ses[s])
      BY <1>4, <2>2, Zenon
    <3> QED
      BY <1>1, <1>3, <3>1, UnregisterOriginStep, Zenon
  <2> QED
    BY <2>1, <2>2
<1> HIDE DEF r
<1>6. /\ n \in SessionType /\ n.loc = r.loc /\ n.refs = r.refs /\ n.oint = r.oint
      /\ n.st = r.st /\ n.cint = "W"
  BY <1>5, WakeStep, Zenon
<1> HIDE DEF n
<1>7. Shape(n, dns[s]) /\ n.loc = "live" /\ n.st \notin EndStates
  BY <1>4, <1>5, <1>6 DEF Shape, LiveShape, One, ReadStates, EndStates
<1>8. /\ dns[s] \in DnsStatus /\ dns' = [dns EXCEPT ![s] = dns[s]]
      /\ queue' \in Seq(Slots) /\ QueueInv'
  BY <1>1, SameQueue
<1>9. active' \in Nat /\ connActive' \in Int /\ incoming' \in BOOLEAN /\ todo' \in SUBSET todo
  BY <1>1 DEF SessionInv, TypeOK
<1> QED
  BY <1>1, <1>2, <1>3, <1>6, <1>7, <1>8, <1>9, SlotStep

\* A struct that socks5_new hands out is nobody's.
LEMMA AllocatedFree ==
  ASSUME SessionInv, NEW s \in Slots, Allocated(s), AcceptReady
  PROVE  /\ dns[s] = "none" /\ s # running /\ todo = {} /\ incoming' = FALSE
<1>1. ses[s].loc # "live"
  BY DEF Allocated, Pool, Live
<1>2. Shape(ses[s], dns[s])
  BY DEF SessionInv
<1>3. phase = "iterate" /\ running = NoSlot /\ incoming' = FALSE
  BY DEF AcceptReady
<1> QED
  BY <1>1, <1>2, <1>3, SlotsAssumption DEF Shape, SessionInv, LoopInv

\* socksv5_passive_accept keeps the invariant.
LEMMA AcceptInv ==
  ASSUME SessionInv, NEW s \in Slots, Accept(s)
  PROVE  SessionInv'
<1>1. /\ ses' = [ses EXCEPT ![s] = Accepted] /\ active' = active + 1
      /\ connActive' = connActive + 1
      /\ UNCHANGED <<dns, queue, phase, ready, running, todo>>
  BY DEF Accept
<1>2. dns[s] = "none" /\ s # running /\ todo = {} /\ incoming' = FALSE
  BY AllocatedFree DEF Accept
<1>3. /\ Accepted \in SessionType /\ Accepted.loc = "live" /\ Accepted.refs = 1
      /\ Accepted.st = "HELLO_READ" /\ Accepted.oint = "unreg" /\ Accepted.cint = "R"
  BY NewSessionStep
<1>4. Shape(Accepted, dns[s]) /\ Accepted.st \notin EndStates
  BY <1>2, <1>3 DEF Shape, LiveShape, One, ReadStates, EndStates
<1>5. /\ dns[s] \in DnsStatus /\ dns' = [dns EXCEPT ![s] = dns[s]]
      /\ queue' \in Seq(Slots) /\ QueueInv'
  BY <1>1, SameQueue
<1>6. active \in Nat /\ connActive \in Int
  BY DEF SessionInv, TypeOK
<1>7. active' \in Nat /\ connActive' \in Int /\ todo' \in SUBSET todo
  BY <1>1, <1>6
<1>8. incoming' \in BOOLEAN
  BY <1>2
<1> QED
  BY <1>1, <1>2, <1>3, <1>4, <1>5, <1>7, <1>8, SlotStep

\* A failed registration in socksv5_passive_accept keeps the invariant.
LEMMA AcceptUnregisteredInv ==
  ASSUME SessionInv, NEW s \in Slots, AcceptUnregistered(s)
  PROVE  SessionInv'
<1> DEFINE r == Release(NewSession)
           n == Scrub(r)
<1>1. /\ ses' = [ses EXCEPT ![s] = n]
      /\ UNCHANGED <<dns, queue, phase, ready, running, todo, active, connActive>>
  BY DEF AcceptUnregistered
<1>2. dns[s] = "none" /\ s # running /\ todo = {} /\ incoming' = FALSE
  BY AllocatedFree DEF AcceptUnregistered
<1>3. /\ NewSession \in SessionType /\ NewSession.refs = 1
      /\ NewSession.cint = "unreg" /\ NewSession.oint = "unreg"
  BY NewSessionStep
<1>4. /\ r \in SessionType /\ r.cint = "unreg" /\ r.oint = "unreg"
      /\ r.loc \in {"pool", "free"}
  BY <1>3, ReleaseStep
<1> HIDE DEF r
<1>5. r.loc # "live"
  BY <1>4
<1>6. n \in SessionType /\ n.loc = r.loc /\ n.cint = "unreg" /\ n.oint = "unreg"
  BY <1>4, <1>5, ScrubStep, Zenon
<1> HIDE DEF n
<1>7. Shape(n, dns[s]) /\ n.loc # "live"
  BY <1>2, <1>5, <1>6 DEF Shape
<1>8. /\ dns[s] \in DnsStatus /\ dns' = [dns EXCEPT ![s] = dns[s]]
      /\ queue' \in Seq(Slots) /\ QueueInv'
  BY <1>1, SameQueue
<1>9. active' \in Nat /\ connActive' \in Int /\ incoming' \in BOOLEAN /\ todo' \in SUBSET todo
  BY <1>1, <1>2 DEF SessionInv, TypeOK
<1> QED
  BY <1>1, <1>2, <1>6, <1>7, <1>8, <1>9, SlotStep

\* The DNS thread's job of s moves on; the session of s keeps its shape.
LEMMA DnsMove ==
  ASSUME SessionInv, NEW s \in Slots, dns[s] # "none",
         NEW n \in SessionType, SameShape(n, ses[s]), ses' = [ses EXCEPT ![s] = n],
         NEW d \in DnsStatus, d # "none", dns' = [dns EXCEPT ![s] = d],
         queue' \in Seq(Slots), QueueInv', UNCHANGED <<Loop, ready, running>>
  PROVE  SessionInv'
<1>1. Shape(ses[s], dns[s])
  BY DEF SessionInv
<1>2. ses[s].loc = "live" /\ LiveShape(ses[s], dns[s])
  BY <1>1 DEF Shape
<1>3. n.loc = "live" /\ Shape(n, d) /\ n.st = ses[s].st /\ n.st = "REQUEST_RESOLV"
  BY <1>2 DEF SameShape, Shape, LiveShape, One, ReadStates
<1>4. n.st \notin EndStates
  BY <1>3 DEF EndStates
<1>5. /\ UNCHANGED <<phase, ready>> /\ running' = running
      /\ active' \in Nat /\ connActive' \in Int /\ incoming' \in BOOLEAN
      /\ todo' \in SUBSET todo
  BY DEF Loop, SessionInv, TypeOK
<1> QED
  BY <1>3, <1>4, <1>5, SlotStep

\* The DNS thread's write into the session keeps the invariant.
LEMMA DnsAnswerInv ==
  ASSUME SessionInv, NEW s \in Slots, DnsAnswer(s)
  PROVE  SessionInv'
<1>1. /\ dns[s] = "resolving" /\ dns' = [dns EXCEPT ![s] = "answered"]
      /\ UNCHANGED <<queue, Loop, ready, running>>
  BY DEF DnsAnswer
<1>2. PICK i \in 0..MaxAddrs : ses' = [ses EXCEPT ![s] = Resolved(ses[s], i)]
  BY DEF DnsAnswer
<1>3. ses[s] \in SessionType
  BY DEF SessionInv, TypeOK
<1>4. Resolved(ses[s], i) \in SessionType /\ SameShape(Resolved(ses[s], i), ses[s])
  BY <1>3, AnswerStep, Zenon
<1>5. queue' \in Seq(Slots) /\ QueueInv'
  BY <1>1, QueueKeep
<1>6. "answered" \in DnsStatus /\ dns[s] # "none" /\ "answered" # "none"
  BY <1>1 DEF DnsStatus
<1> QED
  BY <1>1, <1>2, <1>4, <1>5, <1>6, DnsMove

\* selector_notify_block keeps the invariant.
LEMMA DnsNotifyInv ==
  ASSUME SessionInv, NEW s \in Slots, DnsNotify(s)
  PROVE  SessionInv'
<1>1. /\ dns[s] = "answered" /\ dns' = [dns EXCEPT ![s] = "posted"]
      /\ UNCHANGED <<ses, queue, Loop, ready, running>>
  BY DEF DnsNotify
<1>2. ses[s] \in SessionType /\ ses' = [ses EXCEPT ![s] = ses[s]]
  BY <1>1 DEF SessionInv, TypeOK
<1>3. queue' \in Seq(Slots) /\ QueueInv'
  BY <1>1, QueueKeep
<1>4. "posted" \in DnsStatus /\ dns[s] # "none" /\ "posted" # "none"
  BY <1>1 DEF DnsStatus
<1>5. SameShape(ses[s], ses[s])
  BY Zenon DEF SameShape
<1> QED
  BY <1>1, <1>2, <1>3, <1>4, <1>5, DnsMove

\* Taking a job off the DNS queue keeps the invariant.
LEMMA DnsTakeInv ==
  ASSUME SessionInv, DnsTake
  PROVE  SessionInv'
<1> DEFINE s == Head(queue)
<1>1. /\ queue # <<>> /\ queue' = Tail(queue) /\ dns' = [dns EXCEPT ![s] = "resolving"]
      /\ UNCHANGED <<ses, Loop, ready, running>>
  BY DEF DnsTake
<1>2. queue \in Seq(Slots) /\ QueueInv /\ dns \in [Slots -> DnsStatus]
  BY DEF SessionInv, TypeOK
<1>3. /\ s \in Slots /\ s = queue[1] /\ Len(queue) \in Nat \ {0}
      /\ queue' \in Seq(Slots) /\ Len(queue') = Len(queue) - 1
      /\ \A i \in 1..Len(queue') : queue'[i] = queue[i + 1]
      /\ \A i \in 1..Len(queue) : queue[i] \in Slots
  BY <1>1, <1>2
<1> HIDE DEF s
<1>4. dns[s] = "queued"
  BY <1>2, <1>3 DEF QueueInv
<1>5. \A i \in 1..Len(queue') : i + 1 \in 1..Len(queue) /\ i + 1 # 1
  BY <1>3
<1>6. \A i \in 1..Len(queue') : queue'[i] # s /\ dns[queue'[i]] = "queued"
                                  /\ queue'[i] \in Slots
  BY <1>2, <1>3, <1>5 DEF QueueInv
<1>7. \A i \in 1..Len(queue') : dns'[queue'[i]] = "queued"
  BY <1>1, <1>2, <1>6
<1>8. \A i, j \in 1..Len(queue') : queue'[i] = queue'[j] => i = j
  BY <1>2, <1>3, <1>5 DEF QueueInv
<1>9. QueueInv'
  BY <1>7, <1>8 DEF QueueInv
<1>10. ses[s] \in SessionType /\ ses' = [ses EXCEPT ![s] = ses[s]]
  BY <1>1, <1>3 DEF SessionInv, TypeOK
<1>11. "resolving" \in DnsStatus /\ dns[s] # "none" /\ "resolving" # "none"
  BY <1>4 DEF DnsStatus
<1>12. SameShape(ses[s], ses[s])
  BY Zenon DEF SameShape
<1> QED
  BY <1>1, <1>3, <1>9, <1>10, <1>11, <1>12, DnsMove

\* request_resolv_done keeps the invariant: the DNS thread's reference is given
\* back exactly when its job is over.
LEMMA HandleBlockInv ==
  ASSUME SessionInv, NEW s \in Slots, HandleBlock(s)
  PROVE  SessionInv'
<1>1. /\ phase = "notify" /\ running = NoSlot /\ dns[s] = "posted"
      /\ dns' = [dns EXCEPT ![s] = "none"]
      /\ UNCHANGED <<queue, ready, Loop>>
  BY DEF HandleBlock, Loop
<1>2. ses[s] \in SessionType /\ Shape(ses[s], dns[s]) /\ ready' \in SUBSET Events
  BY <1>1 DEF SessionInv, TypeOK
<1>3. /\ ses[s].loc = "live" /\ ses[s].refs = 2 /\ ses[s].st = "REQUEST_RESOLV"
      /\ ses[s].cint = "noop" /\ ses[s].oint = "unreg"
  BY <1>1, <1>2 DEF Shape, LiveShape, One
<1>4. PICK n \in ResolvDone(ses[s]) : /\ ses' = [ses EXCEPT ![s] = n]
                                      /\ running' = IF n.st \in EndStates THEN s ELSE NoSlot
  BY <1>3 DEF HandleBlock
<1> DEFINE f == GivenBack(ses[s])
<1>5. /\ f \in SessionType /\ f.loc = ses[s].loc /\ f.refs = 1 /\ f.oint = ses[s].oint
      /\ f.cint = ses[s].cint
  BY <1>2, <1>3, ForgetStep, Zenon
<1>6. n \in {Refuse(f), Errored(Blame(f))} \/ n \in TryConnect(Connecting(f))
  BY <1>4, Zenon DEF ResolvDone
<1> HIDE DEF f
<1>7. n \in SessionType /\ n.loc = "live" /\ LiveShape(n, "none")
  <2>1. CASE n = Refuse(f)
    <3>1. /\ n \in SessionType /\ n.loc = f.loc /\ n.refs = f.refs /\ n.oint = f.oint
          /\ n.st = "REQUEST_WRITE" /\ n.cint = "W" /\ n.out = "reject"
      BY <1>5, <2>1, RefuseStep, Zenon
    <3> QED
      BY <1>3, <1>5, <3>1 DEF LiveShape, One, ReadStates
  <2>2. CASE n = Errored(Blame(f))
    <3> DEFINE m == Blame(f)
    <3>1. m \in SessionType /\ SameShape(m, f)
      BY <1>5, BlameStep, Zenon
    <3>2. "ERROR" \in States
      BY Zenon DEF States, EndStates
    <3>3. n = Jump(m, "ERROR")
      BY <2>2, Zenon DEF Errored
    <3> HIDE DEF m
    <3>4. /\ n \in SessionType /\ n.loc = m.loc /\ n.refs = m.refs /\ n.oint = m.oint
          /\ n.st = "ERROR" /\ n.cint = m.cint
      BY <3>1, <3>2, <3>3, StateStep, Zenon
    <3> QED
      BY <1>3, <1>5, <3>1, <3>4 DEF SameShape, LiveShape, One, ReadStates
  <2>3. CASE n \in TryConnect(Connecting(f))
    <3> DEFINE m == Connecting(f)
    <3>1. /\ m \in SessionType /\ m.loc = f.loc /\ m.refs = f.refs /\ m.oint = f.oint
          /\ m.st = "CONNECTING" /\ m.cint = f.cint
      BY <1>5, ConnectingStep, Zenon
    <3> HIDE DEF m
    <3>2. n \in TryConnect(m)
      BY <2>3 DEF m
    <3> QED
      BY <1>3, <1>5, <3>1, <3>2, TryConnectShape
  <2> QED
    BY <1>6, <2>1, <2>2, <2>3
<1>8. queue' \in Seq(Slots) /\ QueueInv'
  BY <1>1, QueueKeep
<1>9. "none" \in DnsStatus
  BY DEF DnsStatus
<1>10. running' \in {s, NoSlot} /\ (n.st \in EndStates => running' = s)
  BY <1>4
<1> QED
  BY <1>1, <1>2, <1>4, <1>7, <1>8, <1>9, <1>10, HandlerEnd

\* A step of the loop that touches no session: only the phase, what is ready,
\* and the sessions left to visit.
LEMMA LoopStep ==
  ASSUME SessionInv, UNCHANGED <<ses, dns, queue, running, active, connActive>>,
         phase' \in {"select", "iterate", "notify", "sweep"},
         ready' \in SUBSET Events, incoming' \in BOOLEAN, todo' \in SUBSET Slots,
         running = NoSlot \/ phase' \in {"iterate", "notify"},
         \A x \in todo' : ses[x].loc = "live" /\ phase' = "sweep"
  PROVE  SessionInv'
<1>1. TypeOK'
  BY DEF SessionInv, TypeOK
<1>2. QueueInv' /\ \A x \in Slots : Shape(ses[x], dns[x])'
  BY DEF SessionInv, QueueInv, Shape, LiveShape
<1>3. LoopInv'
  BY DEF SessionInv, LoopInv
<1> QED
  BY <1>1, <1>2, <1>3 DEF SessionInv

\* The loop's own steps keep the invariant.
LEMMA RoundInv ==
  ASSUME SessionInv,
         \/ Select \/ EndIteration \/ EndNotify \/ EndSweep \/ AcceptRefused
         \/ \E s \in Slots : SweepPass(s)
  PROVE  SessionInv'
<1>1. /\ running # NoSlot => phase \in {"iterate", "notify"}
      /\ \A x \in todo : ses[x].loc = "live" /\ phase = "sweep"
      /\ todo \in SUBSET Slots /\ ready \in SUBSET Events /\ incoming \in BOOLEAN
      /\ phase \in {"select", "iterate", "notify", "sweep"}
  BY DEF SessionInv, LoopInv, TypeOK
<1>2. CASE Select
  <2>1. todo = {} /\ running = NoSlot
    BY <1>1, <1>2 DEF Select
  <2>2. /\ UNCHANGED <<ses, dns, queue, running, active, connActive>>
        /\ phase' = "iterate" /\ ready' \in SUBSET Events /\ incoming' \in BOOLEAN
        /\ todo' = {}
    BY <1>2, <2>1 DEF Select
  <2> QED
    BY <2>1, <2>2, LoopStep
<1>3. CASE EndIteration
  <2>1. /\ UNCHANGED <<ses, dns, queue, running, active, connActive>>
        /\ phase' = "notify" /\ ready' = {} /\ incoming' = incoming
        /\ todo' = todo /\ running = NoSlot /\ todo = {}
    BY <1>1, <1>3 DEF EndIteration
  <2> QED
    BY <1>1, <2>1, LoopStep
<1>4. CASE EndNotify
  <2>1. /\ UNCHANGED <<ses, dns, queue, running, active, connActive>>
        /\ phase' = "sweep" /\ ready' = ready /\ incoming' = incoming
        /\ todo' = Live /\ running = NoSlot
    BY <1>4 DEF EndNotify
  <2>2. todo' \in SUBSET Slots /\ \A x \in todo' : ses[x].loc = "live"
    BY <2>1 DEF Live
  <2> QED
    BY <1>1, <2>1, <2>2, LoopStep
<1>5. CASE EndSweep
  <2>1. /\ UNCHANGED <<ses, dns, queue, running, active, connActive>>
        /\ phase' = "select" /\ ready' = ready /\ incoming' = incoming
        /\ todo' = {} /\ running = NoSlot
    BY <1>1, <1>5 DEF EndSweep
  <2> QED
    BY <1>1, <2>1, LoopStep
<1>6. CASE AcceptRefused
  <2>1. /\ UNCHANGED <<ses, dns, queue, running, active, connActive>>
        /\ phase' = phase /\ ready' = ready /\ incoming' = FALSE
        /\ todo' = todo /\ running = NoSlot
    BY <1>6 DEF AcceptRefused, AcceptReady
  <2>2. incoming' \in BOOLEAN
    BY <2>1
  <2> QED
    BY <1>1, <2>1, <2>2, LoopStep
<1>7. ASSUME NEW s \in Slots, SweepPass(s)
      PROVE  SessionInv'
  <2>1. /\ UNCHANGED <<ses, dns, queue, running, active, connActive>>
        /\ phase' = phase /\ ready' = ready /\ incoming' = incoming
        /\ todo' = todo \ {s} /\ running = NoSlot
    BY <1>1, <1>7 DEF SweepPass
  <2> QED
    BY <1>1, <2>1, LoopStep
<1> QED
  BY <1>2, <1>3, <1>4, <1>5, <1>6, <1>7

-----------------------------------------------------------------------------
\* The invariant and what follows from it.

\* The invariant holds before the first accept.
LEMMA InitInv == Init => SessionInv
<1> SUFFICES ASSUME Init PROVE SessionInv
  OBVIOUS
<1>1. Blank \in SessionType
  BY BlankStep
<1>2. Blank.loc = "free" /\ Blank.cint = "unreg" /\ Blank.oint = "unreg"
  BY Zenon DEF Blank
<1>3. /\ ses = [s \in Slots |-> Blank] /\ dns = [s \in Slots |-> "none"] /\ queue = <<>>
      /\ phase = "select" /\ ready = {} /\ running = NoSlot /\ todo = {}
      /\ active = 0 /\ connActive = 0
  BY DEF Init
<1>4. incoming \in BOOLEAN
  BY DEF Init
<1>5. ses \in [Slots -> SessionType] /\ dns \in [Slots -> DnsStatus]
  BY <1>1, <1>3 DEF DnsStatus
<1>6. TypeOK
  BY <1>3, <1>4, <1>5 DEF TypeOK
<1>7. \A s \in Slots : ses[s].loc = "free" /\ Shape(ses[s], dns[s])
  BY <1>2, <1>3 DEF Shape
<1>8. QueueInv
  BY <1>3 DEF QueueInv
<1>9. LoopInv
  BY <1>3, <1>7 DEF LoopInv
<1> QED
  BY <1>6, <1>7, <1>8, <1>9 DEF SessionInv

\* Every step of either thread keeps the invariant.
LEMMA NextInv ==
  ASSUME SessionInv, [Next]_vars
  PROVE  SessionInv'
<1>1. CASE UNCHANGED vars
  BY <1>1 DEF vars, SessionInv, TypeOK, Shape, LiveShape, QueueInv, LoopInv
<1>2. CASE \/ Select \/ EndIteration \/ EndNotify \/ EndSweep \/ AcceptRefused
           \/ \E s \in Slots : SweepPass(s)
  BY <1>2, RoundInv
<1>3. ASSUME NEW s \in Slots, Handler(s)
      PROVE  SessionInv'
  BY <1>3, HelloReadInv, HelloWriteInv, AuthReadInv, AuthWriteInv, RequestReadInv,
     RequestWriteInv, ConnectingWriteClientInv, ConnectedInv, ConnectFailedInv,
     RelayInv, EndInv DEF Handler
<1>4. ASSUME NEW s \in Slots, HandleBlock(s)
      PROVE  SessionInv'
  BY <1>4, HandleBlockInv
<1>5. ASSUME NEW s \in Slots, Accept(s) \/ AcceptUnregistered(s)
      PROVE  SessionInv'
  BY <1>5, AcceptInv, AcceptUnregisteredInv
<1>6. ASSUME NEW s \in Slots, ConnectTimeout(s) \/ SessionTimeout(s)
      PROVE  SessionInv'
  BY <1>6, ConnectTimeoutInv, SessionTimeoutInv
<1>7. CASE DnsThread
  BY <1>7, DnsTakeInv, DnsAnswerInv, DnsNotifyInv DEF DnsThread
<1> QED
  BY <1>1, <1>2, <1>3, <1>4, <1>5, <1>6, <1>7 DEF Next, LoopThread

\* In every reachable state each session has the interests, the references and
\* the DNS job that belong to its state, the DNS queue holds each job once, and
\* the loop thread is inside a handler whenever a session is in DONE or ERROR.
THEOREM SessionInvariant == Spec => []SessionInv
  BY InitInv, NextInv, PTL DEF Spec

\* Every variable keeps its type, the addrinfo cursor included: it never runs
\* past the end of the list, however connects fail and time out.
THEOREM Types == Spec => []TypeOK
<1>1. SessionInv => TypeOK
  BY DEF SessionInv
<1> QED
  BY <1>1, SessionInvariant, PTL

\* socks5_destroy is called exactly as often as it has to be: `references' is
\* the number of selector items and DNS jobs that point to a live session, and
\* nobody points to a recycled one.
THEOREM References == Spec => []ReferencesExact
<1>1. SessionInv => ReferencesExact
  <2> SUFFICES ASSUME SessionInv, NEW s \in Slots
               PROVE  IF ses[s].loc = "live" THEN ses[s].refs = Holders(s)
                                             ELSE Holders(s) = 0
    BY DEF ReferencesExact
  <2>1. Shape(ses[s], dns[s])
    BY DEF SessionInv
  <2> QED
    BY <2>1 DEF Shape, LiveShape, Holders, One
<1> QED
  BY <1>1, SessionInvariant, PTL

\* No interleaving of stale readiness bits, DNS notifications and timeouts calls
\* a handler that the state's row of client_statbl does not have.
THEOREM NoAbort == Spec => []NeverAborts
<1>1. SessionInv => NeverAborts
  <2> SUFFICES ASSUME SessionInv PROVE NeverAborts
    OBVIOUS
  <2>1. /\ ses \in [Slots -> SessionType] /\ ready \in SUBSET Events
        /\ running \in Slots \cup {NoSlot} /\ todo \in SUBSET Slots
    BY DEF SessionInv, TypeOK
  <2>2. /\ \A s \in Slots : Shape(ses[s], dns[s])
        /\ LoopInv
    BY DEF SessionInv
  <2>3. ASSUME running = NoSlot, NEW e \in ready, Wanted(e)
        PROVE  ses[e[1]].st \in IF e[3] = "R" THEN HasRead ELSE HasWrite
    <3>1. PICK s \in Slots, side \in {"client", "origin"}, dir \in {"R", "W"} :
            e = <<s, side, dir>>
      BY <2>1, <2>3 DEF Events
    <3>2. InterestOf(s, side) \in {dir, "copy"} /\ e[1] = s /\ e[3] = dir
      BY <2>3, <3>1 DEF Wanted
    <3>3. ses[s].cint \in {dir, "copy"} \/ ses[s].oint \in {dir, "copy"}
      BY <3>2 DEF InterestOf
    <3>4. ses[s].loc = "live" /\ LiveShape(ses[s], dns[s])
      BY <2>2, <3>3 DEF Shape
    <3>5. ses[s].st \notin EndStates
      BY <2>2, <2>3, <3>4, SlotsAssumption DEF LoopInv
    <3>6. ses[s].st \in States
      BY <2>1, SessionElim, Zenon DEF Fields
    <3>7. ses[s].st \in IF dir = "R" THEN HasRead ELSE HasWrite
      BY <3>3, <3>4, <3>5, <3>6
         DEF LiveShape, HasRead, HasWrite, States, ReadStates, WriteStates, EndStates
    <3> QED
      BY <3>2, <3>7
  <2>4. ASSUME NEW s \in Slots, dns[s] # "none"
        PROVE  ses[s].cint # "unreg" /\ ses[s].st \in HasBlock
    BY <2>2, <2>4 DEF Shape, LiveShape, HasBlock
  <2>5. running # NoSlot => ses[running].cint # "unreg"
    BY <2>1, <2>2 DEF LoopInv, Shape, LiveShape
  <2>6. \A s \in todo : ses[s].cint # "unreg"
    BY <2>1, <2>2 DEF LoopInv, Shape, LiveShape
  <2> QED
    BY <2>3, <2>4, <2>5, <2>6 DEF NeverAborts
<1> QED
  BY <1>1, SessionInvariant, PTL

\* When the loop goes to sleep every live session has an fd in the fd sets or a
\* DNS job under way: none is forgotten.
THEOREM NoneForgotten == Spec => []WakeUp
<1>1. SessionInv => WakeUp
  <2> SUFFICES ASSUME SessionInv, phase = "select", NEW s \in Slots, ses[s].loc = "live"
               PROVE  \/ ses[s].cint \in {"R", "W", "copy"}
                      \/ ses[s].oint \in {"W", "copy"}
                      \/ dns[s] # "none"
    BY DEF WakeUp, Live
  <2>1. LiveShape(ses[s], dns[s]) /\ ses[s] \in SessionType
    BY DEF SessionInv, Shape, TypeOK
  <2>2. running = NoSlot
    BY DEF SessionInv, LoopInv
  <2>3. ses[s].st \notin EndStates
    BY <2>2, SlotsAssumption DEF SessionInv, LoopInv
  <2>4. ses[s].st \in States
    BY <2>1, SessionElim, Zenon DEF Fields
  <2> QED
    BY <2>1, <2>3, <2>4 DEF LiveShape, States, ReadStates, WriteStates, EndStates
<1> QED
  BY <1>1, SessionInvariant, PTL

-----------------------------------------------------------------------------
(***************************************************************************)
(* What the sessions leave behind: the access log, the origin and login    *)
(* counters, who was let through, and the number of active sessions.       *)
(* PastInv is inductive on top of SessionInv; the count of live sessions   *)
(* follows from how each action moves a struct in or out of Live.          *)
(*                                                                         *)
(* First which fields each operator on a session changes, then that the    *)
(* operators lead from past to past, then the actions.                     *)
(***************************************************************************)

\* The history fields are the same in n and r; the reason, the reply, the origin's
\* interest and the state may differ.
SameHistory(n, r) ==
    /\ n.loc = r.loc /\ n.dest = r.dest /\ n.open = r.open /\ n.lgd = r.lgd
    /\ n.lines = r.lines /\ n.must = r.must /\ n.user = r.user
    /\ n.ok = r.ok /\ n.fail = r.fail /\ n.badpw = r.badpw

SameReply(n, r) == n.out = r.out /\ n.oint = r.oint

LivePast(r) == LogPast(r) /\ OriginPast(r) /\ AuthPast(r)

\* The part of LivePast that holds in the middle of a handler, in any state.
Kept(r) ==
    /\ ~r.lgd /\ r.lines = IF r.open THEN <<"OPEN">> ELSE <<>>
    /\ r.open => r.dest
    /\ r.ok + r.fail <= 1
    /\ r.out = "success" => r.ok = 1 /\ r.oint # "unreg"
    /\ r.must /\ r.dest => r.user
    /\ r.badpw > 0 => ~r.dest /\ r.badpw = 1

\* The client was let through.
Welcome(r) == ~r.open /\ r.badpw = 0 /\ (r.must => r.user)

\* And nothing is counted yet.
Fresh(r) == Welcome(r) /\ r.ok = 0 /\ r.fail = 0

\* The history fields of a session have their types.
LEMMA HistoryTypes ==
  ASSUME NEW r \in SessionType
  PROVE  /\ r.ok \in Nat /\ r.fail \in Nat /\ r.badpw \in Nat
         /\ r.dest \in BOOLEAN /\ r.open \in BOOLEAN /\ r.lgd \in BOOLEAN
         /\ r.must \in BOOLEAN /\ r.user \in BOOLEAN /\ r.why \in BOOLEAN
  BY SessionElim, Zenon DEF Fields

-----------------------------------------------------------------------------
\* The fields that the operators change.

\* jump
LEMMA JumpFields ==
  ASSUME NEW r \in SessionType, NEW st
  PROVE  LET n == Jump(r, st) IN
         SameHistory(n, r) /\ SameReply(n, r) /\ n.why = r.why /\ n.st = st
<1>1. IsRec(r)
  BY SessionElim
<1> QED
  BY <1>1, Zenon DEF IsRec, Names, SameHistory, SameReply, Jump

\* Bytes left in the read buffer
LEMMA BufferedFields ==
  ASSUME NEW r \in SessionType, NEW b
  PROVE  LET n == Buffered(r, b) IN
         SameHistory(n, r) /\ SameReply(n, r) /\ n.why = r.why /\ n.st = r.st
<1>1. IsRec(r)
  BY SessionElim
<1> QED
  BY <1>1, Zenon DEF IsRec, Names, SameHistory, SameReply, Buffered

\* socks5_set_failure
LEMMA BlameFields ==
  ASSUME NEW r \in SessionType
  PROVE  LET n == Blame(r) IN
         SameHistory(n, r) /\ SameReply(n, r) /\ n.why = TRUE /\ n.st = r.st
<1>1. IsRec(r)
  BY SessionElim
<1> QED
  BY <1>1, Zenon DEF IsRec, Names, SameHistory, SameReply, Blame

\* A failure reply
LEMMA RefuseFields ==
  ASSUME NEW r \in SessionType
  PROVE  LET n == Refuse(r) IN
         /\ SameHistory(n, r) /\ n.oint = r.oint /\ n.out = "reject"
         /\ n.why = TRUE /\ n.st = "REQUEST_WRITE"
<1>1. IsRec(r)
  BY SessionElim
<1> QED
  BY <1>1, Zenon DEF IsRec, Names, SameHistory, Refuse, Blame

\* hello_process
LEMMA HelloFields ==
  ASSUME NEW r \in SessionType, NEW method, NEW more
  PROVE  LET n == HelloDone(r, method, more) IN
         /\ n.loc = r.loc /\ n.dest = r.dest /\ n.open = r.open /\ n.lgd = r.lgd
         /\ n.lines = r.lines /\ n.user = r.user
         /\ n.ok = r.ok /\ n.fail = r.fail /\ n.badpw = r.badpw
         /\ n.must = (method = "auth") /\ n.out = method /\ n.st = "HELLO_WRITE"
<1>1. IsRec(r)
  BY SessionElim
<1> QED
  BY <1>1, Zenon DEF IsRec, Names, HelloDone

\* A reply was sent
LEMMA ReplySentFields ==
  ASSUME NEW r \in SessionType, NEW st
  PROVE  LET n == ReplySent(r, st) IN
         /\ SameHistory(n, r) /\ n.oint = r.oint /\ n.out = "none"
         /\ n.why = r.why /\ n.st = st
<1>1. IsRec(r)
  BY SessionElim
<1> QED
  BY <1>1, Zenon DEF IsRec, Names, SameHistory, ReplySent

\* auth_process
LEMMA AuthFields ==
  ASSUME NEW r \in SessionType, NEW valid, NEW more
  PROVE  LET n == AuthDone(r, valid, more) IN
         /\ n.loc = r.loc /\ n.dest = r.dest /\ n.open = r.open /\ n.lgd = r.lgd
         /\ n.lines = r.lines /\ n.must = r.must
         /\ n.ok = r.ok /\ n.fail = r.fail
         /\ n.user = valid /\ n.st = "AUTH_WRITE"
         /\ n.out = IF valid THEN "request" ELSE "reject"
         /\ n.badpw = IF valid THEN r.badpw ELSE r.badpw + 1
<1>1. IsRec(r)
  BY SessionElim
<1> QED
  BY <1>1, Zenon DEF IsRec, Names, AuthDone

\* request_process has the destination
LEMMA TargetedFields ==
  ASSUME NEW r \in SessionType, NEW more
  PROVE  LET n == Targeted(r, more) IN
         /\ n.loc = r.loc /\ n.dest = TRUE /\ n.open = r.open /\ n.lgd = r.lgd
         /\ n.lines = r.lines /\ n.must = r.must /\ n.user = r.user
         /\ n.ok = r.ok /\ n.fail = r.fail /\ n.badpw = r.badpw
         /\ SameReply(n, r) /\ n.st = r.st
<1>1. IsRec(r)
  BY SessionElim
<1> QED
  BY <1>1, Zenon DEF IsRec, Names, SameReply, Targeted

\* dns_worker_submit
LEMMA ResolvingFields ==
  ASSUME NEW r \in SessionType
  PROVE  LET n == Resolving(r) IN
         SameHistory(n, r) /\ SameReply(n, r) /\ n.st = "REQUEST_RESOLV"
<1>1. IsRec(r)
  BY SessionElim
<1> QED
  BY <1>1, Zenon DEF IsRec, Names, SameHistory, SameReply, Resolving

\* metrics_origin_fail and metrics_origin_ok
LEMMA CountFields ==
  ASSUME NEW r \in SessionType
  PROVE  LET f == CountFail(r) k == CountOk(r) IN
         /\ f.loc = r.loc /\ f.dest = r.dest /\ f.open = r.open /\ f.lgd = r.lgd
         /\ f.lines = r.lines /\ f.must = r.must /\ f.user = r.user
         /\ f.ok = r.ok /\ f.fail = r.fail + 1 /\ f.badpw = r.badpw /\ SameReply(f, r)
         /\ k.loc = r.loc /\ k.dest = r.dest /\ k.open = r.open /\ k.lgd = r.lgd
         /\ k.lines = r.lines /\ k.must = r.must /\ k.user = r.user
         /\ k.ok = r.ok + 1 /\ k.fail = r.fail /\ k.badpw = r.badpw /\ SameReply(k, r)
<1>1. IsRec(r)
  BY SessionElim
<1> QED
  BY <1>1, Zenon DEF IsRec, Names, SameReply, CountFail, CountOk, Blame

\* connecting_write with SO_ERROR = 0
LEMMA EstablishedFields ==
  ASSUME NEW r \in SessionType
  PROVE  LET n == Established(r) IN
         /\ SameHistory(n, r) /\ n.out = "success" /\ n.oint = "noop"
         /\ n.st = "REQUEST_WRITE"
<1>1. IsRec(r)
  BY SessionElim
<1> QED
  BY <1>1, Zenon DEF IsRec, Names, SameHistory, Established

\* Giving back the DNS thread's reference, taking up the addresses, the answer
\* itself, and waking the client
LEMMA WaitingFields ==
  ASSUME NEW r \in SessionType, NEW k
  PROVE  /\ SameHistory(GivenBack(r), r) /\ SameReply(GivenBack(r), r)
         /\ SameHistory(Connecting(r), r) /\ SameReply(Connecting(r), r)
         /\ Connecting(r).st = "CONNECTING"
         /\ SameHistory(Resolved(r, k), r) /\ SameReply(Resolved(r, k), r)
         /\ Resolved(r, k).st = r.st /\ Resolved(r, k).why = r.why
         /\ SameHistory(Woken(r), r) /\ SameReply(Woken(r), r)
         /\ Woken(r).st = r.st
<1>1. IsRec(r)
  BY SessionElim
<1>2. SameHistory(GivenBack(r), r) /\ SameReply(GivenBack(r), r)
  BY <1>1, Zenon DEF IsRec, Names, SameHistory, SameReply, GivenBack
<1>3. /\ SameHistory(Connecting(r), r) /\ SameReply(Connecting(r), r)
      /\ Connecting(r).st = "CONNECTING"
  BY <1>1, Zenon DEF IsRec, Names, SameHistory, SameReply, Connecting
<1>4. /\ SameHistory(Resolved(r, k), r) /\ SameReply(Resolved(r, k), r)
      /\ Resolved(r, k).st = r.st /\ Resolved(r, k).why = r.why
  BY <1>1, Zenon DEF IsRec, Names, SameHistory, SameReply, Resolved
<1>5. /\ SameHistory(Woken(r), r) /\ SameReply(Woken(r), r)
      /\ Woken(r).st = r.st
  BY <1>1, Zenon DEF IsRec, Names, SameHistory, SameReply, Woken
<1> QED
  BY <1>2, <1>3, <1>4, <1>5

\* connecting_try_one
LEMMA TryConnectFields ==
  ASSUME NEW r \in SessionType, NEW n \in TryConnect(r)
  PROVE  SameHistory(n, r) /\ n.out = r.out /\ n.st = r.st
<1>1. IsRec(r)
  BY SessionElim
<1>2. ASSUME NEW c, n = [r EXCEPT !.cur = c, !.refs = @ + 1, !.oint = "W"]
      PROVE  SameHistory(n, r) /\ n.out = r.out /\ n.st = r.st
  BY <1>1, <1>2, Zenon DEF IsRec, Names, SameHistory
<1>3. ASSUME NEW c, n = [Blame(r) EXCEPT !.cur = c, !.cint = "W"]
      PROVE  SameHistory(n, r) /\ n.out = r.out /\ n.st = r.st
  BY <1>1, <1>3, Zenon DEF IsRec, Names, SameHistory, Blame
<1> QED
  BY <1>2, <1>3, Zenon DEF TryConnect

\* The close handler, when another reference is left
LEMMA UnregisterOriginFields ==
  ASSUME NEW r \in SessionType, r.refs = 2
  PROVE  LET n == UnregisterOrigin(r) IN
         SameHistory(n, r) /\ n.out = r.out /\ n.st = r.st
<1>1. IsRec(r)
  BY SessionElim
<1>2. r.refs # 1
  OBVIOUS
<1>3. Release(r) = [r EXCEPT !.refs = @ - 1]
  BY <1>2, Zenon DEF Release
<1> QED
  BY <1>1, <1>3, ZenonT(60) DEF IsRec, Names, SameHistory, UnregisterOrigin

\* copy_init, for a session with a destination whose tunnel is not open yet
LEMMA CopyInitFields ==
  ASSUME NEW r \in SessionType, r.dest = TRUE, r.open = FALSE
  PROVE  LET n == CopyInit(r) IN
         /\ n.loc = r.loc /\ n.dest = TRUE /\ n.open = TRUE /\ n.lgd = r.lgd
         /\ n.lines = Append(r.lines, "OPEN") /\ n.must = r.must /\ n.user = r.user
         /\ n.ok = r.ok /\ n.fail = r.fail /\ n.badpw = r.badpw
         /\ n.st = "COPY" /\ n.oint = "copy" /\ n.out = "none"
<1>1. IsRec(r)
  BY SessionElim
<1>2. LogOpen(r) = [r EXCEPT !.open = TRUE, !.lines = Append(@, "OPEN")]
  BY Zenon DEF LogOpen
<1> QED
  BY <1>1, <1>2, Zenon DEF IsRec, Names, CopyInit

\* socks5_destroy and the removal of an fd leave the log alone.
LEMMA CloseFields ==
  ASSUME NEW r \in SessionType, NEW side \in {"cint", "oint"}
  PROVE  LET n == [Release(r) EXCEPT ![side] = "unreg"] IN
         n.dest = r.dest /\ n.lines = r.lines
<1> DEFINE p == IF Cardinality(Pool) < MaxPool THEN "pool" ELSE "free"
<1>1. IsRec(r)
  BY SessionElim
<1>2. \/ Release(r) = [r EXCEPT !.loc = p, !.res = 0]
      \/ Release(r) = [r EXCEPT !.refs = @ - 1]
  BY Zenon DEF Release
<1> HIDE DEF p
<1>3. CASE Release(r) = [r EXCEPT !.loc = p, !.res = 0]
  BY <1>1, <1>3, Zenon DEF IsRec, Names
<1>4. CASE Release(r) = [r EXCEPT !.refs = @ - 1]
  BY <1>1, <1>4, Zenon DEF IsRec, Names
<1> QED
  BY <1>2, <1>3, <1>4, Zenon

\* The closing line of the log.
LEMMA LogEventFields ==
  ASSUME NEW r \in SessionType, r.lgd = FALSE
  PROVE  /\ LogEvent(r).dest = r.dest
         /\ LogEvent(r).lines = IF r.dest THEN Append(r.lines, LastLine(r)) ELSE r.lines
<1>1. IsRec(r)
  BY SessionElim
<1>2. r.dest \in BOOLEAN
  BY HistoryTypes
<1>3. CASE r.dest = FALSE
  BY <1>3, Zenon DEF LogEvent
<1>4. CASE r.dest = TRUE
  <2>1. LogEvent(r) = [r EXCEPT !.lgd = TRUE, !.lines = Append(r.lines, LastLine(r))]
    BY <1>4, Zenon DEF LogEvent
  <2> QED
    BY <1>1, <1>4, <2>1, Zenon DEF IsRec, Names
<1> QED
  BY <1>2, <1>3, <1>4, Zenon

\* socksv5_done keeps the log of the session, with its closing line.
LEMMA SocksDoneFields ==
  ASSUME NEW r \in SessionType, r.loc = "live", r.lgd = FALSE,
         IF r.oint = "unreg" THEN r.refs = 1 ELSE r.refs = 2
  PROVE  /\ SocksDone(r).dest = r.dest
         /\ SocksDone(r).lines = IF r.dest THEN Append(r.lines, LastLine(r)) ELSE r.lines
<1> DEFINE l == LogEvent(r)
           a == UnregisterClient(l)
           b == IF r.oint # "unreg" THEN UnregisterOrigin(a) ELSE a
<1>1. l \in SessionType /\ l.refs = r.refs /\ l.oint = r.oint
  BY LogEventStep, Zenon DEF SameShape
<1>2. l.refs \in {1, 2}
  BY <1>1, Zenon
<1>3. SocksDone(r) = Scrub(b)
  BY Zenon DEF SocksDone
<1>4. /\ l.dest = r.dest
      /\ l.lines = IF r.dest THEN Append(r.lines, LastLine(r)) ELSE r.lines
  BY LogEventFields
<1> HIDE DEF l
<1>5. Release(l) \in SessionType /\ Release(l).oint = r.oint
  BY <1>1, <1>2, ReleaseStep, Zenon
<1>6. a = [Release(l) EXCEPT !.cint = "unreg"]
  BY Zenon DEF UnregisterClient
<1>7. a \in SessionType /\ a.dest = l.dest /\ a.lines = l.lines
  <2>1. a \in SessionType
    BY <1>5, <1>6, CloseStep, Zenon
  <2>2. a.dest = l.dest /\ a.lines = l.lines
    BY <1>1, <1>6, CloseFields, Zenon
  <2> QED
    BY <2>1, <2>2
<1> HIDE DEF a
<1>8. b.dest = l.dest /\ b.lines = l.lines
  <2>1. UnregisterOrigin(a) = [Release(a) EXCEPT !.oint = "unreg"]
    BY Zenon DEF UnregisterOrigin
  <2>2. UnregisterOrigin(a).dest = a.dest /\ UnregisterOrigin(a).lines = a.lines
    BY <1>7, <2>1, CloseFields, Zenon
  <2> QED
    BY <1>7, <2>2, Zenon
<1> HIDE DEF b
<1>9. Scrub(b).dest = b.dest /\ Scrub(b).lines = b.lines
  <2>1. IsRec(Blank)
    BY BlankStep, SessionElim
  <2>2. CASE b.loc = "live"
    BY <2>2, Zenon DEF Scrub
  <2>3. CASE b.loc # "live"
    <3>1. Scrub(b) = [Blank EXCEPT !.loc = b.loc, !.cint = b.cint, !.oint = b.oint,
                                   !.dest = b.dest, !.lines = b.lines]
      BY <2>3, Zenon DEF Scrub
    <3> QED
      BY <2>1, <3>1, Zenon DEF IsRec, Names
  <2> QED
    BY <2>2, <2>3
<1> QED
  BY <1>3, <1>4, <1>8, <1>9, Zenon

-----------------------------------------------------------------------------
\* The operators lead from past to past.

\* Between handlers a session has kept its books.
LEMMA PastKept ==
  ASSUME NEW r \in SessionType, LivePast(r)
  PROVE  Kept(r)
  BY HistoryTypes DEF LivePast, LogPast, OriginPast, AuthPast, Kept

\* Kept only looks at the history, the reply and the origin's interest.
LEMMA SameKept ==
  ASSUME NEW r, NEW n, Kept(r), SameHistory(n, r), n.out = r.out,
         n.oint = r.oint \/ n.out # "success"
  PROVE  Kept(n)
  BY DEF Kept, SameHistory

\* A step that touches neither the history nor the state.
LEMMA SamePast ==
  ASSUME NEW r \in SessionType, NEW n, LivePast(r), SameHistory(n, r), n.out = r.out,
         n.st = r.st, n.why = r.why \/ n.why = TRUE, n.oint = r.oint \/ n.out # "success",
         n.st = "COPY" => n.oint = r.oint
  PROVE  LivePast(n)
<1>1. /\ n.dest = r.dest /\ n.open = r.open /\ n.lgd = r.lgd /\ n.lines = r.lines
      /\ n.must = r.must /\ n.user = r.user
      /\ n.ok = r.ok /\ n.fail = r.fail /\ n.badpw = r.badpw
  BY DEF SameHistory
<1>2. LogPast(n)
  BY <1>1, HistoryTypes DEF LivePast, LogPast
<1>3. OriginPast(n)
  BY <1>1 DEF LivePast, OriginPast
<1>4. AuthPast(n)
  BY <1>1 DEF LivePast, AuthPast
<1> QED
  BY <1>2, <1>3, <1>4 DEF LivePast

\* Going to ERROR asks nothing more of a session.
LEMMA ErroredPast ==
  ASSUME NEW r \in SessionType, Kept(r)
  PROVE  LivePast(Errored(r)) /\ Errored(r).loc = r.loc
<1> DEFINE n == Errored(r)
<1>1. SameHistory(n, r) /\ SameReply(n, r) /\ n.st = "ERROR"
  BY JumpFields, Zenon DEF Errored
<1> HIDE DEF n
<1>2. LogPast(n)
  BY <1>1 DEF Kept, LogPast, SameHistory, Asking, ReadStates, EndStates
<1>3. OriginPast(n)
  BY <1>1 DEF Kept, OriginPast, SameHistory, SameReply, Asking, ReadStates
<1>4. AuthPast(n)
  BY <1>1 DEF Kept, AuthPast, SameHistory, Admitted, EndStates
<1> QED
  BY <1>1, <1>2, <1>3, <1>4 DEF LivePast, SameHistory, n

\* A failure reply always comes with a reason.
LEMMA RefusePast ==
  ASSUME NEW r \in SessionType, Kept(r), Welcome(r)
  PROVE  LivePast(Refuse(r)) /\ Refuse(r).loc = r.loc
<1> DEFINE n == Refuse(r)
<1>1. /\ SameHistory(n, r) /\ n.out = "reject" /\ n.why = TRUE
      /\ n.st = "REQUEST_WRITE"
  BY RefuseFields, Zenon
<1> HIDE DEF n
<1>2. LogPast(n)
  BY <1>1 DEF Kept, Welcome, LogPast, SameHistory, Asking, ReadStates
<1>3. OriginPast(n)
  BY <1>1 DEF Kept, OriginPast, SameHistory, Asking, ReadStates
<1>4. AuthPast(n)
  BY <1>1 DEF Kept, Welcome, AuthPast, SameHistory
<1> QED
  BY <1>1, <1>2, <1>3, <1>4 DEF LivePast, SameHistory, n

\* Connecting, or waiting for the resolver: the destination is known, nothing is counted.
LEMMA WaitingPast ==
  ASSUME NEW n, Kept(n), Fresh(n), n.dest = TRUE, n.st \in {"REQUEST_RESOLV", "CONNECTING"}
  PROVE  LivePast(n)
<1>1. LogPast(n)
  BY DEF Kept, Fresh, Welcome, LogPast, Asking, ReadStates
<1>2. OriginPast(n)
  BY DEF Kept, Fresh, Welcome, OriginPast
<1>3. AuthPast(n)
  BY DEF Kept, Fresh, Welcome, AuthPast
<1> QED
  BY <1>1, <1>2, <1>3 DEF LivePast

\* The next address, or the client woken: nothing is counted yet.
LEMMA TryConnectPast ==
  ASSUME NEW r \in SessionType, Kept(r), Fresh(r), r.dest = TRUE, r.st = "CONNECTING",
         NEW n \in TryConnect(r)
  PROVE  LivePast(n) /\ n.loc = r.loc
<1>1. SameHistory(n, r) /\ n.out = r.out /\ n.st = "CONNECTING"
  BY TryConnectFields
<1>2. Kept(n) /\ Fresh(n) /\ n.dest = TRUE
  BY <1>1 DEF Kept, Fresh, Welcome, SameHistory
<1> QED
  BY <1>1, <1>2, WaitingPast DEF SameHistory

-----------------------------------------------------------------------------
\* The handlers.

\* The session of s goes on, its books in order.
GoesOn(s) ==
    \E n : ses' = [ses EXCEPT ![s] = n] /\ n.loc = "live" /\ LivePast(n)

\* The session whose handler runs is live, with its shape and its past.
LEMMA HandlerPast ==
  ASSUME SessionInv, PastInv, NEW s \in Slots,
         NEW side \in {"client", "origin"}, NEW dir \in {"R", "W"},
         Visit(s, side, dir) \/ Pump(s)
  PROVE  /\ ses[s] \in SessionType /\ ses[s].loc = "live"
         /\ LiveShape(ses[s], dns[s]) /\ LivePast(ses[s]) /\ Kept(ses[s])
<1>1. ses[s] \in SessionType /\ ses[s].loc = "live" /\ LiveShape(ses[s], dns[s])
  BY HandlerSession
<1>2. LivePast(ses[s])
  BY <1>1 DEF PastInv, Past, LivePast
<1> QED
  BY <1>1, <1>2, PastKept

\* A handler that returns a session in order.
LEMMA ReturnPast ==
  ASSUME NEW s, NEW n, Return(s, n), n.loc = "live", LivePast(n)
  PROVE  GoesOn(s)
  BY DEF Return, GoesOn

\* A message that is still incomplete leaves the past alone.
LEMMA ReadMorePast ==
  ASSUME NEW s, ses[s] \in SessionType, ses[s].loc = "live", LivePast(ses[s]), ReadMore(s)
  PROVE  GoesOn(s)
<1> DEFINE n == Buffered(ses[s], FALSE)
<1>1. SameHistory(n, ses[s]) /\ SameReply(n, ses[s]) /\ n.why = ses[s].why
      /\ n.st = ses[s].st
  BY BufferedFields, Zenon
<1>2. ses' = [ses EXCEPT ![s] = n]
  BY Zenon DEF ReadMore
<1> HIDE DEF n
<1>3. LivePast(n) /\ n.loc = "live"
  BY <1>1, SamePast DEF SameHistory, SameReply
<1> QED
  BY <1>2, <1>3 DEF GoesOn

\* So does a reply that is still incomplete.
LEMMA UnfinishedPast ==
  ASSUME SessionInv, NEW s \in Slots, ses[s].loc = "live", LivePast(ses[s]), Unfinished(s)
  PROVE  GoesOn(s)
<1>1. ses \in [Slots -> SessionType] /\ ses' = ses
  BY DEF SessionInv, TypeOK, Unfinished
<1>2. ses' = [ses EXCEPT ![s] = ses[s]]
  BY <1>1
<1> QED
  BY <1>2 DEF GoesOn

\* A handler that fails.
LEMMA ErrorReturnPast ==
  ASSUME NEW s, NEW r \in SessionType, r.loc = "live", Kept(r), Return(s, Errored(r))
  PROVE  GoesOn(s)
  BY ErroredPast, ReturnPast

\* A handler that marshals a failure reply.
LEMMA RefuseReturnPast ==
  ASSUME NEW s, NEW r \in SessionType, r.loc = "live", Kept(r), Welcome(r),
         Return(s, Refuse(r))
  PROVE  GoesOn(s)
  BY RefusePast, ReturnPast

\* hello_read: whether a login is demanded is remembered with the method.
LEMMA HelloReadPast ==
  ASSUME SessionInv, PastInv, NEW s \in Slots, HelloRead(s)
  PROVE  GoesOn(s)
<1> DEFINE r == ses[s]
<1>1. r \in SessionType /\ r.loc = "live" /\ LivePast(r) /\ Kept(r)
  BY HandlerPast DEF HelloRead
<1>2. r.st = "HELLO_READ"
  BY DEF HelloRead
<1>3. CASE ReadMore(s)
  BY <1>1, <1>3, ReadMorePast
<1>4. CASE Return(s, Errored(r))
  BY <1>1, <1>4, ErrorReturnPast
<1>5. ASSUME NEW method \in Methods, NEW more \in BOOLEAN,
             Return(s, HelloDone(r, method, more))
      PROVE  GoesOn(s)
  <2> DEFINE n == HelloDone(r, method, more)
  <2>1. /\ n.loc = r.loc /\ n.dest = r.dest /\ n.open = r.open /\ n.lgd = r.lgd
        /\ n.lines = r.lines /\ n.user = r.user
        /\ n.ok = r.ok /\ n.fail = r.fail /\ n.badpw = r.badpw
        /\ n.must = (method = "auth") /\ n.out = method /\ n.st = "HELLO_WRITE"
    BY <1>1, HelloFields
  <2> HIDE DEF n, r
  <2>2. r.badpw \in Nat
    BY <1>1, HistoryTypes
  <2>3. /\ r.dest = FALSE /\ r.ok = 0 /\ r.fail = 0 /\ r.badpw = 0
        /\ r.open = FALSE /\ r.lgd = FALSE /\ r.lines = <<>>
    BY <1>1, <1>2, <2>2, HistoryTypes
       DEF LivePast, LogPast, OriginPast, AuthPast, Asking, ReadStates, EndStates
  <2>4. LogPast(n)
    BY <2>1, <2>3 DEF LogPast
  <2>5. OriginPast(n)
    BY <2>1, <2>3 DEF OriginPast, Methods
  <2>6. AuthPast(n)
    BY <2>1, <2>3 DEF AuthPast, Admitted
  <2> QED
    BY <1>1, <1>5, <2>1, <2>4, <2>5, <2>6, ReturnPast DEF LivePast, n
<1> QED
  BY <1>3, <1>4, <1>5 DEF HelloRead

\* hello_write: only a client that is told to log in goes to AUTH_READ, and only
\* one that is not told to goes straight to REQUEST_READ.
LEMMA HelloWritePast ==
  ASSUME SessionInv, PastInv, NEW s \in Slots, HelloWrite(s)
  PROVE  GoesOn(s)
<1> DEFINE r == ses[s]
<1>1. r \in SessionType /\ r.loc = "live" /\ LivePast(r) /\ Kept(r)
  BY HandlerPast DEF HelloWrite
<1>2. r.st = "HELLO_WRITE"
  BY DEF HelloWrite
<1>3. CASE Unfinished(s)
  BY <1>1, <1>3, UnfinishedPast
<1>4. CASE Return(s, Errored(r))
  BY <1>1, <1>4, ErrorReturnPast
<1>5. /\ r.dest = FALSE /\ r.ok = 0 /\ r.fail = 0 /\ r.badpw = 0
      /\ r.open = FALSE /\ r.lgd = FALSE /\ r.lines = <<>>
      /\ r.must = (r.out = "auth") /\ r.out # "success"
  <2> HIDE DEF r
  <2> QED
    BY <1>1, <1>2, HistoryTypes
       DEF LivePast, LogPast, OriginPast, AuthPast, Asking, EndStates
<1>6. CASE r.out = "reject" /\ Return(s, Jump(r, "DONE"))
  <2> DEFINE n == Jump(r, "DONE")
  <2>1. SameHistory(n, r) /\ SameReply(n, r) /\ n.st = "DONE"
    BY <1>1, JumpFields, Zenon
  <2> HIDE DEF n, r
  <2>2. LogPast(n)
    BY <1>5, <2>1 DEF LogPast, SameHistory
  <2>3. OriginPast(n)
    BY <1>5, <2>1 DEF OriginPast, SameHistory, SameReply
  <2>4. AuthPast(n)
    BY <1>5, <2>1 DEF AuthPast, SameHistory, Admitted, EndStates
  <2> QED
    BY <1>1, <1>6, <2>1, <2>2, <2>3, <2>4, ReturnPast DEF LivePast, SameHistory, n
<1>7. CASE /\ r.out # "reject"
           /\ Return(s, ReplySent(r, IF r.out = "auth" THEN "AUTH_READ" ELSE "REQUEST_READ"))
  <2> DEFINE st == IF r.out = "auth" THEN "AUTH_READ" ELSE "REQUEST_READ"
             n  == ReplySent(r, st)
  <2>1. SameHistory(n, r) /\ n.out = "none" /\ n.st = st
    BY <1>1, ReplySentFields, ZenonT(60)
  <2>2. st = "AUTH_READ" \/ (st = "REQUEST_READ" /\ r.must = FALSE)
    BY <1>5
  <2> HIDE DEF n, r, st
  <2>3. LogPast(n)
    BY <1>5, <2>1, <2>2 DEF LogPast, SameHistory
  <2>4. OriginPast(n)
    BY <1>5, <2>1, <2>2 DEF OriginPast, SameHistory
  <2>5. AuthPast(n)
    BY <1>5, <2>1, <2>2 DEF AuthPast, SameHistory, Admitted, EndStates
  <2> QED
    BY <1>1, <1>7, <2>1, <2>3, <2>4, <2>5, ReturnPast DEF LivePast, SameHistory, n, st
<1> QED
  BY <1>3, <1>4, <1>6, <1>7 DEF HelloWrite

\* auth_read: a rejected login is counted once, an accepted one is remembered.
LEMMA AuthReadPast ==
  ASSUME SessionInv, PastInv, NEW s \in Slots, AuthRead(s)
  PROVE  GoesOn(s)
<1> DEFINE r == ses[s]
<1>1. r \in SessionType /\ r.loc = "live" /\ LivePast(r) /\ Kept(r)
  BY HandlerPast DEF AuthRead
<1>2. r.st = "AUTH_READ"
  BY DEF AuthRead
<1>3. CASE ReadMore(s)
  BY <1>1, <1>3, ReadMorePast
<1>4. CASE Return(s, Errored(r))
  BY <1>1, <1>4, ErrorReturnPast
<1>5. ASSUME NEW valid \in BOOLEAN, NEW more \in BOOLEAN,
             Return(s, AuthDone(r, valid, more))
      PROVE  GoesOn(s)
  <2> DEFINE n == AuthDone(r, valid, more)
  <2>1. /\ n.loc = r.loc /\ n.dest = r.dest /\ n.open = r.open /\ n.lgd = r.lgd
        /\ n.lines = r.lines /\ n.must = r.must
        /\ n.ok = r.ok /\ n.fail = r.fail
        /\ n.user = valid /\ n.st = "AUTH_WRITE"
        /\ n.out = IF valid THEN "request" ELSE "reject"
        /\ n.badpw = IF valid THEN r.badpw ELSE r.badpw + 1
    BY <1>1, AuthFields
  <2> HIDE DEF n, r
  <2>2. /\ r.dest = FALSE /\ r.ok = 0 /\ r.fail = 0 /\ r.badpw = 0
        /\ r.open = FALSE /\ r.lgd = FALSE /\ r.lines = <<>>
    BY <1>1, <1>2, HistoryTypes
       DEF LivePast, LogPast, OriginPast, AuthPast, Asking, ReadStates, EndStates
  <2>3. LogPast(n)
    BY <2>1, <2>2 DEF LogPast
  <2>4. OriginPast(n)
    BY <2>1, <2>2 DEF OriginPast
  <2>5. AuthPast(n)
    BY <2>1, <2>2 DEF AuthPast, Admitted
  <2> QED
    BY <1>1, <1>5, <2>1, <2>3, <2>4, <2>5, ReturnPast DEF LivePast, n
<1> QED
  BY <1>3, <1>4, <1>5 DEF AuthRead

\* auth_write: only an accepted client goes to REQUEST_READ.
LEMMA AuthWritePast ==
  ASSUME SessionInv, PastInv, NEW s \in Slots, AuthWrite(s)
  PROVE  GoesOn(s)
<1> DEFINE r == ses[s]
<1>1. r \in SessionType /\ r.loc = "live" /\ LivePast(r) /\ Kept(r)
  BY HandlerPast DEF AuthWrite
<1>2. r.st = "AUTH_WRITE"
  BY DEF AuthWrite
<1>3. CASE Unfinished(s)
  BY <1>1, <1>3, UnfinishedPast
<1>4. CASE Return(s, Errored(r))
  BY <1>1, <1>4, ErrorReturnPast
<1>5. CASE Return(s, ReplySent(r, AfterAuth(r)))
  <2> DEFINE n == ReplySent(r, AfterAuth(r))
  <2>1. SameHistory(n, r) /\ n.out = "none" /\ n.st = AfterAuth(r)
    BY <1>1, ReplySentFields, Zenon
  <2> HIDE DEF n, r
  <2>2. /\ r.dest = FALSE /\ r.ok = 0 /\ r.fail = 0
        /\ r.open = FALSE /\ r.lgd = FALSE /\ r.lines = <<>>
        /\ r.out = "request" => r.user = TRUE /\ r.badpw = 0
        /\ r.badpw > 0 => r.badpw = 1
    BY <1>1, <1>2, HistoryTypes DEF LivePast, LogPast, OriginPast, AuthPast, Asking
  <2>3. \/ n.st = "REQUEST_READ" /\ r.user = TRUE /\ r.badpw = 0
        \/ n.st = "DONE"
    BY <2>1, <2>2 DEF AfterAuth
  <2>4. LogPast(n)
    BY <2>1, <2>2, <2>3 DEF LogPast, SameHistory
  <2>5. OriginPast(n)
    BY <2>1, <2>2, <2>3 DEF OriginPast, SameHistory
  <2>6. AuthPast(n)
    BY <2>1, <2>2, <2>3 DEF AuthPast, SameHistory, Admitted, EndStates
  <2> QED
    BY <1>1, <1>5, <2>1, <2>4, <2>5, <2>6, ReturnPast DEF LivePast, SameHistory, n
<1> QED
  BY <1>3, <1>4, <1>5 DEF AuthWrite

\* request_read: the destination is stored by a session that was let through.
LEMMA RequestReadPast ==
  ASSUME SessionInv, PastInv, NEW s \in Slots, RequestRead(s)
  PROVE  GoesOn(s)
<1> DEFINE r == ses[s]
<1>1. r \in SessionType /\ r.loc = "live" /\ LivePast(r) /\ Kept(r)
  BY HandlerPast DEF RequestRead
<1>2. r.st = "REQUEST_READ"
  BY DEF RequestRead
<1>3. CASE ReadMore(s)
  BY <1>1, <1>3, ReadMorePast
<1>4. CASE Return(s, Errored(r))
  BY <1>1, <1>4, ErrorReturnPast
<1>5. Fresh(r)
  <2> HIDE DEF r
  <2> QED
    BY <1>1, <1>2, HistoryTypes DEF LivePast, LogPast, OriginPast, AuthPast, Fresh, Welcome, Asking,
       ReadStates, Admitted, States, EndStates
<1>6. ASSUME NEW more \in BOOLEAN
      PROVE  LET t == Targeted(r, more) IN
             t \in SessionType /\ t.loc = "live" /\ t.dest = TRUE /\ Kept(t) /\ Fresh(t)
  <2> DEFINE t == Targeted(r, more)
  <2>1. t \in SessionType /\ t.loc = r.loc
    BY <1>1, TargetedStep
  <2>2. /\ t.dest = TRUE /\ t.open = r.open /\ t.lgd = r.lgd
        /\ t.lines = r.lines /\ t.must = r.must /\ t.user = r.user
        /\ t.ok = r.ok /\ t.fail = r.fail /\ t.badpw = r.badpw /\ SameReply(t, r)
    BY <1>1, TargetedFields
  <2> HIDE DEF t, r
  <2>3. Kept(t) /\ Fresh(t)
    BY <1>1, <1>5, <2>2 DEF Kept, Fresh, Welcome, SameReply
  <2> QED
    BY <1>1, <2>1, <2>2, <2>3 DEF t
<1>7. ASSUME NEW more \in BOOLEAN, Return(s, Refuse(Buffered(r, more)))
      PROVE  GoesOn(s)
  <2> DEFINE b == Buffered(r, more)
  <2>1. b \in SessionType
    BY <1>1, BufferStep, Zenon
  <2>2. SameHistory(b, r) /\ SameReply(b, r)
    BY <1>1, BufferedFields, Zenon
  <2> HIDE DEF b, r
  <2>3. Kept(b) /\ b.loc = "live" /\ Welcome(b)
    BY <1>1, <1>5, <2>2, SameKept DEF Fresh, Welcome, SameHistory, SameReply
  <2> QED
    BY <1>7, <2>1, <2>3, RefuseReturnPast DEF b
<1>8. ASSUME NEW more \in BOOLEAN,
             NEW n \in TryConnect(Jump(Targeted(r, more), "CONNECTING")), Return(s, n)
      PROVE  GoesOn(s)
  <2> DEFINE t == Targeted(r, more)
             c == Jump(t, "CONNECTING")
  <2>1. t \in SessionType /\ t.loc = "live" /\ t.dest = TRUE /\ Kept(t) /\ Fresh(t)
    BY <1>6
  <2> HIDE DEF t
  <2>2. "CONNECTING" \in States
    BY Zenon DEF States
  <2>3. c \in SessionType
    BY <2>1, <2>2, StateStep, Zenon
  <2>4. SameHistory(c, t) /\ SameReply(c, t) /\ c.st = "CONNECTING"
    BY <2>1, JumpFields, Zenon
  <2> HIDE DEF c
  <2>5. Kept(c) /\ Fresh(c) /\ c.dest = TRUE /\ c.loc = "live"
    BY <2>1, <2>4, SameKept DEF Fresh, Welcome, SameHistory, SameReply
  <2>6. n \in TryConnect(c)
    BY <1>8 DEF c, t
  <2> QED
    BY <1>8, <2>3, <2>4, <2>5, <2>6, TryConnectPast, ReturnPast
<1>9. ASSUME NEW more \in BOOLEAN, Return(s, Refuse(Targeted(r, more)))
      PROVE  GoesOn(s)
  BY <1>6, <1>9, RefuseReturnPast DEF Fresh
<1>10. ASSUME NEW more \in BOOLEAN, Submit(s, Targeted(r, more))
       PROVE  GoesOn(s)
  <2> DEFINE t == Targeted(r, more)
             n == Resolving(t)
  <2>1. t \in SessionType /\ t.loc = "live" /\ t.dest = TRUE /\ Kept(t) /\ Fresh(t)
    BY <1>6
  <2>2. Return(s, n)
    BY <1>10, Zenon DEF Submit
  <2> HIDE DEF t
  <2>3. SameHistory(n, t) /\ SameReply(n, t) /\ n.st = "REQUEST_RESOLV"
    BY <2>1, ResolvingFields, Zenon
  <2> HIDE DEF n
  <2>4. Kept(n) /\ Fresh(n) /\ n.dest = TRUE /\ n.loc = "live"
    BY <2>1, <2>3, SameKept DEF Fresh, Welcome, SameHistory, SameReply
  <2> QED
    BY <2>2, <2>3, <2>4, WaitingPast, ReturnPast
<1> QED
  BY <1>3, <1>4, <1>7, <1>8, <1>9, <1>10, Zenon DEF RequestRead

\* request_write: OPEN is logged, once, when the success reply is out; a refused
\* session is over and has its reason.
LEMMA RequestWritePast ==
  ASSUME SessionInv, PastInv, NEW s \in Slots, RequestWrite(s)
  PROVE  GoesOn(s)
<1> DEFINE r == ses[s]
<1>1. r \in SessionType /\ r.loc = "live" /\ LivePast(r) /\ Kept(r)
  BY HandlerPast DEF RequestWrite
<1>2. r.st = "REQUEST_WRITE"
  BY DEF RequestWrite
<1>3. CASE Unfinished(s)
  BY <1>1, <1>3, UnfinishedPast
<1>4. CASE Return(s, Errored(r))
  BY <1>1, <1>4, ErrorReturnPast
<1>5. CASE r.out # "success" /\ Return(s, Jump(r, "DONE"))
  <2> DEFINE n == Jump(r, "DONE")
  <2>1. SameHistory(n, r) /\ SameReply(n, r) /\ n.why = r.why /\ n.st = "DONE"
    BY <1>1, JumpFields, Zenon
  <2> HIDE DEF n, r
  <2>2. r.why = TRUE
    BY <1>1, <1>2, <1>5, HistoryTypes DEF LivePast, LogPast
  <2>3. LogPast(n)
    BY <1>1, <2>1, <2>2 DEF Kept, LogPast, SameHistory, Asking, ReadStates, EndStates
  <2>4. OriginPast(n)
    BY <1>1, <1>5, <2>1 DEF Kept, OriginPast, SameHistory, SameReply, Asking, ReadStates
  <2>5. AuthPast(n)
    BY <1>1, <2>1 DEF Kept, AuthPast, SameHistory, Admitted, EndStates
  <2> QED
    BY <1>1, <1>5, <2>1, <2>3, <2>4, <2>5, ReturnPast DEF LivePast, SameHistory, n
<1>6. CASE r.out = "success" /\ r.open = FALSE /\ Return(s, CopyInit(r))
  <2> DEFINE n == CopyInit(r)
  <2>1. r.dest = TRUE /\ r.ok = 1
    <3> HIDE DEF r
    <3> QED
      BY <1>1, <1>2, <1>6, HistoryTypes DEF LivePast, LogPast, OriginPast
  <2>2. /\ n.loc = r.loc /\ n.dest = TRUE /\ n.open = TRUE /\ n.lgd = r.lgd
        /\ n.lines = Append(r.lines, "OPEN") /\ n.must = r.must /\ n.user = r.user
        /\ n.ok = r.ok /\ n.fail = r.fail /\ n.badpw = r.badpw
        /\ n.st = "COPY" /\ n.oint = "copy" /\ n.out = "none"
    BY <1>1, <1>6, <2>1, CopyInitFields
  <2> HIDE DEF n, r
  <2>3. n.lines = <<"OPEN">> /\ r.badpw \in Nat
    <3>1. r.lines = <<>>
      BY <1>1, <1>6, Zenon DEF Kept
    <3>2. Append(r.lines, "OPEN") = <<"OPEN">>
      BY <3>1
    <3> QED
      BY <1>1, <2>2, <3>2, HistoryTypes, Zenon
  <2>4. LogPast(n)
    BY <1>1, <2>2, <2>3 DEF Kept, LogPast, Asking, ReadStates
  <2>5. OriginPast(n)
    BY <1>1, <2>1, <2>2 DEF Kept, OriginPast, Asking, ReadStates
  <2>6. AuthPast(n)
    BY <1>1, <2>1, <2>2, <2>3 DEF Kept, AuthPast
  <2> QED
    BY <1>1, <1>6, <2>2, <2>4, <2>5, <2>6, ReturnPast DEF LivePast, n
<1>7. r.open = FALSE
  <2> HIDE DEF r
  <2> QED
    BY <1>1, <1>2, HistoryTypes DEF LivePast, LogPast, EndStates
<1> QED
  BY <1>3, <1>4, <1>5, <1>6, <1>7 DEF RequestWrite

\* The origin is counted by the handler that leaves CONNECTING, and nowhere else.
LEMMA CountPast ==
  ASSUME NEW r \in SessionType, Kept(r), Fresh(r)
  PROVE  /\ LET f == CountFail(r) IN
            f \in SessionType /\ Kept(f) /\ Welcome(f) /\ f.loc = r.loc
         /\ LET k == CountOk(r) IN
            /\ k \in SessionType /\ k.loc = r.loc /\ k.dest = r.dest
            /\ Kept(k) /\ Welcome(k) /\ k.ok = 1 /\ k.fail = 0
<1> DEFINE f == CountFail(r)
           k == CountOk(r)
<1>1. f \in SessionType /\ k \in SessionType
  BY CountFailStep, CountOkStep, Zenon
<1>2. /\ f.loc = r.loc /\ f.dest = r.dest /\ f.open = r.open /\ f.lgd = r.lgd
      /\ f.lines = r.lines /\ f.must = r.must /\ f.user = r.user
      /\ f.ok = r.ok /\ f.fail = r.fail + 1 /\ f.badpw = r.badpw /\ SameReply(f, r)
      /\ k.loc = r.loc /\ k.dest = r.dest /\ k.open = r.open /\ k.lgd = r.lgd
      /\ k.lines = r.lines /\ k.must = r.must /\ k.user = r.user
      /\ k.ok = r.ok + 1 /\ k.fail = r.fail /\ k.badpw = r.badpw /\ SameReply(k, r)
  BY CountFields, Zenon
<1> HIDE DEF f, k
<1>3. Kept(f) /\ Welcome(f)
  BY <1>2 DEF Kept, Fresh, Welcome, SameReply
<1>4. Kept(k) /\ Welcome(k) /\ k.ok = 1 /\ k.fail = 0
  BY <1>2 DEF Kept, Fresh, Welcome, SameReply
<1> QED
  BY <1>1, <1>2, <1>3, <1>4 DEF f, k

\* A session in CONNECTING has a destination and nothing counted.
LEMMA ConnectingFresh ==
  ASSUME NEW r \in SessionType, LivePast(r), r.st \in {"REQUEST_RESOLV", "CONNECTING"}
  PROVE  Kept(r) /\ Fresh(r) /\ r.dest = TRUE /\ r.out # "success"
<1>1. r.badpw \in Nat /\ r.dest \in BOOLEAN
  BY HistoryTypes
<1>2. Kept(r)
  BY PastKept
<1> QED
  BY <1>1, <1>2 DEF LivePast, LogPast, OriginPast, AuthPast, Fresh, Welcome, Admitted, States,
     ReadStates, WriteStates, EndStates

\* connecting_write on client_fd: the failure is counted once.
LEMMA ConnectingWriteClientPast ==
  ASSUME SessionInv, PastInv, NEW s \in Slots, ConnectingWriteClient(s)
  PROVE  GoesOn(s)
<1>1. ses[s] \in SessionType /\ ses[s].loc = "live" /\ LivePast(ses[s])
  BY HandlerPast DEF ConnectingWriteClient
<1>2. Kept(ses[s]) /\ Fresh(ses[s])
  BY <1>1, ConnectingFresh DEF ConnectingWriteClient
<1> DEFINE f == CountFail(ses[s])
<1>3. f \in SessionType /\ Kept(f) /\ f.loc = "live" /\ Welcome(f)
  BY <1>1, <1>2, CountPast
<1>4. Return(s, Refuse(f)) \/ Return(s, Errored(f))
  BY Zenon DEF ConnectingWriteClient
<1> HIDE DEF f
<1> QED
  BY <1>3, <1>4, RefuseReturnPast, ErrorReturnPast

\* connecting_write on origin_fd, connected: origin-ok before the reply.
LEMMA ConnectedPast ==
  ASSUME SessionInv, PastInv, NEW s \in Slots, Connected(s)
  PROVE  GoesOn(s)
<1>1. ses[s] \in SessionType /\ ses[s].loc = "live" /\ LivePast(ses[s])
  BY HandlerPast DEF Connected
<1>2. Kept(ses[s]) /\ Fresh(ses[s]) /\ ses[s].dest = TRUE
  BY <1>1, ConnectingFresh DEF Connected
<1> DEFINE k == CountOk(ses[s])
           n == Established(k)
<1>3. /\ k \in SessionType /\ Kept(k) /\ k.loc = "live" /\ k.dest = TRUE
      /\ Welcome(k) /\ k.ok = 1 /\ k.fail = 0
  BY <1>1, <1>2, CountPast
<1>4. Return(s, n) \/ Return(s, Errored(k))
  BY Zenon DEF Connected
<1> HIDE DEF k
<1>5. CASE Return(s, n)
  <2>1. /\ SameHistory(n, k) /\ n.out = "success" /\ n.oint = "noop"
        /\ n.st = "REQUEST_WRITE"
    BY <1>3, EstablishedFields, Zenon
  <2> HIDE DEF n
  <2>2. LogPast(n)
    BY <1>3, <2>1 DEF Kept, Welcome, LogPast, SameHistory, Asking, ReadStates
  <2>3. OriginPast(n)
    BY <1>3, <2>1 DEF OriginPast, SameHistory, Asking, ReadStates
  <2>4. AuthPast(n)
    BY <1>3, <2>1 DEF Welcome, AuthPast, SameHistory
  <2> QED
    BY <1>3, <1>5, <2>1, <2>2, <2>3, <2>4, ReturnPast DEF LivePast, SameHistory
<1>6. CASE Return(s, Errored(k))
  BY <1>3, <1>6, ErrorReturnPast
<1> QED
  BY <1>4, <1>5, <1>6

\* connecting_write on origin_fd, failed: only the last address is counted.
LEMMA ConnectFailedPast ==
  ASSUME SessionInv, PastInv, NEW s \in Slots, ConnectFailed(s)
  PROVE  GoesOn(s)
<1> DEFINE r == UnregisterOrigin(ses[s])
<1>1. ses[s] \in SessionType /\ ses[s].loc = "live" /\ LivePast(ses[s])
  BY HandlerPast DEF ConnectFailed
<1>2. Kept(ses[s]) /\ Fresh(ses[s]) /\ ses[s].dest = TRUE /\ ses[s].out # "success"
  BY <1>1, ConnectingFresh DEF ConnectFailed
<1>3. ses[s].refs = 2 /\ ses[s].st = "CONNECTING"
  BY OriginReady DEF ConnectFailed
<1>4. r \in SessionType
  BY <1>1, <1>3, UnregisterOriginStep, Zenon
<1>5. SameHistory(r, ses[s]) /\ r.out = ses[s].out /\ r.st = "CONNECTING"
  BY <1>1, <1>3, UnregisterOriginFields
<1>6. \E n \in ConnectError(r) : Return(s, n)
  BY Zenon DEF ConnectFailed
<1> HIDE DEF r
<1>7. Kept(r) /\ Fresh(r) /\ r.dest = TRUE /\ r.loc = "live"
  BY <1>1, <1>2, <1>5, SameKept DEF Fresh, Welcome, SameHistory
<1>8. ASSUME NEW n \in TryConnect(r), Return(s, n)
      PROVE  GoesOn(s)
  BY <1>4, <1>5, <1>7, <1>8, TryConnectPast, ReturnPast
<1>9. CASE Return(s, Refuse(CountFail(r))) \/ Return(s, Errored(CountFail(r)))
  <2> DEFINE f == CountFail(r)
  <2>1. f \in SessionType /\ Kept(f) /\ f.loc = "live" /\ Welcome(f)
    BY <1>4, <1>7, CountPast
  <2> QED
    BY <1>9, <2>1, RefuseReturnPast, ErrorReturnPast
<1> QED
  BY <1>6, <1>8, <1>9, Zenon DEF ConnectError

\* copy_read and copy_write: the tunnel stays open, or is over.
LEMMA RelayPast ==
  ASSUME SessionInv, PastInv, NEW s \in Slots, Relay(s)
  PROVE  GoesOn(s)
<1> DEFINE r == ses[s]
<1>1. r \in SessionType /\ r.loc = "live" /\ LivePast(r) /\ Kept(r)
  BY HandlerPast DEF Relay
<1>2. r.st = "COPY"
  BY DEF Relay
<1>3. PICK st \in {"COPY", "DONE", "ERROR"} : Return(s, Jump(r, st))
  BY DEF Relay
<1> DEFINE n == Jump(r, st)
<1>4. SameHistory(n, r) /\ SameReply(n, r) /\ n.st = st
  BY <1>1, JumpFields, Zenon
<1> HIDE DEF n, r
<1>5. LogPast(n)
  BY <1>1, <1>2, <1>4 DEF LivePast, LogPast, SameHistory, Asking, ReadStates, EndStates
<1>6. OriginPast(n)
  BY <1>1, <1>2, <1>4 DEF LivePast, OriginPast, SameHistory, SameReply, Asking, ReadStates
<1>7. AuthPast(n)
  BY <1>1, <1>2, <1>4 DEF LivePast, AuthPast, SameHistory, Admitted, EndStates
<1> QED
  BY <1>1, <1>3, <1>4, <1>5, <1>6, <1>7, ReturnPast DEF LivePast, SameHistory, n

-----------------------------------------------------------------------------
\* The end and the beginning of a session, the sweep and the DNS thread.

\* The session of s is over: its log is closed and it is counted down.
Ends(s) ==
    \E n : /\ ses' = [ses EXCEPT ![s] = n] /\ n.loc # "live" /\ LastLines(n)
           /\ active' = IF active > 0 THEN active - 1 ELSE active
           /\ connActive' = connActive - 1

\* The log of a tunnel that is over.
LEMMA OpenClose == Append(<<"OPEN">>, "CLOSE") = <<"OPEN", "CLOSE">>
<1> DEFINE Words == {"OPEN", "CLOSE"}
           a == Append(<<"OPEN">>, "CLOSE")
           b == <<"OPEN", "CLOSE">>
<1>1. a \in Seq(Words) /\ b \in Seq(Words)
  OBVIOUS
<1>2. Len(a) = 2 /\ Len(b) = 2
  OBVIOUS
<1>3. a[1] = "OPEN" /\ a[2] = "CLOSE" /\ b[1] = "OPEN" /\ b[2] = "CLOSE"
  OBVIOUS
<1> HIDE DEF a, b, Words
<1>4. Len(a) = Len(b) /\ \A i \in 1..Len(a) : i = 1 \/ i = 2
  BY <1>2
<1>5. \A i \in 1..Len(a) : a[i] = b[i]
  BY <1>3, <1>4
<1>6. a = b
  BY <1>1, <1>4, <1>5, SeqEqual, Zenon
<1> QED
  BY <1>6 DEF a, b

\* socksv5_done logs CLOSE for a tunnel that was open and FAIL, with its reason,
\* for a destination that was never reached.
LEMMA FinishPast ==
  ASSUME NEW s, NEW r \in SessionType, r.loc = "live", LiveShape(r, "none"), Kept(r),
         r.dest => r.open \/ r.why, Finish(s, r)
  PROVE  Ends(s)
<1> DEFINE n == SocksDone(r)
<1>1. IF r.oint = "unreg" THEN r.refs = 1 ELSE r.refs = 2
  BY DEF LiveShape, One
<1>2. r.dest \in BOOLEAN /\ r.open \in BOOLEAN /\ r.why \in BOOLEAN /\ r.lgd = FALSE
  BY HistoryTypes DEF Kept
<1>3. n.loc # "live"
  BY <1>1, SocksDoneStep
<1>4. /\ n.dest = r.dest
      /\ n.lines = IF r.dest THEN Append(r.lines, LastLine(r)) ELSE r.lines
  BY <1>1, <1>2, SocksDoneFields
<1>5. Finish(s, r) => /\ ses' = [ses EXCEPT ![s] = n]
                      /\ active' = IF active > 0 THEN active - 1 ELSE active
                      /\ connActive' = connActive - 1
  BY Zenon DEF Finish
<1> HIDE DEF n
<1>6. LastLines(n)
  <2>1. CASE r.dest = FALSE
    BY <1>2, <1>4, <2>1, Zenon DEF LastLines, Kept
  <2>2. CASE r.dest = TRUE /\ r.open = TRUE
    <3>1. r.lines = <<"OPEN">> /\ LastLine(r) = "CLOSE"
      BY <2>2, Zenon DEF LastLine, Kept
    <3>2. n.lines = Append(<<"OPEN">>, "CLOSE")
      BY <1>4, <2>2, <3>1, Zenon
    <3> QED
      BY <1>4, <2>2, <3>2, OpenClose, Zenon DEF LastLines
  <2>3. CASE r.dest = TRUE /\ r.open = FALSE
    <3>1. r.lines = <<>> /\ LastLine(r) = "FAIL"
      BY <2>3, Zenon DEF LastLine, Kept
    <3>2. n.lines = Append(<<>>, "FAIL")
      BY <1>4, <2>3, <3>1, Zenon
    <3>3. Append(<<>>, "FAIL") = <<"FAIL">>
      OBVIOUS
    <3> QED
      BY <1>4, <2>3, <3>2, <3>3, Zenon DEF LastLines
  <2> QED
    BY <1>2, <2>1, <2>2, <2>3, Zenon
<1> QED
  BY <1>3, <1>5, <1>6 DEF Ends

\* socksv5_done after a handler: DONE has its reason or its tunnel, ERROR is blamed.
LEMMA EndPast ==
  ASSUME SessionInv, PastInv, NEW s \in Slots, End(s)
  PROVE  ses[s].loc = "live" /\ Ends(s)
<1> DEFINE r == IF ses[s].st = "ERROR" THEN Blame(ses[s]) ELSE ses[s]
<1>1. running = s /\ ses[s].st \in EndStates /\ Finish(s, r)
  BY DEF End
<1>2. s # NoSlot
  BY SlotsAssumption
<1>3. ses[s].loc = "live"
  BY <1>1, <1>2 DEF SessionInv, LoopInv
<1>4. ses[s] \in SessionType /\ LiveShape(ses[s], dns[s])
  BY <1>3 DEF SessionInv, TypeOK, Shape
<1>5. dns[s] = "none"
  BY <1>1, <1>4 DEF LiveShape, EndStates
<1>6. LivePast(ses[s]) /\ Kept(ses[s])
  BY <1>3, <1>4, PastKept DEF PastInv, Past, LivePast
<1>7. CASE ses[s].st = "ERROR"
  <2>1. r = Blame(ses[s])
    BY <1>7, Zenon
  <2>2. r \in SessionType /\ SameShape(r, ses[s])
    BY <1>4, <2>1, BlameStep, Zenon
  <2>3. SameHistory(r, ses[s]) /\ SameReply(r, ses[s]) /\ r.why = TRUE
    BY <1>4, <2>1, BlameFields, Zenon
  <2> HIDE DEF r
  <2>4. r.loc = "live" /\ LiveShape(r, "none")
    BY <1>3, <1>4, <1>5, <2>2 DEF SameShape, LiveShape, ReadStates
  <2>5. Kept(r)
    BY <1>6, <2>3, SameKept DEF SameReply
  <2> QED
    BY <1>1, <1>3, <2>2, <2>3, <2>4, <2>5, FinishPast
<1>8. CASE ses[s].st = "DONE"
  <2>1. r = ses[s]
    BY <1>8, Zenon
  <2>2. LiveShape(ses[s], "none")
    BY <1>4, <1>5
  <2>3. ses[s].dest => ses[s].open \/ ses[s].why
    BY <1>6, <1>8 DEF LivePast, LogPast
  <2> QED
    BY <1>1, <1>3, <1>4, <1>6, <2>1, <2>2, <2>3, FinishPast
<1> QED
  BY <1>1, <1>7, <1>8 DEF EndStates

\* socksv5_done from the sweep: the timeout is the reason.
LEMMA SessionTimeoutPast ==
  ASSUME SessionInv, PastInv, NEW s \in Slots, SessionTimeout(s)
  PROVE  ses[s].loc = "live" /\ Ends(s)
<1> DEFINE r == Blame(ses[s])
<1>1. /\ phase = "sweep" /\ s \in todo /\ Finish(s, r)
      /\ ses[s].st # "REQUEST_RESOLV"
  BY DEF SessionTimeout, Expirable
<1>2. ses[s] \in SessionType /\ ses[s].loc = "live" /\ LiveShape(ses[s], dns[s])
  BY <1>1, Swept
<1>3. dns[s] = "none"
  BY <1>1, <1>2 DEF LiveShape
<1>4. Kept(ses[s])
  BY <1>2, PastKept DEF PastInv, Past, LivePast
<1>5. r \in SessionType /\ SameShape(r, ses[s])
  BY <1>2, BlameStep, Zenon
<1>6. SameHistory(r, ses[s]) /\ SameReply(r, ses[s]) /\ r.why = TRUE
  BY <1>2, BlameFields, Zenon
<1> HIDE DEF r
<1>7. r.loc = "live" /\ LiveShape(r, "none")
  BY <1>2, <1>3, <1>5 DEF SameShape, LiveShape, ReadStates
<1>8. Kept(r)
  BY <1>4, <1>6, SameKept DEF SameReply
<1> QED
  BY <1>1, <1>2, <1>5, <1>6, <1>7, <1>8, FinishPast

\* connecting_timeout counts nothing: the client's handler will.
LEMMA ConnectTimeoutPast ==
  ASSUME SessionInv, PastInv, NEW s \in Slots, ConnectTimeout(s)
  PROVE  ses[s].loc = "live" /\ GoesOn(s)
<1> DEFINE r == IF ses[s].oint = "unreg" THEN ses[s] ELSE UnregisterOrigin(ses[s])
           n == Woken(r)
<1>1. /\ phase = "sweep" /\ s \in todo /\ ses[s].st = "CONNECTING"
      /\ ses' = [ses EXCEPT ![s] = n]
  BY DEF ConnectTimeout, ConnectingTimeout
<1>2. ses[s] \in SessionType /\ ses[s].loc = "live" /\ LiveShape(ses[s], dns[s])
  BY <1>1, Swept
<1>3. LivePast(ses[s])
  BY <1>2 DEF PastInv, Past, LivePast
<1>4. Kept(ses[s]) /\ Fresh(ses[s]) /\ ses[s].dest = TRUE /\ ses[s].out # "success"
  BY <1>1, <1>2, <1>3, ConnectingFresh
<1>5. r \in SessionType /\ SameHistory(r, ses[s]) /\ r.out = ses[s].out /\ r.st = ses[s].st
  <2>1. CASE ses[s].oint = "unreg"
    BY <1>2, <2>1, Zenon DEF SameHistory
  <2>2. CASE ses[s].oint # "unreg"
    <3>1. ses[s].refs = 2
      BY <1>1, <1>2, <2>2 DEF LiveShape, One
    <3>2. r = UnregisterOrigin(ses[s])
      BY <2>2, Zenon
    <3>3. r \in SessionType
      BY <1>2, <3>1, <3>2, UnregisterOriginStep, Zenon
    <3> QED
      BY <1>2, <3>1, <3>2, <3>3, UnregisterOriginFields, Zenon
  <2> QED
    BY <2>1, <2>2
<1> HIDE DEF r
<1>6. SameHistory(n, r) /\ SameReply(n, r) /\ n.st = r.st
  BY <1>5, WaitingFields, Zenon
<1> HIDE DEF n
<1>7. SameHistory(n, ses[s]) /\ n.out = ses[s].out /\ n.st = "CONNECTING"
  BY <1>1, <1>5, <1>6 DEF SameHistory, SameReply
<1>8. Kept(n) /\ Fresh(n) /\ n.dest = TRUE /\ n.loc = "live"
  BY <1>2, <1>4, <1>7, SameKept DEF Fresh, Welcome, SameHistory
<1> QED
  BY <1>1, <1>2, <1>7, <1>8, WaitingPast DEF GoesOn

\* request_resolv_done: nothing is counted for a name that was not found.
LEMMA HandleBlockPast ==
  ASSUME SessionInv, PastInv, NEW s \in Slots, HandleBlock(s)
  PROVE  ses[s].loc = "live" /\ GoesOn(s)
<1>1. ses[s] \in SessionType /\ Shape(ses[s], dns[s]) /\ dns[s] = "posted"
  BY DEF SessionInv, TypeOK, HandleBlock
<1>2. /\ ses[s].loc = "live" /\ ses[s].refs = 2 /\ ses[s].st = "REQUEST_RESOLV"
      /\ ses[s].cint # "unreg"
  BY <1>1 DEF Shape, LiveShape, One
<1>3. LivePast(ses[s])
  BY <1>2 DEF PastInv, Past, LivePast
<1>4. Kept(ses[s]) /\ Fresh(ses[s]) /\ ses[s].dest = TRUE
  BY <1>1, <1>2, <1>3, ConnectingFresh
<1>5. PICK n \in ResolvDone(ses[s]) : ses' = [ses EXCEPT ![s] = n]
  BY <1>2 DEF HandleBlock
<1> DEFINE f == GivenBack(ses[s])
<1>6. f \in SessionType
  BY <1>1, <1>2, ForgetStep, Zenon
<1>7. SameHistory(f, ses[s]) /\ SameReply(f, ses[s])
  BY <1>1, WaitingFields, Zenon
<1>8. n \in {Refuse(f), Errored(Blame(f))} \/ n \in TryConnect(Connecting(f))
  BY <1>5, Zenon DEF ResolvDone
<1> HIDE DEF f
<1>9. Kept(f) /\ Fresh(f) /\ f.dest = TRUE /\ f.loc = "live"
  BY <1>2, <1>4, <1>7, SameKept DEF Fresh, Welcome, SameHistory, SameReply
<1>10. LivePast(n) /\ n.loc = "live"
  <2>1. CASE n = Refuse(f)
    BY <1>6, <1>9, <2>1, RefusePast DEF Fresh
  <2>2. CASE n = Errored(Blame(f))
    <3> DEFINE m == Blame(f)
    <3>1. m \in SessionType
      BY <1>6, BlameStep, Zenon
    <3>2. SameHistory(m, f) /\ SameReply(m, f)
      BY <1>6, BlameFields, Zenon
    <3> HIDE DEF m
    <3>3. Kept(m) /\ m.loc = "live"
      BY <1>9, <3>2, SameKept DEF SameHistory, SameReply
    <3>4. n = Errored(m)
      BY <2>2 DEF m
    <3> QED
      BY <3>1, <3>3, <3>4, ErroredPast
  <2>3. CASE n \in TryConnect(Connecting(f))
    <3> DEFINE m == Connecting(f)
    <3>1. m \in SessionType /\ m.st = "CONNECTING"
      BY <1>6, ConnectingStep, Zenon
    <3>2. SameHistory(m, f) /\ SameReply(m, f)
      BY <1>6, WaitingFields, Zenon
    <3> HIDE DEF m
    <3>3. Kept(m) /\ Fresh(m) /\ m.dest = TRUE /\ m.loc = "live"
      BY <1>9, <3>2, SameKept DEF Fresh, Welcome, SameHistory, SameReply
    <3>4. n \in TryConnect(m)
      BY <2>3 DEF m
    <3> QED
      BY <3>1, <3>3, <3>4, TryConnectPast
  <2> QED
    BY <1>8, <2>1, <2>2, <2>3
<1> QED
  BY <1>2, <1>5, <1>10 DEF GoesOn

\* The DNS thread writes the addresses into a session that waits for them.
LEMMA DnsAnswerPast ==
  ASSUME SessionInv, PastInv, NEW s \in Slots, DnsAnswer(s)
  PROVE  ses[s].loc = "live" /\ GoesOn(s)
<1>1. ses[s] \in SessionType /\ Shape(ses[s], dns[s]) /\ dns[s] = "resolving"
  BY DEF SessionInv, TypeOK, DnsAnswer
<1>2. ses[s].loc = "live"
  BY <1>1 DEF Shape
<1>3. LivePast(ses[s])
  BY <1>2 DEF PastInv, Past, LivePast
<1>4. PICK k \in 0..MaxAddrs : ses' = [ses EXCEPT ![s] = Resolved(ses[s], k)]
  BY DEF DnsAnswer
<1> DEFINE n == Resolved(ses[s], k)
<1>5. /\ SameHistory(n, ses[s]) /\ SameReply(n, ses[s])
      /\ n.st = ses[s].st /\ n.why = ses[s].why
  BY <1>1, WaitingFields, Zenon
<1> HIDE DEF n
<1>6. LivePast(n) /\ n.loc = "live"
  BY <1>1, <1>2, <1>3, <1>5, SamePast DEF SameHistory, SameReply
<1> QED
  BY <1>2, <1>4, <1>6 DEF GoesOn, n

\* socks5_new clears the struct: a new session starts with a clean past.
LEMMA AcceptPast ==
  ASSUME SessionInv, NEW s \in Slots, Accept(s) \/ AcceptUnregistered(s)
  PROVE  /\ ses[s].loc # "live"
         /\ Accept(s) => GoesOn(s)
         /\ AcceptUnregistered(s) =>
              \E n : ses' = [ses EXCEPT ![s] = n] /\ n.loc # "live" /\ LastLines(n)
<1>1. ses[s].loc # "live"
  BY DEF Accept, AcceptUnregistered, Allocated, Pool, Live
<1>2. IsRec(Blank)
  BY BlankStep, SessionElim
<1>3. ASSUME Accept(s) PROVE GoesOn(s)
  <2>1. ses' = [ses EXCEPT ![s] = Accepted]
    BY <1>3 DEF Accept
  <2>2. /\ Accepted.loc = "live" /\ Accepted.st = "HELLO_READ" /\ Accepted.lines = <<>>
        /\ Accepted.open = FALSE /\ Accepted.dest = FALSE /\ Accepted.lgd = FALSE
        /\ Accepted.must = FALSE /\ Accepted.ok = 0 /\ Accepted.fail = 0
        /\ Accepted.badpw = 0 /\ Accepted.out = "none"
    BY <1>2, Zenon DEF IsRec, Names, Accepted, NewSession, Blank
  <2> DEFINE n == Accepted
  <2>3. /\ n.loc = "live" /\ n.st = "HELLO_READ" /\ n.lines = <<>>
        /\ n.open = FALSE /\ n.dest = FALSE /\ n.lgd = FALSE
        /\ n.must = FALSE /\ n.ok = 0 /\ n.fail = 0 /\ n.badpw = 0 /\ n.out = "none"
    BY <2>2
  <2> HIDE DEF n
  <2>4. LogPast(n) /\ OriginPast(n) /\ AuthPast(n)
    BY <2>3 DEF LogPast, OriginPast, AuthPast
  <2> QED
    BY <2>1, <2>2, <2>4 DEF GoesOn, LivePast, n
<1>4. ASSUME AcceptUnregistered(s)
      PROVE  \E n : ses' = [ses EXCEPT ![s] = n] /\ n.loc # "live" /\ LastLines(n)
  <2> DEFINE r == Release(NewSession)
             n == Scrub(r)
  <2>1. ses' = [ses EXCEPT ![s] = n]
    BY <1>4 DEF AcceptUnregistered
  <2>2. NewSession \in SessionType /\ NewSession.refs = 1
    BY NewSessionStep
  <2>3. r \in SessionType /\ r.loc \in {"pool", "free"}
    BY <2>2, ReleaseStep
  <2>4. NewSession.dest = FALSE /\ NewSession.lines = <<>>
    BY <1>2, Zenon DEF IsRec, Names, NewSession, Blank
  <2>5. r.dest = FALSE /\ r.lines = <<>>
    <3> DEFINE p == IF Cardinality(Pool) < MaxPool THEN "pool" ELSE "free"
    <3>1. r = [NewSession EXCEPT !.loc = p, !.res = 0]
      BY <2>2, Zenon DEF Release
    <3>2. IsRec(NewSession)
      BY <2>2, SessionElim
    <3> HIDE DEF p, r
    <3> QED
      BY <2>4, <3>1, <3>2, Zenon DEF IsRec, Names
  <2> HIDE DEF r
  <2>6. r.loc # "live"
    BY <2>3
  <2>7. n.loc # "live"
    BY <2>3, <2>6, ScrubStep, Zenon
  <2>8. n.dest = FALSE /\ n.lines = <<>>
    <3>1. n = [Blank EXCEPT !.loc = r.loc, !.cint = r.cint, !.oint = r.oint,
                            !.dest = r.dest, !.lines = r.lines]
      BY <2>6, Zenon DEF Scrub
    <3> HIDE DEF n
    <3> QED
      BY <1>2, <2>5, <3>1, Zenon DEF IsRec, Names
  <2> HIDE DEF n
  <2>9. LastLines(n)
    BY <2>8 DEF LastLines
  <2> QED
    BY <2>1, <2>7, <2>9
<1> QED
  BY <1>1, <1>3, <1>4

-----------------------------------------------------------------------------
\* What a step can do to the sessions and to their number.

Counters == <<active, connActive>>

\* Every step leaves the sessions alone, or takes one of them on, ends it, starts
\* one, or gives one back that could not be registered.
LEMMA StepKinds ==
  ASSUME SessionInv, PastInv, [Next]_vars
  PROVE  \/ ses' = ses /\ UNCHANGED Counters
         \/ \E s \in Slots : ses[s].loc = "live" /\ GoesOn(s) /\ UNCHANGED Counters
         \/ \E s \in Slots : ses[s].loc = "live" /\ Ends(s)
         \/ \E s \in Slots : /\ ses[s].loc # "live" /\ GoesOn(s) /\ ~LimitReached
                             /\ active' = active + 1 /\ connActive' = connActive + 1
         \/ \E s \in Slots : /\ ses[s].loc # "live" /\ UNCHANGED Counters
                             /\ \E n : /\ ses' = [ses EXCEPT ![s] = n]
                                       /\ n.loc # "live" /\ LastLines(n)
<1>1. CASE UNCHANGED vars
  BY <1>1 DEF vars, Counters
<1>2. CASE \/ Select \/ EndIteration \/ EndNotify \/ EndSweep \/ AcceptRefused
           \/ DnsTake \/ \E s \in Slots : SweepPass(s) \/ DnsNotify(s)
  BY <1>2 DEF Select, EndIteration, EndNotify, EndSweep, AcceptRefused, DnsTake,
     SweepPass, DnsNotify, Counters, Loop
<1>3. ASSUME NEW s \in Slots,
             \/ HelloRead(s) \/ HelloWrite(s) \/ AuthRead(s) \/ AuthWrite(s)
             \/ RequestRead(s) \/ RequestWrite(s) \/ ConnectingWriteClient(s)
             \/ Connected(s) \/ ConnectFailed(s) \/ Relay(s)
      PROVE  ses[s].loc = "live" /\ GoesOn(s) /\ UNCHANGED Counters
  <2>1. GoesOn(s)
    BY <1>3, HelloReadPast, HelloWritePast, AuthReadPast, AuthWritePast, RequestReadPast,
       RequestWritePast, ConnectingWriteClientPast, ConnectedPast, ConnectFailedPast,
       RelayPast
  <2>2. /\ UNCHANGED Loop
        /\ \E side \in {"client", "origin"}, dir \in {"R", "W"} :
             Visit(s, side, dir) \/ Pump(s)
    BY <1>3 DEF HelloRead, HelloWrite, AuthRead, AuthWrite, RequestRead, RequestWrite,
       ConnectingWriteClient, Connected, ConnectFailed, Relay
  <2>3. ses[s].loc = "live"
    BY <2>2, HandlerPast
  <2> QED
    BY <2>1, <2>2, <2>3 DEF Loop, Counters
<1>4. ASSUME NEW s \in Slots, End(s) \/ SessionTimeout(s)
      PROVE  ses[s].loc = "live" /\ Ends(s)
  BY <1>4, EndPast, SessionTimeoutPast
<1>5. ASSUME NEW s \in Slots, HandleBlock(s) \/ ConnectTimeout(s) \/ DnsAnswer(s)
      PROVE  ses[s].loc = "live" /\ GoesOn(s) /\ UNCHANGED Counters
  <2>1. ses[s].loc = "live" /\ GoesOn(s)
    BY <1>5, HandleBlockPast, ConnectTimeoutPast, DnsAnswerPast
  <2> QED
    BY <1>5, <2>1 DEF HandleBlock, ConnectTimeout, DnsAnswer, Counters, Loop
<1>6. ASSUME NEW s \in Slots, Accept(s)
      PROVE  /\ ses[s].loc # "live" /\ GoesOn(s) /\ ~LimitReached
             /\ active' = active + 1 /\ connActive' = connActive + 1
  <2>1. ~LimitReached /\ active' = active + 1 /\ connActive' = connActive + 1
    BY <1>6, Zenon DEF Accept
  <2> QED
    BY <1>6, <2>1, AcceptPast
<1>7. ASSUME NEW s \in Slots, AcceptUnregistered(s)
      PROVE  /\ ses[s].loc # "live" /\ UNCHANGED Counters
             /\ \E n : ses' = [ses EXCEPT ![s] = n] /\ n.loc # "live" /\ LastLines(n)
  <2>1. UNCHANGED Counters
    BY <1>7 DEF AcceptUnregistered, Counters
  <2> QED
    BY <1>7, <2>1, AcceptPast
<1> QED
  BY <1>1, <1>2, <1>3, <1>4, <1>5, <1>6, <1>7, Zenon
     DEF Next, LoopThread, DnsThread, Handler

\* One session is replaced by one with a past in order.
LEMMA PastUpdate ==
  ASSUME SessionInv, PastInv, NEW s \in Slots, NEW n, Past(n), ses' = [ses EXCEPT ![s] = n]
  PROVE  PastInv'
<1>1. ses \in [Slots -> SessionType]
  BY DEF SessionInv, TypeOK
<1>2. \A x \in Slots : ses'[x] = IF x = s THEN n ELSE ses[x]
  BY <1>1
<1>3. \A x \in Slots : Past(ses'[x])
  BY <1>2, Zenon DEF PastInv
<1> QED
  BY <1>3, Zenon DEF PastInv, Past, LogPast, OriginPast, AuthPast, LastLines

\* Every step leaves each session with a past in order.
LEMMA PastStep ==
  ASSUME SessionInv, PastInv, [Next]_vars
  PROVE  PastInv'
<1>1. CASE ses' = ses
  BY <1>1 DEF PastInv, Past, LogPast, OriginPast, AuthPast, LastLines
<1>2. ASSUME NEW s \in Slots, GoesOn(s)
      PROVE  PastInv'
  <2>1. PICK n : ses' = [ses EXCEPT ![s] = n] /\ n.loc = "live" /\ LivePast(n)
    BY <1>2 DEF GoesOn
  <2>2. Past(n)
    BY <2>1 DEF Past, LivePast
  <2> QED
    BY <2>1, <2>2, PastUpdate
<1>3. ASSUME NEW s \in Slots, NEW n, ses' = [ses EXCEPT ![s] = n],
             n.loc # "live", LastLines(n)
      PROVE  PastInv'
  <2>1. Past(n)
    BY <1>3 DEF Past
  <2> QED
    BY <1>3, <2>1, PastUpdate
<1> QED
  BY <1>1, <1>2, <1>3, StepKinds, Zenon DEF Ends

\* How one session moves in or out of Live.
LEMMA LiveUpdate ==
  ASSUME SessionInv, NEW s \in Slots, NEW n, ses' = [ses EXCEPT ![s] = n]
  PROVE  Live' = IF n.loc = "live" THEN Live \cup {s} ELSE Live \ {s}
<1>1. ses \in [Slots -> SessionType]
  BY DEF SessionInv, TypeOK
<1>2. \A x \in Slots : ses'[x] = IF x = s THEN n ELSE ses[x]
  BY <1>1
<1> QED
  BY <1>2 DEF Live

\* The live sessions are a finite set.
LEMMA LiveFinite == IsFiniteSet(Live) /\ Cardinality(Live) \in Nat
<1>1. Live \subseteq Slots
  BY DEF Live
<1>2. IsFiniteSet(Live)
  BY <1>1, SlotsAssumption, FS_Subset
<1> QED
  BY <1>2, FS_CardinalityType

\* Every step counts the sessions it starts and ends.
LEMMA CountStep ==
  ASSUME SessionInv, PastInv, ActiveExact, [Next]_vars
  PROVE  ActiveExact'
<1>1. IsFiniteSet(Live) /\ Cardinality(Live) \in Nat /\ MaxConnections \in Nat
  BY LiveFinite, BoundsAssumption
<1>2. /\ active = Cardinality(Live) /\ connActive = active
      /\ MaxConnections > 0 => Cardinality(Live) <= MaxConnections
  BY DEF ActiveExact
<1>3. ASSUME Live' = Live, UNCHANGED Counters
      PROVE  ActiveExact'
  BY <1>2, <1>3 DEF ActiveExact, Counters
<1>4. CASE ses' = ses /\ UNCHANGED Counters
  <2>1. Live' = Live
    BY <1>4 DEF Live
  <2> QED
    BY <1>3, <1>4, <2>1
<1>5. ASSUME NEW s \in Slots, ses[s].loc = "live", GoesOn(s), UNCHANGED Counters
      PROVE  ActiveExact'
  <2>1. Live' = Live \cup {s} /\ s \in Live
    BY <1>5, LiveUpdate DEF GoesOn, Live
  <2>2. Live' = Live
    BY <2>1
  <2> QED
    BY <1>3, <1>5, <2>2
<1>6. ASSUME NEW s \in Slots, ses[s].loc = "live", Ends(s)
      PROVE  ActiveExact'
  <2>1. /\ Live' = Live \ {s} /\ s \in Live
        /\ active' = IF active > 0 THEN active - 1 ELSE active
        /\ connActive' = connActive - 1
    BY <1>6, LiveUpdate DEF Ends, Live
  <2>2. Cardinality(Live \ {s}) = Cardinality(Live) - 1
    BY <1>1, <2>1, FS_RemoveElement
  <2>3. Cardinality(Live) # 0
    BY <1>1, <2>1, FS_EmptySet
  <2> QED
    BY <1>1, <1>2, <2>1, <2>2, <2>3 DEF ActiveExact
<1>7. ASSUME NEW s \in Slots, ses[s].loc # "live", GoesOn(s), ~LimitReached,
             active' = active + 1, connActive' = connActive + 1
      PROVE  ActiveExact'
  <2>1. Live' = Live \cup {s} /\ s \notin Live
    <3>1. PICK n : ses' = [ses EXCEPT ![s] = n] /\ n.loc = "live"
      BY <1>7 DEF GoesOn
    <3>2. Live' = Live \cup {s}
      BY <3>1, LiveUpdate
    <3> QED
      BY <1>7, <3>2 DEF Live
  <2>2. Cardinality(Live \cup {s}) = Cardinality(Live) + 1
    BY <1>1, <2>1, FS_AddElement
  <2>3. MaxConnections > 0 => active < MaxConnections
    BY <1>1, <1>2, <1>7 DEF LimitReached
  <2> QED
    BY <1>1, <1>2, <1>7, <2>1, <2>2, <2>3 DEF ActiveExact
<1>8. ASSUME NEW s \in Slots, ses[s].loc # "live", UNCHANGED Counters,
             NEW n, ses' = [ses EXCEPT ![s] = n], n.loc # "live"
      PROVE  ActiveExact'
  <2>1. Live' = Live \ {s} /\ s \notin Live
    BY <1>8, LiveUpdate DEF Live
  <2>2. Live' = Live
    BY <2>1
  <2> QED
    BY <1>3, <1>8, <2>2
<1> QED
  BY <1>4, <1>5, <1>6, <1>7, <1>8, StepKinds, Zenon

-----------------------------------------------------------------------------
\* The invariant and what follows from it.

\* Before the first accept nobody has a past and nothing is counted.
LEMMA InitPast == Init => PastInv /\ ActiveExact
<1> SUFFICES ASSUME Init PROVE PastInv /\ ActiveExact
  OBVIOUS
<1>1. Blank.loc = "free" /\ Blank.dest = FALSE /\ Blank.lines = <<>>
  BY Zenon DEF Blank
<1>2. ses = [s \in Slots |-> Blank] /\ active = 0 /\ connActive = 0
  BY DEF Init
<1>3. PastInv
  BY <1>1, <1>2 DEF PastInv, Past, LastLines
<1>4. Live = {}
  BY <1>1, <1>2 DEF Live
<1> QED
  BY <1>2, <1>3, <1>4, FS_EmptySet, BoundsAssumption DEF ActiveExact

\* In every reachable state the log lines, the counters and the login of each
\* session are those of its state, and the counters of active sessions are exact.
THEOREM PastInvariant == Spec => [](PastInv /\ ActiveExact)
<1>1. SessionInv /\ (PastInv /\ ActiveExact) /\ [Next]_vars => (PastInv /\ ActiveExact)'
  BY PastStep, CountStep
<1> QED
  BY <1>1, InitPast, SessionInvariant, PTL DEF Spec

\* g_active_sessions and conn-active are the number of live sessions, and
\* max-connections is never exceeded, for any number of sessions, however each
\* of them ended.
THEOREM ActiveCount == Spec => []ActiveExact
  BY PastInvariant, PTL

\* The access log of every session is nothing, FAIL with its reason, or OPEN and
\* then CLOSE, the closing line exactly when socksv5_done ran.
THEOREM AccessLog == Spec => []LogDiscipline
<1>1. PastInv => LogDiscipline
  <2> SUFFICES ASSUME PastInv, NEW s \in Slots
               PROVE  ses[s].lines = IF ses[s].loc = "live"
                        THEN (IF ses[s].open THEN <<"OPEN">> ELSE <<>>)
                        ELSE IF ~ses[s].dest THEN <<>>
                        ELSE IF Len(ses[s].lines) = 2 THEN <<"OPEN", "CLOSE">> ELSE <<"FAIL">>
    BY Zenon DEF LogDiscipline
  <2>1. Past(ses[s])
    BY DEF PastInv
  <2>2. CASE ses[s].loc = "live"
    BY <2>1, <2>2, Zenon DEF Past, LogPast
  <2>3. CASE ses[s].loc # "live"
    <3>1. Len(<<"FAIL">>) # 2 /\ Len(<<"OPEN", "CLOSE">>) = 2
      OBVIOUS
    <3> QED
      BY <2>1, <2>3, <3>1, Zenon DEF Past, LastLines
  <2> QED
    BY <2>2, <2>3
<1> QED
  BY <1>1, PastInvariant, PTL

\* However connects are retried, time out or answer late, a session counts at
\* most one of origin-ok and origin-fail, and a tunnel opens only after origin-ok.
THEOREM OriginOnce == Spec => []OriginCountedOnce
<1>1. PastInv => OriginCountedOnce
  BY DEF PastInv, Past, OriginPast, OriginCountedOnce, Live
<1> QED
  BY <1>1, PastInvariant, PTL

\* No session that was told to log in names a destination, or is read a request,
\* before users_check accepted it; a rejected one never does.
THEOREM LoginFirst == Spec => []AuthFirst
<1>1. PastInv => AuthFirst
  BY DEF PastInv, Past, AuthPast, AuthFirst, Live, Admitted, States, ReadStates, EndStates
<1> QED
  BY <1>1, PastInvariant, PTL

=============================================================================
