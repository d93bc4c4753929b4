-------------------------- MODULE CopyRelayProofs ---------------------------
(***************************************************************************)
(* Proofs about CopyRelay, for every buffer size and every amount of data: *)
(* RelayInv is inductive and implies the safety properties the runs check. *)
(***************************************************************************)
EXTENDS CopyRelay, TLAPS

\* copy_init establishes the invariant.
LEMMA InitInv == Init => RelayInv
<1> SUFFICES ASSUME Init PROVE RelayInv
  OBVIOUS
<1>1. PICK r \in 0..BufferSize, w \in 0..BufferSize :
         /\ r < w \/ (r = 0 /\ w = 0)
         /\ rd = [d \in Dirs |-> IF d = "c2o" THEN r ELSE 0]
         /\ wr = [d \in Dirs |-> IF d = "c2o" THEN w ELSE 0]
         /\ got = [d \in Dirs |-> IF d = "c2o" THEN w - r ELSE 0]
  BY DEF Init
<1>2. TypeOK /\ Conservation
  BY <1>1, SizeAssumption
  DEF Init, TypeOK, Conservation, Dirs, Fds, CopyInterest, ReadState, WriteState
<1>3. ClosedAfterDrain /\ EmptyIsReset /\ ShutWhenDrained /\ InterestsCurrent
  BY <1>1 DEF Init, ClosedAfterDrain, EmptyIsReset, ShutWhenDrained, InterestsCurrent, Dirs, Fds
<1>4. ~IsDone(wclosed)
  BY DEF Init, IsDone, Dirs
<1> QED
  BY <1>2, <1>3, <1>4 DEF RelayInv

\* What a handler has established of the buffers and counts when it comes to
\* the shutdown and to the new interests.
Moved(d) ==
    /\ rd' \in [Dirs -> 0..BufferSize] /\ wr' \in [Dirs -> 0..BufferSize]
    /\ eof' \in [Dirs -> BOOLEAN]
    /\ got' \in [Dirs -> Nat] /\ sent' \in [Dirs -> Nat]
    /\ \A x \in Dirs : rd'[x] <= wr'[x] /\ got'[x] = sent'[x] + (wr'[x] - rd'[x])
    /\ \A x \in Dirs : rd'[x] = wr'[x] => rd'[x] = 0
    /\ \A x \in Dirs \ {d} : /\ rd'[x] = rd[x] /\ wr'[x] = wr[x]
                             /\ eof'[x] = eof[x] /\ sent'[x] = sent[x] /\ got'[x] = got[x]

\* The end of a handler restores the invariant.
LEMMA ConcludeInv ==
  ASSUME RelayInv, st = "COPY", NEW d \in Dirs, ~wclosed[d], Moved(d), Conclude(d)
  PROVE  RelayInv'
<1> USE DEF RelayInv
<1>1. CASE st' = "ERROR" /\ UNCHANGED <<wclosed, interest>>
  <2>1. TypeOK' /\ Conservation' /\ EmptyIsReset'
    BY <1>1 DEF TypeOK, Moved, Conservation, EmptyIsReset
  <2>2. ClosedAfterDrain'
    BY <1>1 DEF ClosedAfterDrain, Moved
  <2>3. ShutWhenDrained' /\ InterestsCurrent'
    BY <1>1 DEF ShutWhenDrained, InterestsCurrent
  <2> QED
    BY <1>1, <2>1, <2>2, <2>3
<1>2. CASE /\ wclosed' = [wclosed EXCEPT ![d] = @ \/ MustShut(d)]
           /\ IF IsDone(wclosed') THEN st' = "DONE" /\ UNCHANGED interest
                                  ELSE UNCHANGED st /\ UpdateInterests
  <2>1. /\ wclosed' \in [Dirs -> BOOLEAN]
        /\ wclosed'[d] = MustShut(d)
        /\ \A x \in Dirs \ {d} : wclosed'[x] = wclosed[x]
    <3>1. MustShut(d) \in BOOLEAN
      BY DEF MustShut
    <3> QED
      BY <1>2, <3>1 DEF TypeOK
  <2>2. wclosed'[d] <=> eof'[d] /\ rd'[d] = wr'[d]
    <3>0. rd'[d] \in Int /\ wr'[d] \in Int /\ rd'[d] <= wr'[d]
      BY SizeAssumption DEF Moved
    <3>1. ~CanRead(d, rd', wr') <=> rd'[d] = wr'[d]
      BY <3>0, SMT DEF CanRead
    <3>2. MustShut(d) <=> eof'[d] /\ rd'[d] = wr'[d]
      BY <3>1, Zenon DEF MustShut
    <3> QED
      BY <2>1, <3>2, Zenon
  <2>3. TypeOK'
    <3>1. interest' \in [Fds -> SUBSET {"R", "W"}]
      BY <1>2 DEF TypeOK, UpdateInterests, CopyInterest
    <3> QED
      BY <1>2, <2>1, <3>1 DEF TypeOK, Moved
  <2>4. Conservation' /\ EmptyIsReset'
    BY DEF Moved, Conservation, EmptyIsReset
  <2>5. ClosedAfterDrain'
    <3>1. \A x \in Dirs : wclosed'[x] => eof'[x] /\ sent'[x] = got'[x]
      BY <2>1, <2>2 DEF ClosedAfterDrain, Moved
    <3>2. st' = "DONE" => \A x \in Dirs : wclosed'[x]
      BY <1>2 DEF IsDone
    <3> QED
      BY <3>1, <3>2 DEF ClosedAfterDrain
  <2>6. ShutWhenDrained'
    BY <2>1, <2>2 DEF ShutWhenDrained, Moved
  <2>7. InterestsCurrent'
    BY <1>2 DEF InterestsCurrent, UpdateInterests
  <2>8. (st = "COPY" => ~IsDone(wclosed))'
    BY <1>2
  <2> QED
    BY <2>3, <2>4, <2>5, <2>6, <2>7, <2>8
<1> QED
  BY <1>1, <1>2 DEF Conclude

\* Every call of copy_read and copy_write keeps the invariant.
LEMMA NextInv == RelayInv /\ [Next]_vars => RelayInv'
<1> SUFFICES ASSUME RelayInv, [Next]_vars PROVE RelayInv'
  OBVIOUS
<1> USE DEF RelayInv
<1>1. CASE UNCHANGED vars
  BY <1>1 DEF vars, TypeOK, Conservation, ClosedAfterDrain, EmptyIsReset, ShutWhenDrained,
              InterestsCurrent, IsDone
<1>2. ASSUME NEW fd \in Fds, CopyRead(fd) PROVE RelayInv'
  <2> DEFINE d == ReadState(fd)
  <2>1. d \in Dirs /\ st = "COPY" /\ Conclude(d)
    BY <1>2 DEF CopyRead, Called, ReadState, Dirs
  <2>2. ~eof[d] /\ wr[d] < BufferSize
    BY <1>2 DEF CopyRead, Called, InterestsCurrent, CopyInterest, CanWrite
  <2>3. ~wclosed[d]
    BY <2>1, <2>2 DEF ClosedAfterDrain
  <2>4. PICK n \in 1 .. Room(d) :
           wr' = [wr EXCEPT ![d] = @ + n] /\ got' = [got EXCEPT ![d] = @ + n]
    BY <1>2 DEF CopyRead
  <2>5. rd' = rd /\ eof' = eof /\ sent' = sent
    BY <1>2 DEF CopyRead
  <2> HIDE DEF d
  <2>6. Moved(d)
    BY <2>1, <2>4, <2>5, SizeAssumption DEF Moved, TypeOK, Conservation, EmptyIsReset, Room
  <2> QED
    BY <2>1, <2>3, <2>6, ConcludeInv
<1>3. ASSUME NEW fd \in Fds, CopyReadEof(fd) PROVE RelayInv'
  <2> DEFINE d == ReadState(fd)
  <2>1. d \in Dirs /\ st = "COPY" /\ Conclude(d)
    BY <1>3 DEF CopyReadEof, Called, ReadState, Dirs
  <2>2. ~eof[d]
    BY <1>3 DEF CopyReadEof, Called, InterestsCurrent, CopyInterest
  <2>3. ~wclosed[d]
    BY <2>1, <2>2 DEF ClosedAfterDrain
  <2>4. eof' = [eof EXCEPT ![d] = TRUE] /\ UNCHANGED <<rd, wr, got, sent>>
    BY <1>3 DEF CopyReadEof
  <2> HIDE DEF d
  <2>5. Moved(d)
    BY <2>1, <2>4 DEF Moved, TypeOK, Conservation, EmptyIsReset
  <2> QED
    BY <2>1, <2>3, <2>5, ConcludeInv
<1>4. ASSUME NEW fd \in Fds, CopyWrite(fd) PROVE RelayInv'
  <2> DEFINE d == WriteState(fd)
  <2>1. d \in Dirs /\ st = "COPY" /\ Conclude(d)
    BY <1>4 DEF CopyWrite, Called, WriteState, Dirs
  <2>2. ~wclosed[d]
    BY <1>4 DEF CopyWrite, Called, InterestsCurrent, CopyInterest
  <2>3. PICK n \in 1 .. (wr[d] - rd[d]) :
           ReadAdv(d, n) /\ sent' = [sent EXCEPT ![d] = @ + n]
    BY <1>4 DEF CopyWrite
  <2>4. eof' = eof /\ got' = got
    BY <1>4 DEF CopyWrite
  <2> HIDE DEF d
  <2>5. Moved(d)
    BY <2>1, <2>3, <2>4, SizeAssumption
    DEF Moved, TypeOK, Conservation, EmptyIsReset, ReadAdv
  <2> QED
    BY <2>1, <2>2, <2>5, ConcludeInv
<1>5. ASSUME NEW fd \in Fds, WouldBlock(fd) PROVE RelayInv'
  <2>1. UNCHANGED <<rd, wr, eof, wclosed, got, sent, st>> /\ UpdateInterests
    BY <1>5 DEF WouldBlock
  <2>2. TypeOK' /\ InterestsCurrent'
    BY <2>1 DEF TypeOK, InterestsCurrent, UpdateInterests, CopyInterest
  <2> QED
    BY <2>1, <2>2
    DEF Conservation, ClosedAfterDrain, EmptyIsReset, ShutWhenDrained, IsDone
<1>6. ASSUME NEW fd \in Fds, IOError(fd) PROVE RelayInv'
  BY <1>6 DEF IOError, TypeOK, Conservation, ClosedAfterDrain, EmptyIsReset, ShutWhenDrained,
              InterestsCurrent, IsDone
<1> QED
  BY <1>1, <1>2, <1>3, <1>4, <1>5, <1>6 DEF Next

\* The invariant holds throughout the relay.
THEOREM RelayInvariant == Spec => []RelayInv
  BY InitInv, NextInv, PTL DEF Spec

\* No byte is lost or repeated by the two buffers (buffer_write_adv,
\* buffer_read_adv and its reset), for every buffer size.
THEOREM RelayConserves == Spec => []Conservation
<1>1. RelayInv => Conservation
  BY DEF RelayInv
<1> QED
  BY <1>1, RelayInvariant, PTL

\* SHUT_WR is never sent ahead of a byte, and DONE is never returned before
\* both directions were shut.
THEOREM RelayClosesLast == Spec => []ClosedAfterDrain
<1>1. RelayInv => ClosedAfterDrain
  BY DEF RelayInv
<1> QED
  BY <1>1, RelayInvariant, PTL

\* copy_update_interests never leaves an unfinished direction without an fd to
\* move it.
THEOREM RelayNeverStalls == Spec => []NoStall
<1>1. RelayInv => NoStall
  <2> SUFFICES ASSUME RelayInv, st = "COPY", NEW fd \in Fds, ~wclosed[ReadState(fd)]
               PROVE  \/ "R" \in interest[fd] /\ ~eof[ReadState(fd)]
                      \/ \E o \in Fds : WriteState(o) = ReadState(fd) /\ "W" \in interest[o]
    BY DEF NoStall
  <2> DEFINE d == ReadState(fd)
  <2>1. d \in Dirs
    BY DEF ReadState, Dirs
  <2>2. PICK o \in Fds : WriteState(o) = d
    BY DEF ReadState, WriteState, Fds
  <2>3. CASE eof[d]
    <3>0. rd[d] \in Int /\ wr[d] \in Int /\ rd[d] <= wr[d]
      BY <2>1, SizeAssumption DEF RelayInv, Conservation, TypeOK
    <3>1. rd[d] < wr[d]
      BY <2>1, <2>3, <3>0 DEF RelayInv, ShutWhenDrained
    <3>2. "W" \in interest[o]
      BY <2>2, <3>1 DEF RelayInv, InterestsCurrent, CopyInterest, CanRead
    <3> QED
      BY <2>2, <3>2
  <2>4. CASE ~eof[d] /\ wr[d] < BufferSize
    BY <2>4 DEF RelayInv, InterestsCurrent, CopyInterest, CanWrite
  <2>5. CASE ~eof[d] /\ wr[d] = BufferSize
    <3>1. rd[d] < wr[d]
      BY <2>1, <2>5, SizeAssumption DEF RelayInv, EmptyIsReset, Conservation, TypeOK
    <3>2. "W" \in interest[o]
      BY <2>2, <3>1 DEF RelayInv, InterestsCurrent, CopyInterest, CanRead
    <3> QED
      BY <2>2, <3>2
  <2> QED
    BY <2>1, <2>3, <2>4, <2>5, SizeAssumption DEF RelayInv, TypeOK
<1> QED
  BY <1>1, RelayInvariant, PTL

\* No fd is watched that its handler could not serve: the branches of copy_read
\* for a full buffer and of copy_write for an empty one are dead.
THEOREM RelayNeverSpins == Spec => []NoSpin
<1>1. RelayInv => NoSpin
  BY DEF RelayInv, NoSpin, InterestsCurrent, CopyInterest, CanRead, CanWrite
<1> QED
  BY <1>1, RelayInvariant, PTL

\* After shutdown(SHUT_WR) a direction is at rest: every handler that could move
\* it is kept away by the interests.
THEOREM RelayQuiet == Spec => QuietAfterClose
<1>1. ASSUME RelayInv, [Next]_vars
      PROVE  [\A d \in Dirs : wclosed[d] =>
                UNCHANGED <<sent[d], got[d], wclosed[d], eof[d]>>]_vars
  <2> SUFFICES ASSUME Next, NEW x \in Dirs, wclosed[x]
               PROVE  UNCHANGED <<sent[x], got[x], wclosed[x], eof[x]>>
    BY <1>1
  <2> USE DEF RelayInv
  <2>1. ASSUME NEW d \in Dirs, ~wclosed[d], Conclude(d)
        PROVE  wclosed'[x] = wclosed[x]
    BY <1>1, <2>1 DEF Conclude, TypeOK
  <2>2. ASSUME NEW fd \in Fds, CopyRead(fd) \/ CopyReadEof(fd)
        PROVE  UNCHANGED <<sent[x], got[x], wclosed[x], eof[x]>>
    <3> DEFINE d == ReadState(fd)
    <3>1. d \in Dirs /\ st = "COPY" /\ Conclude(d) /\ ~eof[d]
      BY <1>1, <2>2 DEF CopyRead, CopyReadEof, Called, ReadState, Dirs,
                        InterestsCurrent, CopyInterest
    <3>2. ~wclosed[d] /\ x # d
      BY <1>1, <3>1 DEF ClosedAfterDrain
    <3>3. wclosed'[x] = wclosed[x]
      BY <2>1, <3>1, <3>2
    <3>4. sent'[x] = sent[x] /\ got'[x] = got[x] /\ eof'[x] = eof[x]
      BY <1>1, <2>2, <3>2 DEF CopyRead, CopyReadEof, TypeOK
    <3> QED
      BY <3>3, <3>4
  <2>3. ASSUME NEW fd \in Fds, CopyWrite(fd)
        PROVE  UNCHANGED <<sent[x], got[x], wclosed[x], eof[x]>>
    <3> DEFINE d == WriteState(fd)
    <3>1. d \in Dirs /\ st = "COPY" /\ Conclude(d) /\ ~wclosed[d]
      BY <1>1, <2>3 DEF CopyWrite, Called, WriteState, Dirs,
                        InterestsCurrent, CopyInterest
    <3>2. wclosed'[x] = wclosed[x] /\ x # d
      BY <2>1, <3>1
    <3>3. sent'[x] = sent[x] /\ got'[x] = got[x] /\ eof'[x] = eof[x]
      BY <1>1, <2>3, <3>2 DEF CopyWrite, TypeOK
    <3> QED
      BY <3>2, <3>3
  <2>4. ASSUME NEW fd \in Fds, WouldBlock(fd) \/ IOError(fd)
        PROVE  UNCHANGED <<sent[x], got[x], wclosed[x], eof[x]>>
    BY <2>4 DEF WouldBlock, IOError
  <2> QED
    BY <2>2, <2>3, <2>4 DEF Next
<1> QED
  BY <1>1, RelayInvariant, PTL DEF Spec, QuietAfterClose

-----------------------------------------------------------------------------
\* The relay implements the abstract tunnel.

\* The end of a handler of direction d is the end of a step of the tunnel.
LEMMA ConcludeSettles ==
  ASSUME RelayInv, RelayInv', st = "COPY", NEW d \in Dirs, ~wclosed[d], Conclude(d)
  PROVE  T!Settle(d)
<1> USE DEF RelayInv
<1>1. \A x \in Dirs : /\ rd'[x] \in Int /\ wr'[x] \in Int /\ sent'[x] \in Int
                      /\ got'[x] = sent'[x] + (wr'[x] - rd'[x]) /\ rd'[x] <= wr'[x]
  BY SizeAssumption DEF TypeOK, Conservation
<1>2. ASSUME NEW x \in Dirs
      PROVE  sent'[x] = got'[x] <=> rd'[x] = wr'[x]
  <2> DEFINE a == sent'[x]
             b == wr'[x]
             c == rd'[x]
  <2>1. a \in Int /\ b \in Int /\ c \in Int /\ got'[x] = a + (b - c)
    BY <1>1
  <2> HIDE DEF a, b, c
  <2>2. a = a + (b - c) <=> c = b
    BY <2>1
  <2> QED
    BY <2>1, <2>2, Zenon DEF a, b, c
<1>3. CASE MustShut(d) /\ st' = "ERROR"
  <2>1. eof'[d] /\ rd'[d] = wr'[d]
    BY <1>1, <1>3 DEF MustShut, CanRead
  <2> QED
    BY <1>2, <1>3, <2>1 DEF T!Settle, T!Drained
<1>4. CASE st' = "DONE" /\ IsDone(wclosed')
  <2>1. \A x \in Dirs : eof'[x] /\ sent'[x] = got'[x]
    BY <1>4 DEF ClosedAfterDrain, IsDone
  <2> QED
    BY <1>4, <2>1 DEF T!Settle, T!Drained
<1>5. CASE st' = "COPY" /\ ~IsDone(wclosed')
  <2>1. PICK x \in Dirs : ~wclosed'[x]
    BY <1>5 DEF IsDone
  <2>2. ~(eof'[x] /\ rd'[x] = wr'[x])
    BY <1>5, <2>1 DEF ShutWhenDrained
  <2>3. ~(eof'[x] /\ sent'[x] = got'[x])
    BY <1>2, <2>2
  <2> QED
    BY <1>5, <2>3 DEF T!Settle, T!Drained
<1> QED
  BY <1>3, <1>4, <1>5 DEF Conclude

\* copy_read and copy_write on the two buffers implement Tunnel, for every
\* buffer size: each call is one step of the tunnel, or none.
THEOREM RelayImplementsTunnel == Spec => ImplementsTunnel
<1>1. Init => T!TunnelInit
  <2> SUFFICES ASSUME Init PROVE T!TunnelInit
    OBVIOUS
  <2>1. got \in [Dirs -> 0..BufferSize]
    BY SizeAssumption DEF Init, Dirs
  <2> QED
    BY <2>1 DEF Init, T!TunnelInit
<1>2. ASSUME RelayInv, RelayInv', [Next]_vars
      PROVE  [T!TunnelNext]_(T!tvars)
  <2> USE DEF RelayInv
  <2>1. CASE UNCHANGED vars
    BY <2>1 DEF vars, T!tvars
  <2>2. ASSUME NEW fd \in Fds, CopyRead(fd)
        PROVE  T!TunnelNext
    <3> DEFINE d == ReadState(fd)
    <3>1. d \in Dirs /\ st = "COPY" /\ Conclude(d) /\ ~eof[d]
      BY <1>2, <2>2 DEF CopyRead, Called, ReadState, Dirs, InterestsCurrent, CopyInterest
    <3>2. ~wclosed[d]
      BY <1>2, <3>1 DEF ClosedAfterDrain
    <3>3. PICK n \in 1 .. Room(d) : got' = [got EXCEPT ![d] = @ + n]
      BY <2>2 DEF CopyRead
    <3>4. UNCHANGED <<sent, eof>>
      BY <2>2 DEF CopyRead
    <3> HIDE DEF d
    <3>5. n \in 1 .. (BufferSize - (got[d] - sent[d]))
      BY <1>2, <3>1, <3>3, SizeAssumption DEF Room, TypeOK, Conservation
    <3>6. T!Settle(d)
      BY <1>2, <3>1, <3>2, ConcludeSettles
    <3>7. T!Receive(d)
      BY <3>1, <3>3, <3>4, <3>5, <3>6 DEF T!Receive
    <3> QED
      BY <3>1, <3>7 DEF T!TunnelNext
  <2>3. ASSUME NEW fd \in Fds, CopyReadEof(fd)
        PROVE  T!TunnelNext
    <3> DEFINE d == ReadState(fd)
    <3>1. d \in Dirs /\ st = "COPY" /\ Conclude(d) /\ ~eof[d]
      BY <1>2, <2>3 DEF CopyReadEof, Called, ReadState, Dirs, InterestsCurrent, CopyInterest
    <3>2. ~wclosed[d]
      BY <1>2, <3>1 DEF ClosedAfterDrain
    <3>3. eof' = [eof EXCEPT ![d] = TRUE] /\ UNCHANGED <<got, sent>>
      BY <2>3 DEF CopyReadEof
    <3> HIDE DEF d
    <3>4. T!Settle(d)
      BY <1>2, <3>1, <3>2, ConcludeSettles
    <3>5. T!FinishStream(d)
      BY <3>1, <3>3, <3>4 DEF T!FinishStream
    <3> QED
      BY <3>1, <3>5 DEF T!TunnelNext
  <2>4. ASSUME NEW fd \in Fds, CopyWrite(fd)
        PROVE  T!TunnelNext
    <3> DEFINE d == WriteState(fd)
    <3>1. d \in Dirs /\ st = "COPY" /\ Conclude(d) /\ ~wclosed[d]
      BY <1>2, <2>4 DEF CopyWrite, Called, WriteState, Dirs, InterestsCurrent, CopyInterest
    <3>2. PICK n \in 1 .. (wr[d] - rd[d]) : sent' = [sent EXCEPT ![d] = @ + n]
      BY <2>4 DEF CopyWrite
    <3>3. UNCHANGED <<got, eof>>
      BY <2>4 DEF CopyWrite
    <3> HIDE DEF d
    <3>4. n \in 1 .. (got[d] - sent[d])
      BY <1>2, <3>1, <3>2, SizeAssumption DEF TypeOK, Conservation
    <3>5. T!Settle(d)
      BY <1>2, <3>1, ConcludeSettles
    <3>6. T!Deliver(d)
      BY <3>1, <3>2, <3>3, <3>4, <3>5 DEF T!Deliver
    <3> QED
      BY <3>1, <3>6 DEF T!TunnelNext
  <2>5. ASSUME NEW fd \in Fds, WouldBlock(fd)
        PROVE  UNCHANGED T!tvars
    BY <2>5 DEF WouldBlock, T!tvars
  <2>6. ASSUME NEW fd \in Fds, IOError(fd)
        PROVE  T!TunnelNext
    BY <2>6 DEF IOError, Called, T!TunnelNext, T!Break
  <2> QED
    BY <1>2, <2>1, <2>2, <2>3, <2>4, <2>5, <2>6 DEF Next
<1> QED
  BY <1>1, <1>2, RelayInvariant, PTL DEF Spec, ImplementsTunnel, T!TunnelSpec


=============================================================================
