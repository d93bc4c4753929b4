------------------------------ MODULE CopyRelay -----------------------------
(***************************************************************************)
(* The COPY state of a session (copy_* in src/shared/socks5.c) on the      *)
(* buffers of src/shared/buffer.c.  Direction "c2o" is s->client.copy (it  *)
(* reads client_fd and writes origin_fd), "o2c" is s->orig.copy.  A buffer *)
(* is its two pointers, as offsets from `data'; a byte is counted, its     *)
(* value left out.  An action is one call of copy_read or copy_write.      *)
(***************************************************************************)
EXTENDS Integers

CONSTANTS
    BufferSize,   \* BUFFER_SIZE
    MaxBytes      \* bound: bytes each end sends through the tunnel

ASSUME SizeAssumption == BufferSize \in Nat \ {0} /\ MaxBytes \in Nat

Dirs == {"c2o", "o2c"}
Fds  == {"client", "origin"}

\* copy_read_state and copy_write_state.
ReadState(fd)  == IF fd = "client" THEN "c2o" ELSE "o2c"
WriteState(fd) == IF fd = "client" THEN "o2c" ELSE "c2o"

VARIABLES
    rd, wr,    \* [Dirs -> offset]: the buffer's read and write pointers
    eof,       \* [Dirs -> BOOLEAN]
    wclosed,   \* [Dirs -> BOOLEAN]: write_closed
    got,       \* [Dirs -> Nat]: bytes read from the sending end, a history
    sent,      \* [Dirs -> Nat]: transferred, and the share of bytes_c2o/o2c
    interest,  \* [Fds -> SUBSET {"R", "W"}]
    st         \* "COPY", "DONE" or "ERROR"

vars == <<rd, wr, eof, wclosed, got, sent, interest, st>>

CanRead(d, r, w)  == r[d] < w[d]          \* buffer_can_read
CanWrite(d, w)    == w[d] < BufferSize    \* buffer_can_write

\* (mutant) nothing more is written once the sending end has closed.
CopyInterestEof(fd, r, w, e, c) ==
    LET in == ReadState(fd) out == WriteState(fd) IN
    (IF ~e[in] /\ CanWrite(in, w) THEN {"R"} ELSE {})
      \cup (IF ~e[out] /\ CanRead(out, r, w) THEN {"W"} ELSE {})

\* (mutant) the end of the stream is forgotten.
CopyInterestReread(fd, r, w, e, c) ==
    LET in == ReadState(fd) out == WriteState(fd) IN
    (IF CanWrite(in, w) THEN {"R"} ELSE {})
      \cup (IF ~c[out] /\ CanRead(out, r, w) THEN {"W"} ELSE {})

\* (mutant) the fd is read whether or not there is room.
CopyInterestGreedy(fd, r, w, e, c) ==
    LET in == ReadState(fd) out == WriteState(fd) IN
    (IF ~e[in] THEN {"R"} ELSE {})
      \cup (IF ~c[out] /\ CanRead(out, r, w) THEN {"W"} ELSE {})

\* copy_client_interest and copy_origin_interest
CopyInterest(fd, r, w, e, c) ==
    LET in == ReadState(fd) out == WriteState(fd) IN
    (IF ~e[in] /\ CanWrite(in, w) THEN {"R"} ELSE {})
      \cup (IF ~c[out] /\ CanRead(out, r, w) THEN {"W"} ELSE {})

\* copy_update_interests, on the values the handler leaves.
UpdateInterests ==
    interest' = [fd \in Fds |-> CopyInterest(fd, rd', wr', eof', wclosed')]

\* copy_init: read_buffer may hold what the client sent ahead of the reply, at
\* any place; write_buffer was emptied, hence reset, by the reply's last send.
Init ==
    /\ \E r \in 0..BufferSize, w \in 0..BufferSize :
         /\ r < w \/ (r = 0 /\ w = 0)
         /\ w - r <= MaxBytes
         /\ rd = [d \in Dirs |-> IF d = "c2o" THEN r ELSE 0]
         /\ wr = [d \in Dirs |-> IF d = "c2o" THEN w ELSE 0]
         /\ got = [d \in Dirs |-> IF d = "c2o" THEN w - r ELSE 0]
    /\ eof = [d \in Dirs |-> FALSE]
    /\ wclosed = [d \in Dirs |-> FALSE]
    /\ sent = [d \in Dirs |-> 0]
    /\ interest = [fd \in Fds |-> CopyInterest(fd, rd, wr, eof, wclosed)]
    /\ st = "COPY"

\* (mutant) the shutdown does not wait for the buffer to drain.
MustShutEarly(d) == eof'[d] /\ ~wclosed[d]

\* The condition of copy_shutdown_write, on the values the handler leaves.
MustShut(d) == eof'[d] /\ ~CanRead(d, rd', wr') /\ ~wclosed[d]

\* (mutant) one closed direction ends the relay.
IsDoneHalf(c) == \E d \in Dirs : c[d]

\* copy_is_done
IsDone(c) == \A d \in Dirs : c[d]

\* copy_shutdown_write, copy_is_done and the last copy_update_interests of a
\* handler of direction d; shutdown(2) may fail.
Conclude(d) ==
    \/ /\ wclosed' = [wclosed EXCEPT ![d] = @ \/ MustShut(d)]
       /\ IF IsDone(wclosed')
          THEN st' = "DONE" /\ UNCHANGED interest
          ELSE UNCHANGED st /\ UpdateInterests
    \/ /\ MustShut(d)
       /\ st' = "ERROR" /\ UNCHANGED <<wclosed, interest>>

\* handle_iteration found the fd ready and still wanted.
Called(fd, dir) == st = "COPY" /\ dir \in interest[fd]

\* recv or send failed for good.
IOError(fd) ==
    /\ \E dir \in {"R", "W"} : Called(fd, dir)
    /\ st' = "ERROR"
    /\ UNCHANGED <<rd, wr, eof, wclosed, got, sent, interest>>

\* recv or send would block: the interests are computed again.
WouldBlock(fd) ==
    /\ \E dir \in {"R", "W"} : Called(fd, dir)
    /\ UNCHANGED <<rd, wr, eof, wclosed, got, sent, st>>
    /\ UpdateInterests

\* buffer_write_ptr: how much recv may read.
Room(d) == BufferSize - wr[d]

\* copy_read: n bytes arrived.  NoSpin shows that the branches before recv and
\* before send, for a full and for an empty buffer, are never taken.
CopyRead(fd) ==
    LET d == ReadState(fd) IN
    /\ Called(fd, "R")
    /\ \E n \in 1 .. Room(d) :
         /\ got[d] + n <= MaxBytes
         /\ wr' = [wr EXCEPT ![d] = @ + n]
         /\ got' = [got EXCEPT ![d] = @ + n]
    /\ UNCHANGED <<rd, eof, sent>>
    /\ Conclude(d)

\* copy_read: recv returned 0.
CopyReadEof(fd) ==
    LET d == ReadState(fd) IN
    /\ Called(fd, "R")
    /\ eof' = [eof EXCEPT ![d] = TRUE]
    /\ UNCHANGED <<rd, wr, got, sent>>
    /\ Conclude(d)

\* (mutant) the write pointer is not reset with the read pointer.
ReadAdvHalf(d, n) ==
    IF rd[d] + n = wr[d]
    THEN rd' = [rd EXCEPT ![d] = 0] /\ UNCHANGED wr
    ELSE rd' = [rd EXCEPT ![d] = @ + n] /\ UNCHANGED wr

\* buffer_read_adv by n: an empty buffer starts again at `data'.
ReadAdv(d, n) ==
    IF rd[d] + n = wr[d]
    THEN rd' = [rd EXCEPT ![d] = 0] /\ wr' = [wr EXCEPT ![d] = 0]
    ELSE rd' = [rd EXCEPT ![d] = @ + n] /\ UNCHANGED wr

\* copy_write: send took n bytes.
CopyWrite(fd) ==
    LET d == WriteState(fd) IN
    /\ Called(fd, "W")
    /\ \E n \in 1 .. (wr[d] - rd[d]) :
         /\ ReadAdv(d, n)
         /\ sent' = [sent EXCEPT ![d] = @ + n]
    /\ UNCHANGED <<eof, got>>
    /\ Conclude(d)

Next == \E fd \in Fds : CopyRead(fd) \/ CopyReadEof(fd) \/ CopyWrite(fd)
                          \/ WouldBlock(fd) \/ IOError(fd)

Spec == Init /\ [][Next]_vars

\* The ends go on taking what is sent to them, and each one sends what it has
\* and closes its stream in the end; the loop serves an fd that stays ready.
FairSpec ==
    /\ Spec
    /\ \A fd \in Fds : /\ WF_vars(CopyWrite(fd))
                       /\ WF_vars(CopyRead(fd) \/ CopyReadEof(fd))

-----------------------------------------------------------------------------
\* Properties.

TypeOK ==
    /\ rd \in [Dirs -> 0..BufferSize] /\ wr \in [Dirs -> 0..BufferSize]
    /\ eof \in [Dirs -> BOOLEAN] /\ wclosed \in [Dirs -> BOOLEAN]
    /\ got \in [Dirs -> Nat] /\ sent \in [Dirs -> Nat]
    /\ interest \in [Fds -> SUBSET {"R", "W"}]
    /\ st \in {"COPY", "DONE", "ERROR"}

\* No byte is lost or repeated: what was read and not yet sent is what lies
\* between the pointers of the buffer, across resets and partial sends.
Conservation ==
    \A d \in Dirs : rd[d] <= wr[d] /\ got[d] = sent[d] + (wr[d] - rd[d])

\* The end of a stream is passed on (SHUT_WR) only after every byte before it
\* was sent, and the relay is DONE only after that happened both ways.
ClosedAfterDrain ==
    /\ \A d \in Dirs : wclosed[d] => eof[d] /\ sent[d] = got[d]
    /\ st = "DONE" => \A d \in Dirs : wclosed[d]

\* A direction that is not over always has an fd in the fd sets that will move
\* it: its reading end while there is room, or else its writing end.
NoStall ==
    st = "COPY" => \A fd \in Fds : LET d == ReadState(fd) IN
        \/ wclosed[d]
        \/ "R" \in interest[fd] /\ ~eof[d]
        \/ \E o \in Fds : WriteState(o) = d /\ "W" \in interest[o]

\* Backpressure without spinning: an fd is only watched when its handler can do
\* something, so a full buffer stops reading and an empty one stops writing.
NoSpin ==
    st = "COPY" => \A fd \in Fds :
        /\ "R" \in interest[fd] => wr[ReadState(fd)] < BufferSize
        /\ "W" \in interest[fd] => rd[WriteState(fd)] < wr[WriteState(fd)]

\* After shutdown(SHUT_WR) nothing is written to that fd and nothing more is
\* read for it.
QuietAfterClose ==
    [][\A d \in Dirs : wclosed[d] => UNCHANGED <<sent[d], got[d], wclosed[d], eof[d]>>]_vars

\* The relay comes to its end, and with it both half-closes reach the other side:
\* DONE is only entered then (ClosedAfterDrain).
Finishes == <>(st # "COPY")

-----------------------------------------------------------------------------
(***************************************************************************)
(* The inductive invariant behind the properties: besides the pointers and *)
(* the counts, an empty buffer starts at `data' (so a buffer without room  *)
(* has something to send), a drained direction is shut in the same step,   *)
(* and the fd sets are those of the present buffers.                       *)
(***************************************************************************)
EmptyIsReset == \A d \in Dirs : rd[d] = wr[d] => rd[d] = 0

ShutWhenDrained ==
    st = "COPY" => \A d \in Dirs : eof[d] /\ rd[d] = wr[d] => wclosed[d]

InterestsCurrent ==
    st = "COPY" => \A fd \in Fds : interest[fd] = CopyInterest(fd, rd, wr, eof, wclosed)

RelayInv ==
    /\ TypeOK /\ Conservation /\ ClosedAfterDrain
    /\ EmptyIsReset /\ ShutWhenDrained /\ InterestsCurrent
    /\ st = "COPY" => ~IsDone(wclosed)

\* The relay is the tunnel of module Tunnel.
T == INSTANCE Tunnel
       WITH Capacity <- BufferSize, fin <- eof,
            state <- IF st = "COPY" THEN "open" ELSE IF st = "DONE" THEN "closed" ELSE "failed"

\* copy_read and copy_write on the two buffers implement Tunnel: the capacity
\* is never exceeded, an end of stream is never passed on early, and the relay
\* is DONE in the very step that drains its second direction.
ImplementsTunnel == T!TunnelSpec

=============================================================================
