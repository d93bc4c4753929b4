---------------------------- MODULE Negotiation ----------------------------
(***************************************************************************)
(* One session's negotiation, byte by byte: the three parsers              *)
(* (src/shared/hello.c, auth.c, request.c) over the session's read buffer  *)
(* (src/shared/buffer.c), driven by the handlers of src/shared/socks5.c    *)
(* and by socksv5_pump.                                                    *)
(*                                                                         *)
(* The client's bytes reach recv in pieces of any size.  One step reads a  *)
(* piece, or is one iteration of the loop of a *_consume function, or one  *)
(* send; `busy' keeps the steps of one handler call together.              *)
(***************************************************************************)
EXTENDS Integers, Sequences, FiniteSets

CONSTANTS
    Streams,      \* what a client sends in its whole life: sequences of bytes
    Accounts,     \* contents the users store may have: sets of <<name, password>>
    BufferSize    \* BUFFER_SIZE

ASSUME BufferAssumption == BufferSize \in Nat /\ BufferSize >= 10
ASSUME StreamsAssumption == Streams \subseteq Seq(0..255)

VARIABLES
    stream,   \* the bytes of this client
    got,      \* how many of them recv has returned: read_buffer.write
    rd,       \* how many of them buffer_read has returned: read_buffer.read
    base,     \* which of them is at raw_read[0]
    st,       \* the state of the session
    par,      \* the parser in the union `client'
    out,      \* bytes of the reply that are left in write_buffer
    code,     \* hello.method, auth.status or request.reply
    users,    \* the users store
    busy,     \* a handler is in progress
    start,    \* history: where the message being read begins
    why       \* history: what made the session end

vars == <<stream, got, rd, base, st, par, out, code, users, busy, start, why>>

ReadStates  == {"HELLO_READ", "AUTH_READ", "REQUEST_READ"}
WriteStates == {"HELLO_WRITE", "AUTH_WRITE", "REQUEST_WRITE"}
Settled     == {"REQUEST_RESOLV", "CONNECTING", "DONE", "ERROR"}

-----------------------------------------------------------------------------
\* C data

\* uint8_t
U8(n) == n % 256

\* a[i] = byte, for an array of which only the cells written are kept
Store(a, i, byte) == [j \in DOMAIN a \cup {i} |-> IF j = i THEN byte ELSE a[j]]

\* What the str* functions see of an array: its cells before the first zero.
CString(a) ==
    LET end == CHOOSE k \in DOMAIN a : a[k] = 0 /\ \A j \in 0..(k - 1) : a[j] # 0
    IN  [i \in 1..end |-> a[i - 1]]

NoCells == [i \in {} |-> 0]

-----------------------------------------------------------------------------
\* The parsers: their initial state, and the effect of one byte

HelloInit == [ps |-> "version", rem |-> 0, offered |-> {}]

\* hello_consume, with on_hello_method
HelloByte(p, byte) ==
    CASE p.ps = "version" ->
           [p EXCEPT !.ps = IF byte = 5 THEN "nmethods" ELSE "error"]
      [] p.ps = "nmethods" ->
           [p EXCEPT !.ps = IF byte = 0 THEN "error" ELSE "methods", !.rem = byte]
      [] p.ps = "methods" ->
           [p EXCEPT !.offered = @ \cup ({byte} \cap {0, 2}),
                     !.rem = U8(@ - 1), !.ps = IF p.rem = 1 THEN "done" ELSE @]

AuthInit ==
    [ps |-> "ver", rem |-> 0, ulen |-> 0, plen |-> 0, uname |-> NoCells, passwd |-> NoCells]

\* auth_consume
AuthByte(p, byte) ==
    LET length(next) == IF byte = 0 THEN "error" ELSE next
        last == p.rem = 1
        ended(a, len) == IF last THEN Store(a, len, 0) ELSE a
    IN  CASE p.ps = "ver"   -> [p EXCEPT !.ps = IF byte = 1 THEN "ulen" ELSE "error"]
          [] p.ps = "ulen"  -> [p EXCEPT !.ps = length("uname"), !.ulen = byte, !.rem = byte]
          [] p.ps = "uname" ->
               [p EXCEPT !.uname = ended(Store(@, p.ulen - p.rem, byte), p.ulen),
                         !.rem = U8(@ - 1), !.ps = IF last THEN "plen" ELSE @]
          [] p.ps = "plen"  -> [p EXCEPT !.ps = length("passwd"), !.plen = byte, !.rem = byte]
          [] p.ps = "passwd" ->
               [p EXCEPT !.passwd = ended(Store(@, p.plen - p.rem, byte), p.plen),
                         !.rem = U8(@ - 1), !.ps = IF last THEN "done" ELSE @]

IPv4 == 1
FQDN == 3
IPv6 == 4

\* (mutant) the limit of a label for the limit of a name.
LabelLen == 63

MaxFqdnLen == 255

RequestInit ==
    [ps |-> "version", rem |-> 0, read |-> 0, type |-> 0, addr |-> NoCells, port |-> 0]

\* SOCKS_ATYP_*_LEN; the length of a name is not yet read
AddrLen(type) == CASE type = IPv4 -> 4 [] type = IPv6 -> 16 [] type = FQDN -> 0

\* One byte of the address; the array of a name is closed with a zero.
AddrByte(p, byte) ==
    LET last == p.rem = 1
        put  == Store(p.addr, p.read, byte)
    IN  [p EXCEPT !.addr = IF last /\ p.type = FQDN THEN Store(put, U8(p.read + 1), 0) ELSE put,
                  !.rem = U8(@ - 1),
                  !.read = IF last THEN 0 ELSE U8(@ + 1),
                  !.ps = IF last THEN "dst_port" ELSE @]

\* request_consume
RequestByte(p, byte) ==
    CASE p.ps = "version" -> [p EXCEPT !.ps = IF byte = 5 THEN "cmd" ELSE "error"]
      [] p.ps = "cmd"  -> [p EXCEPT !.ps = IF byte = 1 THEN "rsv" ELSE "unsupported_cmd"]
      [] p.ps = "rsv"  -> [p EXCEPT !.ps = "atyp"]
      [] p.ps = "atyp" ->
           IF byte \in {IPv4, IPv6, FQDN}
           THEN [p EXCEPT !.type = byte, !.read = 0, !.rem = AddrLen(byte), !.ps = "dst_addr"]
           ELSE [p EXCEPT !.type = byte, !.read = 0, !.ps = "unsupported_atyp"]
      [] p.ps = "dst_addr" /\ p.type = FQDN /\ p.rem = 0 ->
           IF byte = 0 THEN [p EXCEPT !.ps = "error"] ELSE [p EXCEPT !.rem = byte, !.read = 0]
      [] p.ps = "dst_addr" /\ ~(p.type = FQDN /\ p.rem = 0) ->
           IF p.type = FQDN /\ p.read >= MaxFqdnLen
           THEN [p EXCEPT !.ps = "error"] ELSE AddrByte(p, byte)
      [] p.ps = "dst_port" ->
           IF p.read = 0 THEN [p EXCEPT !.port = 256 * byte, !.read = 1]
           ELSE [p EXCEPT !.port = @ + byte, !.read = 0, !.ps = "done"]

Final == {"done", "error", "unsupported_cmd", "unsupported_atyp"}

\* stm jump: on_arrival of the state entered
Fresh(state) ==
    CASE state = "HELLO_READ" -> HelloInit
      [] state = "AUTH_READ"  -> AuthInit
      [] state = "REQUEST_READ" -> RequestInit

-----------------------------------------------------------------------------
Init ==
    /\ stream \in Streams /\ users \in Accounts
    /\ got = 0 /\ rd = 0 /\ base = 0
    /\ st = "HELLO_READ" /\ par = HelloInit
    /\ out = 0 /\ code = 255
    /\ busy = FALSE /\ start = 0 /\ why = "alive"

\* buffer_can_read(&s->read_buffer)
CanRead == rd < got

\* What buffer_write_ptr says can be written.
Available == BufferSize - (got - base)

\* A handler or the pump ends the session.
Fail(reason) == st' = "ERROR" /\ why' = reason /\ busy' = FALSE

\* The recv at the top of hello_read, auth_read and request_read.
Recv ==
    /\ ~busy /\ st \in ReadStates /\ ~CanRead
    /\ \E n \in 1..Available :
         got + n <= Len(stream) /\ got' = got + n
    /\ busy' = TRUE
    /\ UNCHANGED <<stream, rd, base, st, par, out, code, users, start, why>>

\* recv returns 0: the client has sent all and closed, or zero bytes were asked for.
RecvEnds ==
    /\ ~busy /\ st \in ReadStates /\ ~CanRead
    /\ got = Len(stream) \/ Available = 0
    /\ Fail("peer")
    /\ UNCHANGED <<stream, got, rd, base, par, out, code, users, start>>

\* recv fails: the client reset the connection.
RecvFails ==
    /\ ~busy /\ st \in ReadStates /\ ~CanRead
    /\ Fail("peer")
    /\ UNCHANGED <<stream, got, rd, base, par, out, code, users, start>>

\* (mutant) what is left in the buffer is thrown away with the message.
ReadByteFlushing ==
    IF par.ps = "methods" /\ par.rem = 1 THEN rd' = got /\ base' = got
    ELSE rd' = rd + 1 /\ base' = IF rd + 1 = got THEN got ELSE base

\* buffer_read: when the last byte is taken the pointers return to the beginning.
ReadByte == rd' = rd + 1 /\ base' = IF rd + 1 = got THEN got ELSE base

\* hello_process
Method(offered) ==
    CASE users # {} /\ 2 \in offered -> 2
      [] users = {} /\ 0 \in offered -> 0
      [] OTHER -> 255

\* users_check: an entry with this name and this password
UsersCheck(name, pass) == <<name, pass>> \in users

\* auth_process
Status(p) == IF UsersCheck(CString(p.uname), CString(p.passwd)) THEN 0 ELSE 1

\* The message is complete: the reply is in write_buffer and the handler returns
\* the next state.  (That buffer is empty before a reply and holds 10 bytes.)
HelloMarshall(method)  == st' = "HELLO_WRITE" /\ out' = 2 /\ code' = method
AuthMarshall(status)   == st' = "AUTH_WRITE" /\ out' = 2 /\ code' = status
RequestMarshall(reply) == st' = "REQUEST_WRITE" /\ out' = 10 /\ code' = reply

\* request_process; a name is given to the DNS thread, unless there is no memory
\* for the job
RequestProcess(p) ==
    CASE p.ps = "unsupported_cmd"  -> RequestMarshall(7)
      [] p.ps = "unsupported_atyp" -> RequestMarshall(8)
      [] p.ps = "done" /\ p.type = FQDN ->
           \/ st' = "REQUEST_RESOLV" /\ code' = 1 /\ UNCHANGED out
           \/ RequestMarshall(1)
      [] p.ps = "done" /\ p.type # FQDN ->
           st' = "CONNECTING" /\ code' = 1 /\ UNCHANGED out

Process(p) ==
    CASE st = "HELLO_READ" -> HelloMarshall(Method(p.offered))
      [] st = "AUTH_READ"  -> AuthMarshall(Status(p))
      [] st = "REQUEST_READ" -> RequestProcess(p)

\* The parser's step for a byte in each of the three states.
Parsed(byte) ==
    CASE st = "HELLO_READ" -> HelloByte(par, byte)
      [] st = "AUTH_READ"  -> AuthByte(par, byte)
      [] st = "REQUEST_READ" -> RequestByte(par, byte)

\* After a byte the loop goes on, or the handler returns and the pump goes on.
More(p) == p.ps \in Final \/ rd + 1 < got

\* One iteration of a *_consume loop, and what the handler does when it ends.
Consume ==
    /\ busy /\ st \in ReadStates /\ CanRead
    /\ ReadByte
    /\ LET p == Parsed(stream[rd + 1]) IN
       /\ par' = p
       /\ \/ p.ps = "error" /\ Fail("parser") /\ UNCHANGED <<out, code>>
          \/ p.ps \in Final \ {"error"} /\ Process(p) /\ busy' = TRUE /\ UNCHANGED why
          \/ p.ps \notin Final /\ busy' = More(p) /\ UNCHANGED <<st, out, code, why>>
    /\ UNCHANGED <<stream, got, users, start>>

\* The state after each of the replies; of the last one only errors are sent here.
AfterHello == CASE code = 255 -> "DONE" [] code = 2 -> "AUTH_READ" [] code = 0 -> "REQUEST_READ"
AfterAuth  == IF code = 0 THEN "REQUEST_READ" ELSE "DONE"
AfterReply ==
    CASE st = "HELLO_WRITE" -> AfterHello
      [] st = "AUTH_WRITE" -> AfterAuth
      [] st = "REQUEST_WRITE" -> "DONE"

\* (mutant) the pump stops when the reply is out; buffered bytes wait for the selector.
PumpsNever(state) == FALSE

\* socksv5_pump goes on with bytes that are already in the buffer.
Pumps(state) == state \in ReadStates /\ CanRead

\* hello_write, auth_write, request_write: called by the pump, or by the selector.
WriteAll ==
    /\ st \in WriteStates
    /\ LET next == AfterReply IN
       /\ st' = next /\ out' = 0
       /\ busy' = Pumps(next)
       /\ IF next \in ReadStates THEN par' = Fresh(next) /\ start' = rd
          ELSE UNCHANGED <<par, start>>
       /\ why' = IF next = "DONE" THEN "refused" ELSE why
    /\ UNCHANGED <<stream, got, rd, base, code, users>>

\* send takes a part, or nothing (EAGAIN): the rest waits for the selector.
WritePart ==
    /\ st \in WriteStates
    /\ out' \in 1..out
    /\ busy' = FALSE
    /\ UNCHANGED <<stream, got, rd, base, st, par, code, users, start, why>>

WriteFails ==
    /\ st \in WriteStates
    /\ Fail("peer")
    /\ UNCHANGED <<stream, got, rd, base, par, out, code, users, start>>

\* In CONNECTING and REQUEST_RESOLV the negotiation is over for this module.
Rests ==
    /\ busy /\ st \in Settled
    /\ busy' = FALSE
    /\ UNCHANGED <<stream, got, rd, base, st, par, out, code, users, start, why>>

\* An administrator changes the store between two events.
Administer ==
    /\ ~busy /\ st \notin Settled
    /\ users' \in Accounts
    /\ UNCHANGED <<stream, got, rd, base, st, par, out, code, busy, start, why>>

Next ==
    \/ Recv \/ RecvEnds \/ RecvFails \/ Consume
    \/ WriteAll \/ WritePart \/ WriteFails \/ Rests \/ Administer

Spec == Init /\ [][Next]_vars

-----------------------------------------------------------------------------
\* The reference: what a message that begins after `start' says, read as a whole.

At(i) == stream[start + i]

\* RFC 1928 section 3, RFC 1929 section 2 and RFC 1928 section 4, as lengths.
HelloLen == 2 + At(2)
AuthLen  == LET ulen == At(2) IN 3 + ulen + At(3 + ulen)
RequestLen ==
    CASE At(4) = IPv4 -> 10
      [] At(4) = IPv6 -> 22
      [] At(4) = FQDN -> 7 + At(5)

Bytes(from, n) == SubSeq(stream, start + from, start + from + n - 1)

\* The bytes of a field before its first zero.
Cut(s) == IF \E i \in 1..Len(s) : s[i] = 0
          THEN SubSeq(s, 1, (CHOOSE k \in 1..Len(s) : s[k] = 0 /\ \A j \in 1..(k - 1) : s[j] # 0) - 1)
          ELSE s

\* The number of the first byte, of n, that makes a message one to refuse; 0 for none.
HelloBad(n) ==
    IF n >= 1 /\ At(1) # 5 THEN 1 ELSE IF n >= 2 /\ At(2) = 0 THEN 2 ELSE 0
AuthBad(n) ==
    IF n >= 1 /\ At(1) # 1 THEN 1
    ELSE IF n >= 2 /\ At(2) = 0 THEN 2
    ELSE IF n >= 3 /\ n >= 3 + At(2) /\ At(3 + At(2)) = 0 THEN 3 + At(2) ELSE 0
RequestBad(n) ==
    IF n >= 1 /\ At(1) # 5 THEN 1
    ELSE IF n >= 2 /\ At(2) # 1 THEN 2
    ELSE IF n >= 4 /\ At(4) \notin {IPv4, IPv6, FQDN} THEN 4
    ELSE IF n >= 5 /\ At(4) = FQDN /\ At(5) = 0 THEN 5 ELSE 0

\* Whether n bytes hold the whole message.
HelloWhole(n)   == n >= 2 /\ n >= HelloLen
AuthWhole(n)    == n >= 2 /\ n >= 3 + At(2) /\ n >= AuthLen
RequestWhole(n) == n >= 5 /\ n >= RequestLen

Read == rd - start

-----------------------------------------------------------------------------
TypeOK ==
    /\ stream \in Streams /\ users \in Accounts
    /\ 0 <= base /\ base <= rd /\ rd <= got /\ got <= Len(stream)
    /\ got - base <= BufferSize
    /\ st \in ReadStates \cup WriteStates \cup Settled
    /\ par.rem \in 0..255
    /\ out \in 0..10 /\ code \in 0..255 /\ busy \in BOOLEAN
    /\ start \in 0..rd /\ why \in {"alive", "peer", "parser", "refused"}

(***************************************************************************)
(* docs/design.md:65: however the client's bytes are cut into pieces, the  *)
(* session decodes the methods, the name and password and the destination  *)
(* that the messages say as a whole (names end at a zero byte, as the C    *)
(* strings they are stored in), and takes no byte of what comes after.     *)
(***************************************************************************)
Decoded ==
    /\ TypeOK
    /\ st = "HELLO_WRITE" =>
         /\ Read = HelloLen
         /\ par.offered = {At(i) : i \in 3..HelloLen} \cap {0, 2}
    /\ st = "AUTH_WRITE" =>
         /\ Read = AuthLen
         /\ CString(par.uname) = Cut(Bytes(3, At(2)))
         /\ CString(par.passwd) = Cut(Bytes(4 + At(2), At(3 + At(2))))
    /\ st \in {"CONNECTING", "REQUEST_RESOLV"} =>
         /\ Read = RequestLen
         /\ par.port = 256 * At(RequestLen - 1) + At(RequestLen)
         /\ par.type = At(4)
         /\ IF st = "REQUEST_RESOLV"
            THEN At(4) = FQDN /\ CString(par.addr) = Cut(Bytes(6, At(5)))
            ELSE At(4) # FQDN /\ \A i \in 5..(RequestLen - 2) : par.addr[i - 5] = At(i)

(***************************************************************************)
(* A message is refused at its first byte that is wrong, and no other is:  *)
(* a parser error, a reply 07 and a reply 08 each say what that byte was.  *)
(***************************************************************************)
RefusedExactly ==
    LET bad == CASE par.ps \in {"unsupported_cmd", "unsupported_atyp"} -> RequestBad(Read)
                 [] "offered" \in DOMAIN par -> HelloBad(Read)
                 [] "uname" \in DOMAIN par   -> AuthBad(Read)
                 [] OTHER -> RequestBad(Read)
    IN  /\ why = "parser" => bad = Read
        /\ par.ps = "unsupported_cmd"  <=> ("port" \in DOMAIN par /\ bad = 2)
        /\ par.ps = "unsupported_atyp" <=> ("port" \in DOMAIN par /\ bad = 4)
        /\ why = "alive" /\ st # "REQUEST_WRITE" => bad = 0

(***************************************************************************)
(* docs/design.md:77: bytes of the next message that came with this one    *)
(* are not left waiting.  When the session goes back to the selector to    *)
(* wait for the client, what it has of the message is not all of it, and   *)
(* there is room in the buffer for more: a recv of zero bytes would return *)
(* 0, which is taken for the end of the client.                            *)
(***************************************************************************)
NothingLeftWaiting ==
    ~busy /\ st \in ReadStates =>
        /\ ~CanRead /\ Available > 0
        /\ CASE st = "HELLO_READ"   -> ~HelloWhole(Read)
             [] st = "AUTH_READ"    -> ~AuthWhole(Read)
             [] st = "REQUEST_READ" -> ~RequestWhole(Read)

-----------------------------------------------------------------------------
\* What a parser that was given n bytes of a message knows of them, however they
\* came: the inductive invariant from which the properties above follow.

\* The stream from where the message begins.
Message == [i \in 1..(Len(stream) - start) |-> stream[start + i]]

\* An array with the n bytes of a that follow the first k, and one that is closed.
Cells(a, k, n)  == [j \in 0..(n - 1) |-> a[k + 1 + j]]
Closed(a, k, n) == [j \in 0..n |-> IF j = n THEN 0 ELSE a[k + 1 + j]]

HelloState(ps, rem, offered) == [ps |-> ps, rem |-> rem, offered |-> offered]

Offers(a, n) == {a[i] : i \in 3..n} \cap {0, 2}

HelloKnows(a, n, p) ==
    \/ n = 0 /\ p = HelloInit
    \/ n = 1 /\ p = HelloState(IF a[1] = 5 THEN "nmethods" ELSE "error", 0, {})
    \/ n = 2 /\ a[1] = 5 /\ a[2] = 0 /\ p = HelloState("error", 0, {})
    \/ /\ n >= 2 /\ a[1] = 5 /\ a[2] # 0 /\ n <= 2 + a[2]
       /\ p = HelloState(IF n = 2 + a[2] THEN "done" ELSE "methods", 2 + a[2] - n, Offers(a, n))

AuthState(ps, rem, ulen, plen, uname, passwd) ==
    [ps |-> ps, rem |-> rem, ulen |-> ulen, plen |-> plen, uname |-> uname, passwd |-> passwd]

\* The user's name, and then the password, of a login that is right so far.
NameKnows(a, n, p) ==
    \/ n < 2 + a[2] /\ p = AuthState("uname", 2 + a[2] - n, a[2], 0, Cells(a, 2, n - 2), NoCells)
    \/ n = 2 + a[2] /\ p = AuthState("plen", 0, a[2], 0, Closed(a, 2, a[2]), NoCells)

PasswordKnows(a, u, n, p) ==
    LET b == a[3 + u]
        name == Closed(a, 2, u)
    IN  \/ n = 3 + u /\ b = 0 /\ p = AuthState("error", 0, u, 0, name, NoCells)
        \/ b # 0 /\ n < 3 + u + b
             /\ p = AuthState("passwd", 3 + u + b - n, u, b, name, Cells(a, 3 + u, n - 3 - u))
        \/ b # 0 /\ n = 3 + u + b
             /\ p = AuthState("done", 0, u, b, name, Closed(a, 3 + u, b))

AuthKnows(a, n, p) ==
    \/ n = 0 /\ p = AuthInit
    \/ n = 1 /\ p = AuthState(IF a[1] = 1 THEN "ulen" ELSE "error", 0, 0, 0, NoCells, NoCells)
    \/ n = 2 /\ a[1] = 1 /\ a[2] = 0 /\ p = AuthState("error", 0, 0, 0, NoCells, NoCells)
    \/ /\ n >= 2 /\ a[1] = 1 /\ a[2] # 0
       /\ NameKnows(a, n, p) \/ (n >= 3 + a[2] /\ PasswordKnows(a, a[2], n, p))

RequestState(ps, rem, read, type, addr, port) ==
    [ps |-> ps, rem |-> rem, read |-> read, type |-> type, addr |-> addr, port |-> port]

HeadKnows(a, n, p) ==
    \/ n = 0 /\ p = RequestInit
    \/ n = 1 /\ p = RequestState(IF a[1] = 5 THEN "cmd" ELSE "error", 0, 0, 0, NoCells, 0)
    \/ n = 2 /\ a[1] = 5
         /\ p = RequestState(IF a[2] = 1 THEN "rsv" ELSE "unsupported_cmd", 0, 0, 0, NoCells, 0)
    \/ n = 3 /\ a[1] = 5 /\ a[2] = 1 /\ p = RequestState("atyp", 0, 0, 0, NoCells, 0)
    \/ n = 4 /\ a[1] = 5 /\ a[2] = 1 /\ a[4] \notin {IPv4, IPv6, FQDN}
         /\ p = RequestState("unsupported_atyp", 0, 0, a[4], NoCells, 0)

\* The len bytes of an address that follow the first k bytes, and the port.
AddressKnows(a, k, len, n, p) ==
    \/ n < k + len
         /\ p = RequestState("dst_addr", k + len - n, n - k, a[4], Cells(a, k, n - k), 0)
    \/ LET addr == IF a[4] = FQDN THEN Closed(a, k, len) ELSE Cells(a, k, len)
           high == 256 * a[k + len + 1]
       IN  \/ n = k + len /\ p = RequestState("dst_port", 0, 0, a[4], addr, 0)
           \/ n = k + len + 1 /\ p = RequestState("dst_port", 0, 1, a[4], addr, high)
           \/ n = k + len + 2
                /\ p = RequestState("done", 0, 0, a[4], addr, high + a[k + len + 2])

RequestKnows(a, n, p) ==
    \/ HeadKnows(a, n, p)
    \/ /\ n >= 4 /\ a[1] = 5 /\ a[2] = 1
       /\ \/ a[4] = IPv4 /\ AddressKnows(a, 4, 4, n, p)
          \/ a[4] = IPv6 /\ AddressKnows(a, 4, 16, n, p)
          \/ a[4] = FQDN /\ n = 4 /\ p = RequestState("dst_addr", 0, 0, FQDN, NoCells, 0)
          \/ a[4] = FQDN /\ n = 5 /\ a[5] = 0
               /\ p = RequestState("error", 0, 0, FQDN, NoCells, 0)
          \/ a[4] = FQDN /\ n >= 5 /\ a[5] # 0 /\ AddressKnows(a, 5, a[5], n, p)

\* The buffer, and who goes on with what is in it.
BufferInv ==
    /\ stream \in Streams /\ users \in Accounts
    /\ base \in Nat /\ rd \in Nat /\ got \in Nat /\ start \in Nat
    /\ start <= rd /\ base <= rd /\ rd <= got /\ got <= Len(stream)
    /\ got - base <= BufferSize
    /\ rd = got => base = got
    /\ st \in ReadStates => (busy <=> rd < got)

\* The session's state, its parser and why it ended.
SessionInv ==
    /\ st \in ReadStates \cup WriteStates \cup Settled
    /\ out \in 0..10 /\ code \in {0, 1, 2, 7, 8, 255} /\ busy \in BOOLEAN
    /\ why \in {"alive", "peer", "parser", "refused"}
    /\ st = "HELLO_WRITE" => code \in {0, 2, 255}
    /\ st \in ReadStates => par.ps \notin Final
    /\ st \in {"HELLO_WRITE", "AUTH_WRITE", "CONNECTING", "REQUEST_RESOLV"} => par.ps = "done"
    /\ st = "REQUEST_WRITE" => par.ps \in Final \ {"error"}
    /\ st = "REQUEST_RESOLV" => par.type = FQDN
    /\ st = "CONNECTING" => par.type # FQDN
    /\ why = "parser" <=> par.ps = "error"
    /\ st = "ERROR" \/ why = "alive" \/ why = "refused"
    /\ par.ps \in {"unsupported_cmd", "unsupported_atyp"} /\ why = "alive" => st = "REQUEST_WRITE"

ParserInv ==
    /\ \/ HelloKnows(Message, Read, par)
       \/ AuthKnows(Message, Read, par)
       \/ RequestKnows(Message, Read, par)
    /\ st \in {"HELLO_READ", "HELLO_WRITE"} => HelloKnows(Message, Read, par)
    /\ st \in {"AUTH_READ", "AUTH_WRITE"} => AuthKnows(Message, Read, par)
    /\ st \in {"REQUEST_READ", "REQUEST_WRITE", "REQUEST_RESOLV", "CONNECTING"} =>
         RequestKnows(Message, Read, par)

NegotiationInv == BufferInv /\ SessionInv /\ ParserInv

=============================================================================
