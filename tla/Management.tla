----------------------------- MODULE Management -----------------------------
(***************************************************************************)
(* The management service (src/server/mng.c): sessions that read request   *)
(* lines from a TCP connection and answer each one, with the users store   *)
(* (src/shared/users.c), the configuration (src/shared/config.c) and the   *)
(* count of sessions that they share.                                      *)
(*                                                                         *)
(* A byte stream is a sequence of words, CR and LF: a word stands for the  *)
(* bytes of one token of a line, and LineSize and InSize count words.  A   *)
(* response is OutLen bytes that send takes in one or several pieces.  The *)
(* network may cut the stream anywhere; the peer may stop sending (FIN) or *)
(* reset the connection at any time.                                       *)
(***************************************************************************)
EXTENDS UserStore, FiniteSets

CONSTANTS
    Sessions,      \* the descriptors accept can return
    Requests,      \* the request lines peers send, without their LF
    MaxRequests,   \* bound: lines a peer sends on one connection
    LineSize,      \* MNG_LINE_SIZE
    InSize,        \* sizeof in_buf
    OutLen,        \* length of a response
    Secret,        \* g_admin_secret; "" when the server has none
    Values,        \* numbers that parse_nonnegative accepts
    Tables         \* the tables that main can have filled from -u

ASSUME SessionsAssumption == IsFiniteSet(Sessions)
ASSUME SizesAssumption ==
    LineSize \in Nat \ {0} /\ InSize \in Nat \ {0} /\ OutLen \in Nat \ {0}
      /\ MaxRequests \in Nat
ASSUME TablesAssumption ==
    \A t \in Tables :
        /\ t \in Seq(Entry) /\ Len(t) <= UsersMax
        /\ \A i, j \in 1..Len(t) : t[i].name = t[j].name => i = j

MaxAuthFailures == 3    \* MNG_MAX_AUTH_FAILURES
LF == "LF"
CR == "CR"

\* The line ends are no words, and what peers send is made of words and CRs.
ASSUME RequestsAssumption ==
    LF \notin Text /\ CR \notin Text /\ \A r \in Requests : r \in Seq(Text \cup {CR})
ASSUME ValuesAssumption == "0" \in Values

Keys == {"negotiation-timeout", "connect-timeout", "idle-timeout", "max-connections"}

VARIABLES
    ses,       \* [Sessions -> struct mng_session with its connection]
    users,     \* g_users
    config,    \* g_config
    active,    \* g_active_sessions
    metric,    \* metrics: admin_sessions
    alive      \* the process runs

vars == <<ses, users, config, active, metric, alive>>

(***************************************************************************)
(* A session and its connection.  inbuf is in_buf[in_pos .. in_len-1];     *)
(* left is out_len - out_sent, 0 exactly when no response is queued.  The  *)
(* fields from `asked' on are history: what the properties talk about.     *)
(***************************************************************************)
Closed ==
    [open |-> FALSE, net |-> <<>>, fin |-> FALSE, rst |-> FALSE,
     interest |-> "none", line |-> <<>>, inbuf |-> <<>>, left |-> 0,
     authenticated |-> FALSE, locked |-> FALSE, closing |-> FALSE, failures |-> 0,
     asked |-> <<>>, sent |-> <<>>, served |-> <<>>, answers |-> <<>>, got |-> 0]

Open == {s \in Sessions : ses[s].open}

-----------------------------------------------------------------------------
\* The commands.  Each operator gives the session, the stores and the response.

Outcome(m, us, cf, say) == [m |-> m, users |-> us, config |-> cf, say |-> say]

\* next_token: the i-th word of the line, "" when there is none.
Word(w, i) == IF i <= Len(w) THEN w[i] ELSE ""

\* (mutant) a wrong secret is counted and never locks the session.
AuthNeverLocks(m, us, cf, w) ==
    CASE Len(w) # 2    -> Outcome(m, us, cf, "-ERR usage")
      [] w[2] = Secret -> Outcome([m EXCEPT !.authenticated = TRUE, !.failures = 0],
                                  us, cf, "+OK authenticated")
      [] OTHER         -> Outcome([m EXCEPT !.failures = @ + 1], us, cf,
                                  "-ERR invalid credentials")

\* handle_auth
HandleAuth(m, us, cf, w) ==
    CASE Len(w) # 2     -> Outcome(m, us, cf, "-ERR usage")
      [] Len(w) = 2 /\ Secret = "" -> Outcome(m, us, cf, "-ERR auth required")
      [] Len(w) = 2 /\ Secret # "" /\ w[2] = Secret ->
            Outcome([m EXCEPT !.authenticated = TRUE, !.failures = 0],
                    us, cf, "+OK authenticated")
      [] OTHER ->
            LET n == m.failures + 1
                lock == n >= MaxAuthFailures
            IN  Outcome([m EXCEPT !.failures = n, !.locked = @ \/ lock,
                                  !.closing = @ \/ lock],
                        us, cf,
                        IF lock THEN "-ERR locked" ELSE "-ERR invalid credentials")

\* handle_user: USER SET <name> <pass> | USER DELETE <name>
HandleUser(m, us, cf, w) ==
    LET set == Word(w, 2) = "SET" /\ Len(w) = 4
        del == Word(w, 2) = "DELETE" /\ Len(w) = 3
    IN  CASE set ->
                Outcome(m, UsersAdd(us, w[3], w[4]), cf,
                        IF CanAdd(us, w[3]) THEN "+OK user set" ELSE "-ERR user limit reached")
          [] del ->
                Outcome(m, UsersDel(us, w[3]), cf,
                        IF FindUser(us, w[3]) # 0 THEN "+OK user deleted" ELSE "-ERR user not found")
          [] ~set /\ ~del /\ Word(w, 2) \in {"SET", "DELETE", ""} ->
                Outcome(m, us, cf, "-ERR usage")
          [] OTHER -> Outcome(m, us, cf, "-ERR unknown USER command")

\* handle_stats and handle_users only read.  main hands over stores that are not
\* NULL, and USERS_MAX names fit in out: the responses for those cases
\* ("unavailable", "response too large") are never given, here and below.
HandleStats(m, us, cf) == Outcome(m, us, cf, "+OK stats")
HandleUsers(m, us, cf) == Outcome(m, us, cf, "+OK users")

\* handle_config, handle_config_get and config_set_key
HandleConfig(m, us, cf, w) ==
    LET get == Word(w, 2) = "GET" /\ Len(w) = 2
        set == Word(w, 2) = "SET" /\ Len(w) = 4
    IN  CASE get -> Outcome(m, us, cf, "+OK config")
          [] set ->
                IF w[4] \notin Values THEN Outcome(m, us, cf, "-ERR invalid value")
                ELSE IF w[3] \notin Keys THEN Outcome(m, us, cf, "-ERR unknown config key")
                ELSE Outcome(m, us, [cf EXCEPT ![w[3]] = w[4]], "+OK config set")
          [] ~get /\ ~set /\ Word(w, 2) \in {"GET", "SET", ""} -> Outcome(m, us, cf, "-ERR usage")
          [] OTHER -> Outcome(m, us, cf, "-ERR unknown CONFIG command")

\* (mutant) the check of the session is dropped.
AlwaysAllowed(m) == ""

\* require_auth: "" lets the command run, otherwise the refusal.
RequireAuth(m) ==
    IF m.locked THEN "-ERR locked" ELSE IF m.authenticated THEN "" ELSE "-ERR auth required"

\* handle_line
HandleLine(m, us, cf, w) ==
    LET cmd == Word(w, 1) IN
    CASE cmd = ""     -> Outcome(m, us, cf, "-ERR empty command")
      [] cmd = "AUTH" -> HandleAuth(m, us, cf, w)
      [] cmd = "QUIT" ->
            IF Len(w) > 1 THEN Outcome(m, us, cf, "-ERR usage")
            ELSE Outcome([m EXCEPT !.closing = TRUE], us, cf, "+OK bye")
      [] OTHER ->
            CASE RequireAuth(m) # "" -> Outcome(m, us, cf, RequireAuth(m))
              [] RequireAuth(m) = "" /\ cmd = "STATS"  -> HandleStats(m, us, cf)
              [] RequireAuth(m) = "" /\ cmd = "USERS"  -> HandleUsers(m, us, cf)
              [] RequireAuth(m) = "" /\ cmd = "USER"   -> HandleUser(m, us, cf, w)
              [] RequireAuth(m) = "" /\ cmd = "CONFIG" -> HandleConfig(m, us, cf, w)
              [] OTHER -> Outcome(m, us, cf, "-ERR unknown command")

-----------------------------------------------------------------------------
\* Input and output of one session.

\* queue_response
QueueResponse(m, say) ==
    [m EXCEPT !.left = OutLen, !.interest = "W", !.answers = Append(@, say)]

\* What the loop of mng_process_input keeps of some bytes: all but the CRs.
NoCR(bytes) ==
    LET kept[i \in 0..Len(bytes)] ==
            IF i = 0 THEN <<>>
            ELSE IF bytes[i] = CR THEN kept[i - 1] ELSE Append(kept[i - 1], bytes[i])
    IN  kept[Len(bytes)]

\* (mutant) the line ends at the last LF of the buffer.
StopLast(m) ==
    LET hits == {i \in 1..Len(m.inbuf) : m.inbuf[i] = LF}
    IN  IF hits = {} THEN 0 ELSE CHOOSE i \in hits : \A j \in hits : i >= j

\* The i-th byte queues a response: an LF, or a byte the line has no room for.
Stops(m, i) ==
    \/ m.inbuf[i] = LF
    \/ /\ m.inbuf[i] # CR
       /\ Len(m.line) + Len(NoCR(SubSeq(m.inbuf, 1, i - 1))) + 1 >= LineSize

\* Where the loop of mng_process_input stops; 0 when it reads all of in_buf.
Stop(m) ==
    LET hits == {i \in 1..Len(m.inbuf) : Stops(m, i)}
    IN  IF hits = {} THEN 0 ELSE CHOOSE i \in hits : \A j \in hits : i <= j

\* The line ends at in_buf[stop], which is consumed with what precedes it.
Taken(m, stop) ==
    [m EXCEPT !.line = <<>>, !.inbuf = SubSeq(@, stop + 1, Len(@))]

\* mng_process_input, entered with no response queued
ProcessInput(m, us, cf) ==
    LET stop  == Stop(m)
        words == m.line \o NoCR(SubSeq(m.inbuf, 1, stop - 1))
        rest  == Taken(m, stop)
        lined == [rest EXCEPT !.served = @ \o Append(words, LF)]
        out   == HandleLine(lined, us, cf, words)
    IN  CASE stop = 0 ->
                Outcome([m EXCEPT !.line = @ \o NoCR(m.inbuf), !.inbuf = <<>>], us, cf, "")
          [] stop # 0 /\ m.inbuf[stop] = LF ->
                [out EXCEPT !.m = QueueResponse(out.m, out.say)]
          [] OTHER -> Outcome(QueueResponse(rest, "-ERR line too long"), us, cf, "")

\* What process_input leaves becomes the state of session s.
Becomes(s, out) ==
    /\ ses' = [ses EXCEPT ![s] = out.m]
    /\ users' = out.users
    /\ config' = out.config
    /\ UNCHANGED <<active, metric, alive>>

\* (mutant) the metric is not told.
CloseWithoutMetric(s) ==
    /\ ses' = [ses EXCEPT ![s] = Closed]
    /\ active' = IF active > 0 THEN active - 1 ELSE 0
    /\ UNCHANGED <<users, config, metric, alive>>

\* selector_unregister_fd -> mng_close
Close(s) ==
    /\ ses' = [ses EXCEPT ![s] = Closed]
    /\ active' = IF active > 0 THEN active - 1 ELSE 0
    /\ metric' = IF metric > 0 THEN metric - 1 ELSE 0
    /\ UNCHANGED <<users, config, alive>>

-----------------------------------------------------------------------------
Init ==
    /\ ses = [s \in Sessions |-> Closed]
    /\ users \in Tables
    /\ config = [k \in Keys |-> "0"]
    /\ active = 0 /\ metric = 0 /\ alive = TRUE

\* mng_passive_accept.  Its failure paths close the descriptor and change nothing.
PassiveAccept(s) ==
    /\ alive /\ ~ses[s].open
    /\ ses' = [ses EXCEPT ![s] = [Closed EXCEPT !.open = TRUE, !.interest = "R"]]
    /\ active' = active + 1
    /\ metric' = metric + 1
    /\ UNCHANGED <<users, config, alive>>

\* recv on the connection: the numbers of bytes it can return.  It is called
\* only when in_buf holds no input; an EINTR or a spurious wake-up changes nothing.
Recv(m) ==
    IF m.inbuf # <<>> THEN {0}
    ELSE {n \in 1..InSize : n <= Len(m.net) /\ ~m.rst}

Received(m, n) ==
    [m EXCEPT !.inbuf = @ \o SubSeq(m.net, 1, n),
              !.net = SubSeq(@, n + 1, Len(@))]

\* (mutant) a peer that has closed is gone, whatever it had sent.
EndedAtFin(m) == m.inbuf = <<>> /\ (m.rst \/ m.fin)

\* recv would return 0 or an error.
Ended(m) == m.inbuf = <<>> /\ (m.rst \/ m.net = <<>>)

\* mng_read, called when the descriptor is readable: data, FIN or an error.
Read(s) ==
    LET m == ses[s] IN
    /\ alive /\ m.open /\ m.interest = "R"
    /\ m.net # <<>> \/ m.fin \/ m.rst
    /\ \/ Ended(m) /\ Close(s)
       \/ \E n \in Recv(m) : Becomes(s, ProcessInput(Received(m, n), users, config))

\* mng_write up to the check of out_sent: the response is sent, closing is unset.
\* The interest becomes OP_READ unless process_input queues the next response.
Sent(m) == [m EXCEPT !.left = 0, !.interest = "R", !.got = @ + 1]

\* (mutant) the input that waited in in_buf is left there.
WriteAllForgets(s) ==
    LET m == ses[s] IN
    /\ alive /\ m.open /\ m.interest = "W" /\ ~m.rst
    /\ IF m.closing THEN Close(s) ELSE Becomes(s, Outcome(Sent(m), users, config, ""))

\* mng_write with a send that takes everything left.
WriteAll(s) ==
    LET m == ses[s] IN
    /\ alive /\ m.open /\ m.interest = "W" /\ ~m.rst
    /\ IF m.closing THEN Close(s)
       ELSE Becomes(s, ProcessInput(Sent(m), users, config))

\* mng_write that meets a full socket buffer after n bytes (EAGAIN).
WritePart(s) ==
    LET m == ses[s] IN
    /\ alive /\ m.open /\ m.interest = "W" /\ ~m.rst
    /\ \E n \in 1..(m.left - 1) : ses' = [ses EXCEPT ![s].left = m.left - n]
    /\ UNCHANGED <<users, config, active, metric, alive>>

\* mng_write on a connection that was reset: send fails, and the session ends.
WriteFails(s) ==
    /\ alive /\ ses[s].open /\ ses[s].interest = "W" /\ ses[s].rst
    /\ Close(s)

\* The same send when the peer had closed (FIN) before the reset: EPIPE comes
\* with SIGPIPE, whose default action ends the process (send has no flags and
\* main installs no handler).
WriteKilled(s) ==
    /\ alive /\ ses[s].open /\ ses[s].interest = "W" /\ ses[s].rst /\ ses[s].fin
    /\ alive' = FALSE
    /\ ses' = [x \in Sessions |-> Closed]
    /\ UNCHANGED <<users, config, active, metric>>

\* The session with a line more on its way; the line may hold CRs.
Asked(m, req) ==
    [m EXCEPT !.net = @ \o Append(req, LF), !.sent = @ \o Append(NoCR(req), LF),
              !.asked = Append(@, req)]

\* The peer sends a request line.
ClientSends(s, req) ==
    /\ alive /\ ses[s].open /\ ~ses[s].fin /\ ~ses[s].rst
    /\ ses' = [ses EXCEPT ![s] = Asked(@, req)]
    /\ UNCHANGED <<users, config, active, metric, alive>>

\* The peer closes or half-closes.
ClientEnds(s) ==
    /\ alive /\ ses[s].open /\ ~ses[s].fin /\ ~ses[s].rst
    /\ ses' = [ses EXCEPT ![s].fin = TRUE]
    /\ UNCHANGED <<users, config, active, metric, alive>>

\* The connection is reset: the kernel forgets what was not received.
ClientResets(s) ==
    /\ alive /\ ses[s].open /\ ~ses[s].rst
    /\ ses' = [ses EXCEPT ![s].rst = TRUE, ![s].net = <<>>]
    /\ UNCHANGED <<users, config, active, metric, alive>>

Next ==
    \E s \in Sessions :
        \/ PassiveAccept(s) \/ Read(s)
        \/ WriteAll(s) \/ WritePart(s) \/ WriteFails(s) \/ WriteKilled(s)
        \/ ClientEnds(s) \/ ClientResets(s)
        \/ Len(ses[s].asked) < MaxRequests /\ \E req \in Requests : ClientSends(s, req)

(***************************************************************************)
(* select reports every ready descriptor and the loop visits them all, so  *)
(* a session that stays ready is served; a peer that keeps its connection  *)
(* makes room for the response eventually.                                 *)
(***************************************************************************)
Fairness == \A s \in Sessions : WF_vars(Read(s)) /\ WF_vars(WriteAll(s)) /\ WF_vars(WriteFails(s))

Spec == Init /\ [][Next]_vars /\ Fairness

-----------------------------------------------------------------------------
TypeOK ==
    /\ \A s \in Sessions :
         LET m == ses[s] IN
         /\ Len(m.inbuf) <= InSize /\ Len(m.line) < LineSize
         /\ m.left \in 0..OutLen /\ m.failures \in 0..MaxAuthFailures
         /\ m.interest \in {"none", "R", "W"}
         /\ {m.open, m.fin, m.rst, m.authenticated, m.locked, m.closing} \subseteq BOOLEAN
    /\ users \in Seq(Entry) /\ Len(users) <= UsersMax
    /\ config \in [Keys -> Values]
    /\ active \in Nat /\ metric \in Nat /\ alive \in BOOLEAN

\* Where x occurs in a sequence.
Places(seq, x) == {i \in 1..Len(seq) : seq[i] = x}

LineTooLong == "-ERR line too long"
TooLong(m)  == Places(m.answers, LineTooLong) # {}

\* What the service has taken of what the peer sent.
Seen(m) == m.served \o m.line \o NoCR(m.inbuf)

\* Of what the peer sent: all of it is there, what was lost in a reset apart.
\* After a line that was too long only this is left: the peer did send one.
InOrder(m) ==
    IF TooLong(m) THEN \E i \in 1..Len(m.asked) : Len(NoCR(m.asked[i])) >= LineSize
    ELSE IF m.rst THEN /\ Len(Seen(m)) <= Len(m.sent)
                       /\ Seen(m) = SubSeq(m.sent, 1, Len(Seen(m)))
    ELSE Seen(m) \o NoCR(m.net) = m.sent

\* Of the responses: each was sent or is queued; each line that ended has one, and
\* there is one more for each time that a line overflowed.
OneEach(m) ==
    /\ m.got + (IF m.left > 0 THEN 1 ELSE 0) = Len(m.answers)
    /\ Cardinality(Places(m.served, LF)) + Cardinality(Places(m.answers, LineTooLong))
         = Len(m.answers)

(***************************************************************************)
(* While no line was too long, the lines handled, the line being           *)
(* assembled, in_buf and the socket together are what the peer sent, in    *)
(* order, and each line has one response: however the stream is cut, and   *)
(* however often a queued response stops the loop, mng_process_input       *)
(* neither loses nor repeats a byte, and no response is overwritten in out *)
(* before it was sent.  "line too long" is only said to a peer that sent a *)
(* request longer than the buffer.  The rest of such a line is taken for   *)
(* another one and answered again, which docs/management-protocol.md:28    *)
(* does not say: of what follows it, the property only says that every     *)
(* response is accounted for.                                              *)
(***************************************************************************)
Framing == TypeOK /\ \A s \in Open : InOrder(ses[s]) /\ OneEach(ses[s])

\* The answers to AUTH that try the secret.
Invalid   == "-ERR invalid credentials"
LockedOut == "-ERR locked"
Accepted  == "+OK authenticated"
Tried     == {Invalid, LockedOut, Accepted}

\* Of the answers a given: no three wrong secrets without a right one between
\* them, and "locked" is the last and follows two wrong ones.
ThirdLocks(a) ==
    LET Wrong == {i \in 1..Len(a) : a[i] = Invalid} IN
    /\ \A i, j, k \in Wrong : i < j /\ j < k => \E x \in i..k : a[x] = Accepted
    /\ \A i \in 1..Len(a) : a[i] = LockedOut =>
         /\ i = Len(a)
         /\ \E j, k \in Wrong :
              j < k /\ \A x \in j..(i - 1) : x \notin {j, k} => a[x] \notin Tried

(***************************************************************************)
(* docs/management-protocol.md:89: the third wrong secret in a row is      *)
(* answered with "locked", nothing is answered after it, and a right       *)
(* secret in between starts the count again.                               *)
(***************************************************************************)
LocksOut ==
    \A s \in Open :
        LET m == ses[s] IN
        /\ ThirdLocks(m.answers)
        /\ \A i \in 1..Len(m.answers) : m.answers[i] = LockedOut => m.closing

\* Answers that only a session that gave the secret may get.
Privileged == {"+OK stats", "+OK users", "+OK user set", "+OK user deleted",
               "-ERR user limit reached", "-ERR user not found", "+OK config",
               "+OK config set", "-ERR invalid value", "-ERR unknown config key"}

\* A step in which s is answered, and the answer.
Answered(s) == Len(ses'[s].answers) > Len(ses[s].answers)
Last(s)     == ses'[s].answers[Len(ses'[s].answers)]

Authorised ==
    /\ \A s \in Open : Answered(s) /\ Last(s) \in Privileged =>
          \E i \in 1..Len(ses[s].answers) : ses[s].answers[i] = Accepted
    /\ users' # users \/ config' # config =>
          \E s \in Open : Answered(s)
             /\ Last(s) \in {"+OK user set", "+OK user deleted", "+OK config set"}

(***************************************************************************)
(* docs/management-protocol.md:67: a protected command is carried out, and *)
(* the users or the configuration change, only for a session in which the  *)
(* secret was given earlier.                                               *)
(***************************************************************************)
OnlyAuthorised == [][Authorised]_vars

\* The count that the shutdown waits for and the metric are the open sessions.
CountsExact == alive => active = Cardinality(Open) /\ metric = Cardinality(Open)

\* What may end session s: a reset, the end of the peer's stream once all it
\* asked was answered, or the last response after QUIT or the third failure.
OwnReason(s) ==
    LET m == ses[s] IN
    \/ m.rst
    \/ m.fin /\ m.net = <<>> /\ m.inbuf = <<>> /\ m.left = 0
    \/ m.left > 0 /\ m.answers[Len(m.answers)] \in {"+OK bye", LockedOut}

Justified == alive' => \A s \in Open : ~ses'[s].open => OwnReason(s)

(***************************************************************************)
(* A session ends for a reason of its own connection, and never with a     *)
(* request unanswered that arrived before the peer's FIN; unless the whole *)
(* process ends.                                                           *)
(***************************************************************************)
EndsForAReason == [][Justified]_vars

(***************************************************************************)
(* docs/management-protocol.md:40 lists what may close a connection: the   *)
(* end of its peer, an I/O error, QUIT, the third failure, the shutdown.   *)
(* Another session's peer is not in the list.                              *)
(***************************************************************************)
OnlyItsOwnPeer == [][\A s \in Open : ~ses'[s].open => OwnReason(s)]_vars

\* The account that find_user sees under each name.
Accounts ==
    [n \in Text |-> LET i == FindUser(users, n)
                    IN  IF i = 0 THEN Absent ELSE users[i].pass]

Map == INSTANCE UserMap WITH accounts <- Accounts, Absent <- Absent

\* The line that this step handled in session s.
Handled(s) == SubSeq(ses'[s].served, Len(ses[s].served) + 1, Len(ses'[s].served) - 1)

\* Every name that USER SET adds fits in an entry.
NameFits ==
    \A s \in Open : Answered(s) /\ Last(s) = "+OK user set" =>
        Kept[Handled(s)[3]] = Handled(s)[3]

NamesFit == [][NameFits]_vars

\* What a step does to the map, by the response it gives.
MapStep ==
    LET calls == {s \in Open : Answered(s)}
    IN  /\ calls = {} => UNCHANGED Accounts
        /\ \A s \in calls :
             LET w == Handled(s) IN
             CASE Last(s) = "+OK user set"            -> Map!Set(w[3], w[4])
               [] Last(s) = "-ERR user limit reached" -> Map!SetRefused(w[3])
               [] Last(s) = "+OK user deleted"        -> Map!Delete(w[3])
               [] Last(s) = "-ERR user not found"     -> Map!DeleteRefused(w[3])
               [] OTHER -> UNCHANGED Accounts

(***************************************************************************)
(* docs/management-protocol.md:177: the table, with its limit and its swap *)
(* on deletion, is a map from names to passwords (for names that fit in an *)
(* entry): every USER command does to the map, and says of it, what        *)
(* UserMap does, and nothing else changes it.                              *)
(***************************************************************************)
ImplementsMap == Map!Init /\ [][MapStep]_vars

-----------------------------------------------------------------------------
\* The answers that say nothing of the secret and do not end the session.
Ordinary ==
    Privileged \cup
      {"-ERR usage", "-ERR auth required", "-ERR empty command", "-ERR unknown command",
       "-ERR unknown USER command", "-ERR unknown CONFIG command", "-ERR line too long"}

Answers == Ordinary \cup Tried \cup {"+OK bye"}

\* The fields of a session.  What the streams hold is left open.
IsSession(m) ==
    m \in [open : BOOLEAN, net : {m.net}, fin : BOOLEAN, rst : BOOLEAN,
          interest : {"none", "R", "W"}, line : {m.line}, inbuf : {m.inbuf}, left : Nat,
          authenticated : BOOLEAN, locked : BOOLEAN, closing : BOOLEAN, failures : Nat,
          asked : {m.asked}, sent : {m.sent}, served : {m.served},
          answers : Seq(Answers), got : {m.got}]

\* The wrong secrets since the last right one.
InARow(a) ==
    {i \in 1..Len(a) :
        a[i] = Invalid /\ \A j \in i..Len(a) : a[j] \notin {LockedOut, Accepted}}

\* failures counts them, and the third one has locked the session.
FailuresExact(m) ==
    LET row == InARow(m.answers) IN
    \/ m.failures = 0 /\ row = {}
    \/ m.failures = 1 /\ \E i \in row : row = {i}
    \/ m.failures = 2 /\ \E i, j \in row : i < j /\ row = {i, j}
    \/ m.locked

\* A session that is going to close has its last response queued and does not read.
Queued(m) ==
    /\ m.interest = IF m.left > 0 THEN "W" ELSE "R"
    /\ m.closing =>
         m.left > 0 /\ m.answers # <<>> /\ m.answers[Len(m.answers)] \in {"+OK bye", LockedOut}
    /\ m.locked => m.closing
    /\ m.authenticated => \E i \in 1..Len(m.answers) : m.answers[i] = Accepted

SessionInv(m) ==
    /\ IsSession(m)
    /\ m.open =>
         /\ Queued(m) /\ FailuresExact(m) /\ ThirdLocks(m.answers)
         /\ \A i \in 1..Len(m.answers) : m.answers[i] = LockedOut => m.closing

ServiceInv ==
    /\ ses = [s \in Sessions |-> ses[s]]
    /\ \A s \in Sessions : SessionInv(ses[s])
    /\ active \in Nat /\ metric \in Nat /\ CountsExact

-----------------------------------------------------------------------------
Byte == Text \cup {CR, LF}

\* The streams of a session, and the limits of its buffers.
Typed(m) ==
    /\ m.net \in Seq(Byte) /\ m.inbuf \in Seq(Byte) /\ m.line \in Seq(Text)
    /\ m.sent \in Seq(Byte) /\ m.served \in Seq(Byte)
    /\ m.asked \in Seq(Seq(Text \cup {CR})) /\ m.got \in Nat
    /\ Len(m.inbuf) <= InSize /\ Len(m.line) < LineSize /\ m.left <= OutLen
    /\ m.failures <= IF m.locked THEN MaxAuthFailures ELSE MaxAuthFailures - 1

\* What was sent is whole lines, and between two LFs there is one request.
SentLines(m) ==
    /\ m.sent # <<>> => m.sent[Len(m.sent)] = LF
    /\ \A i, j \in 1..Len(m.sent) :
         i <= j /\ (\A x \in i..j : m.sent[x] # LF) =>
            \E k \in 1..Len(m.asked) : Len(NoCR(m.asked[k])) >= j - i + 1

StreamInv ==
    /\ \A s \in Sessions :
         LET m == ses[s] IN Typed(m) /\ SentLines(m) /\ InOrder(m) /\ OneEach(m)
    /\ users \in Seq(Entry) /\ Len(users) <= UsersMax
    /\ config \in [Keys -> Values] /\ alive \in BOOLEAN
=============================================================================
