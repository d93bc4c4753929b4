------------------------------- MODULE Socks5 -------------------------------
(***************************************************************************)
(* The SOCKS5 sessions of the proxy (src/shared/socks5.c) run by the       *)
(* selector's loop (src/shared/selector.c, src/server/main.c) next to the  *)
(* DNS thread (src/shared/dns_worker.c).                                   *)
(*                                                                         *)
(* One element of Slots is one `struct socks5' in memory.  A step of the   *)
(* loop thread is one call of a state-machine handler; socksv5_pump chains *)
(* several of them, and `running' keeps the loop thread inside the chain   *)
(* until it ends.  Bytes are abstracted to the outcome of recv, send and   *)
(* of the parsers; the COPY state is abstracted to its outcome (module     *)
(* CopyRelay has its buffers, interests and half-closes); the clock is     *)
(* abstracted to a choice, at each sweep, of the deadlines that passed.    *)
(***************************************************************************)
EXTENDS Integers, Sequences, FiniteSets

CONSTANTS
    Slots,           \* session structs the allocator can hand out
    NoSlot,          \* stands for NULL
    MaxAddrs,        \* longest addrinfo list the resolver returns
    MaxConnections,  \* config: max-connections, 0 = no limit
    MaxPool          \* max_pool: structs kept for reuse

ASSUME SlotsAssumption == IsFiniteSet(Slots) /\ NoSlot \notin Slots
ASSUME BoundsAssumption ==
    MaxAddrs \in Nat \ {0} /\ MaxConnections \in Nat /\ MaxPool \in Nat

VARIABLES
    ses,         \* [Slots -> session record]
    dns,         \* [Slots -> where the slot's DNS job is]
    queue,       \* dns_worker: queue_head .. queue_tail
    phase,       \* where the loop thread is in one round of main's loop
    ready,       \* slave_r/slave_w: <<slot, side, direction>> not yet visited
    incoming,    \* slave_r has the listening socket, not yet visited
    running,     \* the session whose handler is in progress, or NoSlot
    todo,        \* sessions the timeout sweep has still to visit
    active,      \* g_active_sessions
    connActive   \* metrics: conn_accepted - conn_closed

vars == <<ses, dns, queue, phase, ready, incoming, running, todo, active, connActive>>

ReadStates  == {"HELLO_READ", "AUTH_READ", "REQUEST_READ"}
WriteStates == {"HELLO_WRITE", "AUTH_WRITE", "REQUEST_WRITE"}
EndStates   == {"DONE", "ERROR"}
States      == ReadStates \cup WriteStates \cup EndStates
                 \cup {"REQUEST_RESOLV", "CONNECTING", "COPY"}

(***************************************************************************)
(* An fd of a session is unregistered, or registered with an interest.     *)
(* "copy" is the interest copy_update_interests computes from the buffers. *)
(***************************************************************************)
Interests == {"unreg", "noop", "R", "W", "copy"}

\* client_statbl: the states whose row has on_read_ready / on_write_ready /
\* on_block_ready.  stm_handler_* call abort() for the others.
HasRead  == ReadStates \cup {"COPY"}
HasWrite == WriteStates \cup {"CONNECTING", "COPY"}
HasBlock == {"REQUEST_RESOLV"}

DnsStatus == {"none", "queued", "resolving", "answered", "posted"}

SessionType ==
    [loc   : {"free", "pool", "live"},   \* heap, pool list, in use
     st    : States,                     \* stm_state
     refs  : Nat,                        \* references
     cint  : Interests,                  \* client_fd's item
     oint  : Interests,                  \* origin_fd's item ("unreg": origin_fd = -1)
     res   : 0..MaxAddrs,                \* length of origin_resolution
     cur   : 0..MaxAddrs,                \* addresses left from orig.conn.current
     rb    : BOOLEAN,                    \* read_buffer has unread bytes
     out   : {"none", "auth", "request", "reject", "success"}, \* the reply in wb
     must  : BOOLEAN,                    \* hello.method was USERNAME_PASSWORD
     user  : BOOLEAN,                    \* users_check accepted the credentials
     dest  : BOOLEAN,                    \* destination_set
     open  : BOOLEAN,                    \* tunnel_opened
     lgd   : BOOLEAN,                    \* log_emitted
     why   : BOOLEAN,                    \* failure_reason # NULL
     lines : Seq({"OPEN", "CLOSE", "FAIL", "FAIL: unknown"}), \* its access log lines
     ok    : Nat,                        \* its share of the origin_ok counter,
     fail  : Nat,                        \* of origin_fail
     badpw : Nat]                        \* and of auth_fail

\* memset in socks5_new: a struct just taken from the pool or the heap.
Blank ==
    [loc |-> "free", st |-> "HELLO_READ", refs |-> 0, cint |-> "unreg",
     oint |-> "unreg", res |-> 0, cur |-> 0, rb |-> FALSE, out |-> "none",
     must |-> FALSE, user |-> FALSE, dest |-> FALSE, open |-> FALSE,
     lgd |-> FALSE, why |-> FALSE, lines |-> <<>>, ok |-> 0, fail |-> 0,
     badpw |-> 0]

Live == {s \in Slots : ses[s].loc = "live"}
Pool == {s \in Slots : ses[s].loc = "pool"}

Events == Slots \X {"client", "origin"} \X {"R", "W"}

-----------------------------------------------------------------------------
\* Operators on one session record.

\* jump, to a state without on_arrival.
Jump(r, st) == [r EXCEPT !.st = st]

Errored(r) == Jump(r, "ERROR")

\* What the parser leaves in read_buffer.
Buffered(r, more) == [r EXCEPT !.rb = more]

\* *job->result_target: the list that the DNS thread writes.
Resolved(r, n) == [r EXCEPT !.res = n]

\* socks5_set_failure: the first reason stays.
Blame(r) == [r EXCEPT !.why = TRUE]

\* socks5_log_open
LogOpen(r) ==
    IF ~r.dest \/ r.open THEN r
    ELSE [r EXCEPT !.open = TRUE, !.lines = Append(@, "OPEN")]

\* (mutant) the line is chosen by how the session ended.
LastLineByEnd(r) ==
    IF r.st = "DONE" THEN "CLOSE" ELSE IF r.why THEN "FAIL" ELSE "FAIL: unknown"

\* access_log_close or access_log_fail, which has a word for a NULL reason.
LastLine(r) ==
    IF r.open THEN "CLOSE" ELSE IF r.why THEN "FAIL" ELSE "FAIL: unknown"

\* socks5_log_event
LogEvent(r) ==
    IF r.lgd \/ ~r.dest THEN r
    ELSE [r EXCEPT !.lgd = TRUE, !.lines = Append(@, LastLine(r))]

\* socks5_destroy, the close handler of every fd of a session: the last
\* reference sends the struct to the pool, or to the heap when the pool is full.
Release(r) ==
    IF r.refs = 1
    THEN [r EXCEPT !.loc = IF Cardinality(Pool) < MaxPool THEN "pool" ELSE "free",
                   !.res = 0]
    ELSE [r EXCEPT !.refs = @ - 1]

\* selector_unregister_fd + close: the close handler runs, then the item is cleared.
UnregisterClient(r) == [Release(r) EXCEPT !.cint = "unreg"]
UnregisterOrigin(r) == [Release(r) EXCEPT !.oint = "unreg"]

\* What is left of a struct nobody uses: socks5_new clears it before it is used
\* again; its log lines are kept for the properties.
Scrub(r) ==
    IF r.loc = "live" THEN r
    ELSE [Blank EXCEPT !.loc = r.loc, !.cint = r.cint, !.oint = r.oint,
                       !.dest = r.dest, !.lines = r.lines]

\* socksv5_done on the session (its counters are in Finish).
SocksDone(r) ==
    LET a == UnregisterClient(LogEvent(r))
    IN Scrub(IF r.oint # "unreg" THEN UnregisterOrigin(a) ELSE a)

\* (mutant) no test for the end of the list.
LeftUnchecked(r) == {r.cur - 1}

\* The addresses that may be left after connecting_try_one has gone down the
\* list to one that works, or to its end (an IP request has no list).
Left(r) == IF r.cur = 0 THEN {0} ELSE 0 .. (r.cur - 1)

\* (mutant) after a failure nobody wakes the client.
TryConnectSilent(r) ==
    {[r EXCEPT !.cur = c, !.refs = @ + 1, !.oint = "W"] : c \in Left(r)}
      \cup {[Blame(r) EXCEPT !.cur = c] : c \in Left(r)}

\* connecting_init and connecting_try_addrinfo: one address is being connected
\* to, or every address (or the registration) failed and the client is woken
\* up to be told.
TryConnect(r) ==
    {[r EXCEPT !.cur = c, !.refs = @ + 1, !.oint = "W"] : c \in Left(r)}
      \cup {[Blame(r) EXCEPT !.cur = c, !.cint = "W"] : c \in Left(r)}

\* A failure reply is marshalled and the client's fd waits to send it.
Refuse(r) ==
    [Blame(r) EXCEPT !.out = "reject", !.cint = "W", !.st = "REQUEST_WRITE"]

\* copy_init: the tunnel is open; bytes left in read_buffer are now the
\* relay's (CopyRelay starts with them).
CopyInit(r) ==
    [LogOpen(r) EXCEPT !.st = "COPY", !.cint = "copy", !.oint = "copy",
                       !.rb = FALSE, !.out = "none"]


-----------------------------------------------------------------------------
\* How the loop thread reaches a handler, and how it goes on after it.

InterestOf(s, side) == IF side = "client" THEN ses[s].cint ELSE ses[s].oint

\* items_update_fdset_for_fd: the direction is in master_r / master_w.
Wanted(e) == InterestOf(e[1], e[2]) \in {e[3], "copy"}

\* handle_iteration visits e: the listening socket has the lowest fd, reads of
\* an fd come before its writes, and the interest is looked at when e is visited.
Visit(s, side, dir) ==
    /\ phase = "iterate" /\ running = NoSlot /\ ~incoming
    /\ <<s, side, dir>> \in ready /\ Wanted(<<s, side, dir>>)
    /\ dir = "W" => ~(<<s, side, "R">> \in ready /\ Wanted(<<s, side, "R">>))
    /\ ready' = ready \ {<<s, side, dir>>}

\* The loop of socksv5_pump calls a handler again.
Pump(s) == phase = "iterate" /\ running = s /\ UNCHANGED ready

\* Conditions under which socksv5_pump, or the check for DONE and ERROR after
\* it, has something more to do.
Continues(r) ==
    r.st \in WriteStates \cup EndStates \/ (r.st \in ReadStates /\ r.rb)

Loop == <<phase, incoming, todo, active, connActive>>

\* The handler returns; r is the session after the jump.
Return(s, r) ==
    /\ ses' = [ses EXCEPT ![s] = r]
    /\ running' = IF Continues(r) THEN s ELSE NoSlot

\* A send that could not finish: the pump waits for the next OP_WRITE; the
\* first call of the handler is still followed by one try of the pump.
Unfinished(s) ==
    /\ UNCHANGED ses
    /\ running' = IF running = s THEN NoSlot ELSE s

-----------------------------------------------------------------------------
\* Negotiation handlers.

\* recv (skipped when the buffer has bytes) found nothing, or the message is
\* still incomplete after all the bytes were consumed.
ReadMore(s) ==
    /\ ses' = [ses EXCEPT ![s] = Buffered(ses[s], FALSE)]
    /\ running' = NoSlot

\* The method chosen, by what its reply leads to: the login, the request, the end.
Methods == {"auth", "request", "reject"}

\* hello_process
HelloDone(r, method, more) ==
    [r EXCEPT !.st = "HELLO_WRITE", !.cint = "W", !.out = method,
              !.must = (method = "auth"), !.rb = more]

\* hello_read: users_count decides which method is required.
HelloRead(s) ==
    /\ Visit(s, "client", "R") \/ Pump(s)
    /\ ses[s].st = "HELLO_READ"
    /\ \/ ReadMore(s)
       \/ Return(s, Errored(ses[s]))
       \/ \E method \in Methods, more \in BOOLEAN :
            Return(s, HelloDone(ses[s], method, more))
    /\ UNCHANGED <<Loop, dns, queue>>

\* The whole reply was sent: the client's fd is read again.
ReplySent(r, st) == [r EXCEPT !.st = st, !.cint = "R", !.out = "none"]

\* hello_write
HelloWrite(s) ==
    /\ Visit(s, "client", "W") \/ Pump(s)
    /\ ses[s].st = "HELLO_WRITE"
    /\ \/ Unfinished(s)
       \/ Return(s, Errored(ses[s]))
       \/ Return(s, IF ses[s].out = "reject" THEN Jump(ses[s], "DONE")
                    ELSE ReplySent(ses[s], IF ses[s].out = "auth"
                                           THEN "AUTH_READ" ELSE "REQUEST_READ"))
    /\ UNCHANGED <<Loop, dns, queue>>

\* auth_process
AuthDone(r, valid, more) ==
    [r EXCEPT !.st = "AUTH_WRITE", !.cint = "W", !.rb = more,
              !.out = IF valid THEN "request" ELSE "reject",
              !.user = valid,
              !.badpw = IF valid THEN @ ELSE @ + 1]

\* auth_read: users_check on the table as it is now.
AuthRead(s) ==
    /\ Visit(s, "client", "R") \/ Pump(s)
    /\ ses[s].st = "AUTH_READ"
    /\ \/ ReadMore(s)
       \/ Return(s, Errored(ses[s]))
       \/ \E valid \in BOOLEAN, more \in BOOLEAN :
            Return(s, AuthDone(ses[s], valid, more))
    /\ UNCHANGED <<Loop, dns, queue>>

\* (mutant) the status of the reply is not looked at.
AfterAuthAnyway(r) == "REQUEST_READ"

\* The state after the whole auth reply was sent.
AfterAuth(r) == IF r.out = "request" THEN "REQUEST_READ" ELSE "DONE"

\* auth_write
AuthWrite(s) ==
    /\ Visit(s, "client", "W") \/ Pump(s)
    /\ ses[s].st = "AUTH_WRITE"
    /\ \/ Unfinished(s)
       \/ Return(s, Errored(ses[s]))
       \/ Return(s, ReplySent(ses[s], AfterAuth(ses[s])))
    /\ UNCHANGED <<Loop, dns, queue>>

\* The session once request_process has stored the destination and taken the
\* client's fd out of the fd sets.
Targeted(r, more) == [r EXCEPT !.dest = TRUE, !.cint = "noop", !.rb = more]

\* The DNS thread holds a reference to the session from now on.
Resolving(r) == [r EXCEPT !.st = "REQUEST_RESOLV", !.refs = @ + 1]

\* dns_worker_submit on the session r.
Submit(s, r) ==
    /\ queue' = Append(queue, s)
    /\ dns' = [dns EXCEPT ![s] = "queued"]
    /\ Return(s, Resolving(r))

\* request_read, request_process
RequestRead(s) ==
    /\ Visit(s, "client", "R") \/ Pump(s)
    /\ ses[s].st = "REQUEST_READ"
    /\ \/ ReadMore(s) /\ UNCHANGED <<dns, queue>>
       \/ Return(s, Errored(ses[s])) /\ UNCHANGED <<dns, queue>>
       \/ \E more \in BOOLEAN :
            \/ Return(s, Refuse(Buffered(ses[s], more))) /\ UNCHANGED <<dns, queue>>
            \/ /\ \E r \in TryConnect(Jump(Targeted(ses[s], more), "CONNECTING")) :
                    Return(s, r)
               /\ UNCHANGED <<dns, queue>>
            \/ Return(s, Refuse(Targeted(ses[s], more))) /\ UNCHANGED <<dns, queue>>
            \/ Submit(s, Targeted(ses[s], more))
    /\ UNCHANGED Loop

\* request_write, and copy_init on arrival at COPY
RequestWrite(s) ==
    /\ Visit(s, "client", "W") \/ Pump(s)
    /\ ses[s].st = "REQUEST_WRITE"
    /\ \/ Unfinished(s)
       \/ Return(s, Errored(ses[s]))
       \/ Return(s, IF ses[s].out = "success" THEN CopyInit(ses[s])
                    ELSE Jump(ses[s], "DONE"))
    /\ UNCHANGED <<Loop, dns, queue>>

-----------------------------------------------------------------------------
\* Connecting to the origin, and the tunnel.

\* metrics_origin_fail and metrics_origin_ok
CountFail(r) == [Blame(r) EXCEPT !.fail = @ + 1]
CountOk(r)   == [r EXCEPT !.ok = @ + 1]

\* connecting_write on client_fd: nothing is left to try, or the deadline passed.
ConnectingWriteClient(s) ==
    /\ Visit(s, "client", "W")
    /\ ses[s].st = "CONNECTING"
    /\ LET r == CountFail(ses[s])
       IN Return(s, Refuse(r)) \/ Return(s, Errored(r))
    /\ UNCHANGED <<Loop, dns, queue>>

\* The success reply is marshalled; the origin rests while the client is told.
Established(r) ==
    [r EXCEPT !.out = "success", !.cint = "W", !.oint = "noop", !.st = "REQUEST_WRITE"]

\* connecting_write on origin_fd, SO_ERROR = 0.
Connected(s) ==
    /\ Visit(s, "origin", "W")
    /\ ses[s].st = "CONNECTING"
    /\ LET r == CountOk(ses[s]) IN Return(s, Established(r)) \/ Return(s, Errored(r))
    /\ UNCHANGED <<Loop, dns, queue>>

\* (mutant) every address that fails is counted.
ConnectErrorCounted(r) ==
    IF r.cur # 0 THEN TryConnect([r EXCEPT !.fail = @ + 1])
    ELSE {Refuse(CountFail(r)), Errored(CountFail(r))}

\* After the failed socket is dropped: the next address, or a refusal.
ConnectError(r) ==
    IF r.cur # 0 THEN TryConnect(r)
    ELSE {Refuse(CountFail(r)), Errored(CountFail(r))}

\* connecting_write on origin_fd, SO_ERROR # 0.
ConnectFailed(s) ==
    /\ Visit(s, "origin", "W")
    /\ ses[s].st = "CONNECTING"
    /\ \E r \in ConnectError(UnregisterOrigin(ses[s])) : Return(s, r)
    /\ UNCHANGED <<Loop, dns, queue>>

\* copy_read and copy_write on either fd: the relay goes on, both directions
\* are closed, or an I/O error ends it.
Relay(s) ==
    /\ \E side \in {"client", "origin"}, dir \in {"R", "W"} : Visit(s, side, dir)
    /\ ses[s].st = "COPY"
    /\ \E st \in {"COPY", "DONE", "ERROR"} : Return(s, Jump(ses[s], st))
    /\ UNCHANGED <<Loop, dns, queue>>

-----------------------------------------------------------------------------
\* The end and the beginning of a session.

\* (mutant) the sessions are not counted down.
FinishUncounted(s, r) ==
    /\ ses' = [ses EXCEPT ![s] = SocksDone(r)]
    /\ connActive' = connActive - 1
    /\ UNCHANGED active

\* socksv5_done: the session r leaves the list of active sessions.
Finish(s, r) ==
    /\ ses' = [ses EXCEPT ![s] = SocksDone(r)]
    /\ active' = IF active > 0 THEN active - 1 ELSE active
    /\ connActive' = connActive - 1

\* socksv5_read, socksv5_write and socksv5_block after the handlers.
End(s) ==
    /\ running = s /\ ses[s].st \in EndStates
    /\ Finish(s, IF ses[s].st = "ERROR" THEN Blame(ses[s]) ELSE ses[s])
    /\ running' = NoSlot
    /\ UNCHANGED <<phase, incoming, todo, ready, dns, queue>>

\* socks5_new: from the pool, else from the heap.
Allocated(s) == IF Pool # {} THEN s \in Pool ELSE s \in Slots \ Live

NewSession == [Blank EXCEPT !.loc = "live", !.refs = 1]
Accepted   == [NewSession EXCEPT !.cint = "R"]

\* The listening socket is ready: socksv5_passive_accept runs.
AcceptReady == phase = "iterate" /\ running = NoSlot /\ incoming /\ incoming' = FALSE

LimitReached == MaxConnections > 0 /\ active >= MaxConnections

Accept(s) ==
    /\ AcceptReady
    /\ ~LimitReached
    /\ Allocated(s)
    /\ ses' = [ses EXCEPT ![s] = Accepted]
    /\ active' = active + 1
    /\ connActive' = connActive + 1
    /\ UNCHANGED <<dns, queue, phase, ready, running, todo>>

\* selector_register failed: the struct goes back through socks5_destroy.
AcceptUnregistered(s) ==
    /\ AcceptReady
    /\ ~LimitReached
    /\ Allocated(s)
    /\ ses' = [ses EXCEPT ![s] = Scrub(Release(NewSession))]
    /\ UNCHANGED <<dns, queue, phase, ready, running, todo, active, connActive>>

\* accept or O_NONBLOCK failed, the limit is reached, or memory is exhausted.
AcceptRefused ==
    /\ AcceptReady
    /\ UNCHANGED <<ses, dns, queue, phase, ready, running, todo, active, connActive>>

-----------------------------------------------------------------------------
\* One round of main's loop: select, visit, notify, sweep.

\* selector_select: copy the master sets and wait.  Interrupted or timed out,
\* nothing is ready.
Select ==
    /\ phase = "select"
    /\ phase' = "iterate"
    /\ incoming' \in BOOLEAN
    /\ ready' \in SUBSET {e \in Events : Wanted(e)}
    /\ UNCHANGED <<ses, dns, queue, running, todo, active, connActive>>

\* handle_iteration is through: the bits left are of fds closed, or no longer
\* interested, when they were visited.
EndIteration ==
    /\ phase = "iterate" /\ running = NoSlot /\ ~incoming
    /\ ~ \E e \in ready : Wanted(e)
    /\ phase' = "notify"
    /\ ready' = {}
    /\ UNCHANGED <<ses, dns, queue, incoming, running, todo, active, connActive>>

\* The DNS thread's reference is given back.
GivenBack(r) == [r EXCEPT !.refs = @ - 1]

\* The list the DNS thread found is taken up.
Connecting(r) == [r EXCEPT !.cur = r.res, !.st = "CONNECTING"]

\* (mutant) the DNS thread's reference is not given back when it found nothing.
ResolvDoneKeeps(r) ==
    IF r.res = 0 THEN {Refuse(r), Errored(Blame(r))}
    ELSE TryConnect(Connecting(GivenBack(r)))

\* request_resolv_done on the session r.
ResolvDone(r) ==
    LET f == GivenBack(r)
    IN IF f.res = 0 THEN {Refuse(f), Errored(Blame(f))} ELSE TryConnect(Connecting(f))

\* handle_block_notifications takes the job of s: the session that has the fd
\* is told, if the fd is still registered.  No pump after this handler.
HandleBlock(s) ==
    /\ phase = "notify" /\ running = NoSlot
    /\ dns[s] = "posted"
    /\ dns' = [dns EXCEPT ![s] = "none"]
    /\ IF ses[s].cint = "unreg" THEN UNCHANGED <<ses, running>>
       ELSE \E r \in ResolvDone(ses[s]) :
              /\ ses' = [ses EXCEPT ![s] = r]
              /\ running' = IF r.st \in EndStates THEN s ELSE NoSlot
    /\ UNCHANGED <<queue, phase, ready, incoming, todo, active, connActive>>

EndNotify ==
    /\ phase = "notify" /\ running = NoSlot
    /\ \A s \in Slots : dns[s] # "posted"
    /\ phase' = "sweep"
    /\ todo' = Live
    /\ UNCHANGED <<ses, dns, queue, ready, incoming, running, active, connActive>>

\* socksv5_check_timeouts leaves s alone: no deadline of its state has passed.
SweepPass(s) ==
    /\ phase = "sweep" /\ s \in todo
    /\ todo' = todo \ {s}
    /\ UNCHANGED <<ses, dns, queue, phase, ready, incoming, running, active, connActive>>

\* (mutant) the client is not woken.
ConnectingTimeoutSilent(r) ==
    [(IF r.oint = "unreg" THEN r ELSE UnregisterOrigin(r)) EXCEPT !.cur = 0]

\* No address is left and the client's fd waits to tell it.
Woken(r) == [r EXCEPT !.cur = 0, !.cint = "W"]

\* connecting_timeout: drop the origin, forget the other addresses, wake the client.
ConnectingTimeout(r) == Woken(IF r.oint = "unreg" THEN r ELSE UnregisterOrigin(r))

ConnectTimeout(s) ==
    /\ phase = "sweep" /\ s \in todo
    /\ ses[s].st = "CONNECTING"
    /\ ses' = [ses EXCEPT ![s] = ConnectingTimeout(ses[s])]
    /\ todo' = todo \ {s}
    /\ UNCHANGED <<dns, queue, phase, ready, incoming, running, active, connActive>>

\* (mutant) a session that waits for the DNS thread expires too.
ExpirableResolving(st) == st \notin {"CONNECTING"} \cup EndStates

\* The states whose deadline ends the session: idle_timeout for COPY, the
\* negotiation deadline for the others.  The DNS thread has a pointer to a
\* session in REQUEST_RESOLV.
Expirable(st) == st \notin {"CONNECTING", "REQUEST_RESOLV"} \cup EndStates

SessionTimeout(s) ==
    /\ phase = "sweep" /\ s \in todo
    /\ Expirable(ses[s].st)
    /\ Finish(s, Blame(ses[s]))
    /\ todo' = todo \ {s}
    /\ UNCHANGED <<dns, queue, phase, ready, incoming, running>>

EndSweep ==
    /\ phase = "sweep" /\ todo = {}
    /\ phase' = "select"
    /\ UNCHANGED <<ses, dns, queue, ready, incoming, running, todo, active, connActive>>

-----------------------------------------------------------------------------
\* dns_thread

DnsTake ==
    /\ queue # <<>>
    /\ \A s \in Slots : dns[s] \notin {"resolving", "answered"}
    /\ dns' = [dns EXCEPT ![Head(queue)] = "resolving"]
    /\ queue' = Tail(queue)
    /\ UNCHANGED <<ses, Loop, ready, running>>

\* getaddrinfo returns n addresses (0: it failed) and the thread writes the
\* list into the session, *job->result_target.
DnsAnswer(s) ==
    /\ dns[s] = "resolving"
    /\ \E n \in 0..MaxAddrs : ses' = [ses EXCEPT ![s] = Resolved(ses[s], n)]
    /\ dns' = [dns EXCEPT ![s] = "answered"]
    /\ UNCHANGED <<queue, Loop, ready, running>>

\* selector_notify_block: handle_block_notifications holds resolution_mutex
\* while it goes through the list.
DnsNotify(s) ==
    /\ dns[s] = "answered" /\ phase # "notify"
    /\ dns' = [dns EXCEPT ![s] = "posted"]
    /\ UNCHANGED <<ses, queue, Loop, ready, running>>

-----------------------------------------------------------------------------
Init ==
    /\ ses = [s \in Slots |-> Blank]
    /\ dns = [s \in Slots |-> "none"]
    /\ queue = <<>>
    /\ phase = "select"
    /\ ready = {} /\ incoming = FALSE
    /\ running = NoSlot
    /\ todo = {}
    /\ active = 0 /\ connActive = 0

Handler(s) ==
    \/ HelloRead(s) \/ HelloWrite(s) \/ AuthRead(s) \/ AuthWrite(s)
    \/ RequestRead(s) \/ RequestWrite(s)
    \/ ConnectingWriteClient(s) \/ Connected(s) \/ ConnectFailed(s)
    \/ Relay(s) \/ End(s)

LoopThread ==
    \/ Select \/ EndIteration \/ EndNotify \/ EndSweep \/ AcceptRefused
    \/ \E s \in Slots :
         \/ Handler(s) \/ HandleBlock(s)
         \/ Accept(s) \/ AcceptUnregistered(s)
         \/ SweepPass(s) \/ ConnectTimeout(s) \/ SessionTimeout(s)

DnsThread == DnsTake \/ \E s \in Slots : DnsAnswer(s) \/ DnsNotify(s)

Next == LoopThread \/ DnsThread

Spec == Init /\ [][Next]_vars

(***************************************************************************)
(* Fairness.  The loop never blocks for good (pselect has a timeout) and   *)
(* the DNS thread runs until its queue is empty; it gets resolution_mutex, *)
(* which the loop never holds while it sleeps.  A deadline is absolute:    *)
(* once passed it is passed at every later sweep, so a sweep that visits   *)
(* the session over and over in the same state ends up taking it (this     *)
(* needs negotiation-timeout, connect-timeout and idle-timeout # 0).       *)
(***************************************************************************)
ThreadFairness ==
    /\ WF_vars(LoopThread)
    /\ WF_vars(DnsThread)
    /\ SF_vars(\E s \in Slots : DnsNotify(s))

DeadlineFairness(s) == SF_vars(SessionTimeout(s) \/ ConnectTimeout(s))

\* pselect reports the client of a connection that failed as writable: it was
\* only sent negotiation replies, so its send buffer has room.
ReportWritable(s) ==
    Select /\ ses[s].st = "CONNECTING" /\ <<s, "client", "W">> \in ready'

ThreadSpec == Spec /\ ThreadFairness

\* The fairness of deadlines and pselect is assumed for one session only, which
\* may be any: nothing tells structs apart.
Watched == CHOOSE s \in Slots : TRUE

FairSpec ==
    ThreadSpec /\ DeadlineFairness(Watched) /\ SF_vars(ReportWritable(Watched))

-----------------------------------------------------------------------------
\* Properties.

\* Every variable has its type.
TypeOK ==
    /\ ses \in [Slots -> SessionType]
    /\ dns \in [Slots -> DnsStatus]
    /\ queue \in Seq(Slots)
    /\ phase \in {"select", "iterate", "notify", "sweep"}
    /\ ready \in SUBSET Events
    /\ incoming \in BOOLEAN
    /\ running \in Slots \cup {NoSlot}
    /\ todo \in SUBSET Slots
    /\ active \in Nat /\ connActive \in Int

One(b) == IF b THEN 1 ELSE 0

\* The pointers to the struct of s that other parts hold: the items of its two
\* fds in the selector and the DNS job's result_target.
Holders(s) ==
    One(ses[s].cint # "unreg") + One(ses[s].oint # "unreg") + One(dns[s] # "none")

\* `references' of a live session counts exactly the pointers to it, and nobody
\* has a pointer to a struct in the pool or in the heap: socks5_destroy recycles
\* a session neither early (a stale pointer) nor never (a leak), however the
\* DNS answer, the connect retries, the timeouts and the close interleave.
ReferencesExact ==
    \A s \in Slots :
        IF ses[s].loc = "live" THEN ses[s].refs = Holders(s) ELSE Holders(s) = 0

\* abort() is never reached: a readiness bit taken before other handlers ran, a
\* DNS notification and a timeout find the session in a state whose row of
\* client_statbl has the handler, and socksv5_done finds its fds registered.
NeverAborts ==
    /\ running = NoSlot =>
         /\ \A e \in ready : Wanted(e) =>
              ses[e[1]].st \in IF e[3] = "R" THEN HasRead ELSE HasWrite
         /\ \A s \in Slots : dns[s] # "none" =>
              ses[s].cint # "unreg" /\ ses[s].st \in HasBlock
    /\ running # NoSlot => ses[running].cint # "unreg"
    /\ \A s \in todo : ses[s].cint # "unreg"

\* When the loop goes to sleep, something can still move every live session:
\* one of its fds is in the fd sets or the DNS thread will post its answer.
\* After the answer, a failed connect or a timeout no path forgets the client.
WakeUp ==
    phase = "select" => \A s \in Live :
        \/ ses[s].cint \in {"R", "W", "copy"}
        \/ ses[s].oint \in {"W", "copy"}
        \/ dns[s] # "none"

\* The access log of a session: nothing if it never named a destination, one
\* FAIL with a known reason if its tunnel never opened, OPEN and then CLOSE
\* otherwise; the closing line is there exactly when the session is over.
LogDiscipline ==
    \A s \in Slots : LET r == ses[s] IN
        r.lines = IF r.loc = "live" THEN (IF r.open THEN <<"OPEN">> ELSE <<>>)
                  ELSE IF ~r.dest THEN <<>>
                  ELSE IF Len(r.lines) = 2 THEN <<"OPEN", "CLOSE">> ELSE <<"FAIL">>

\* A session moves at most one of origin-ok and origin-fail, once: connect
\* retries, a timeout and a late event of the dropped origin never count it
\* twice.  A tunnel is only opened after origin-ok counted it.
OriginCountedOnce ==
    \A s \in Live : LET r == ses[s] IN
        /\ r.ok + r.fail <= 1
        /\ r.st = "COPY" \/ r.out = "success" => r.ok = 1 /\ r.oint # "unreg"

\* A client told to authenticate gets no further than that without users_check
\* having accepted it, also when it sent its request before the answer (the
\* pump goes on with what is buffered), and a rejected one never names a
\* destination.
AuthFirst ==
    \A s \in Live : LET r == ses[s] IN
        /\ r.must /\ (r.dest \/ r.st \in {"REQUEST_READ", "CONNECTING", "COPY"}) => r.user
        /\ r.badpw > 0 => ~r.dest /\ r.badpw = 1

\* g_active_sessions and conn-active are the number of live sessions, whichever
\* of the ways to end each one took: the drain at shutdown waits for it to be 0,
\* and with it max-connections is never exceeded.
ActiveExact ==
    /\ active = Cardinality(Live) /\ connActive = active
    /\ MaxConnections > 0 => Cardinality(Live) <= MaxConnections

\* A session either opens its tunnel or ends: with the deadlines on, no peer can
\* keep it half-way for ever, and in REQUEST_RESOLV, where no deadline reaches it,
\* the DNS thread comes to its job although other sessions keep submitting.
Settles == Watched \in Live ~> (Watched \notin Live \/ ses[Watched].st = "COPY")

-----------------------------------------------------------------------------
(***************************************************************************)
(* The inductive invariant behind ReferencesExact, NeverAborts and WakeUp. *)
(* Shape says what the interests and the references of a session are in    *)
(* each of its states, d being where its DNS job is.                       *)
(***************************************************************************)
LiveShape(r, d) ==
    /\ r.refs = 1 + One(r.oint # "unreg") + One(d # "none")
    /\ r.cint # "unreg"
    /\ d # "none" <=> r.st = "REQUEST_RESOLV"
    /\ r.st \in ReadStates => r.cint = "R" /\ r.oint = "unreg"
    /\ r.st \in {"HELLO_WRITE", "AUTH_WRITE"} => r.cint = "W" /\ r.oint = "unreg"
    /\ r.st = "REQUEST_RESOLV" => r.cint = "noop" /\ r.oint = "unreg"
    /\ r.st = "CONNECTING" => \/ r.oint = "W" /\ r.cint = "noop"
                              \/ r.oint = "unreg" /\ r.cint = "W"
    /\ r.st = "REQUEST_WRITE" => /\ r.cint = "W"
                                 /\ r.oint = IF r.out = "success" THEN "noop" ELSE "unreg"
    /\ r.st = "COPY" => r.cint = "copy" /\ r.oint = "copy"

Shape(r, d) ==
    IF r.loc = "live" THEN LiveShape(r, d)
    ELSE r.cint = "unreg" /\ r.oint = "unreg" /\ d = "none"

\* The queue holds exactly once each slot whose job is "queued".
QueueInv ==
    /\ \A i \in 1..Len(queue) : dns[queue[i]] = "queued"
    /\ \A i, j \in 1..Len(queue) : queue[i] = queue[j] => i = j

\* A session is in DONE or ERROR only inside the handler that will end it.
LoopInv ==
    /\ \A s \in Slots : ses[s].loc = "live" /\ ses[s].st \in EndStates => running = s
    /\ running # NoSlot => ses[running].loc = "live" /\ phase \in {"iterate", "notify"}
    /\ \A s \in todo : ses[s].loc = "live" /\ phase = "sweep"

SessionInv ==
    /\ TypeOK
    /\ \A s \in Slots : Shape(ses[s], dns[s])
    /\ QueueInv
    /\ LoopInv

(***************************************************************************)
(* The inductive invariant behind LogDiscipline, OriginCountedOnce and     *)
(* AuthFirst, on top of SessionInv: what a session has told the access log *)
(* and the counters, and whom it has admitted, by the state it is in.      *)
(***************************************************************************)
Asking   == ReadStates \cup {"HELLO_WRITE", "AUTH_WRITE"}
Admitted == States \ ({"HELLO_READ", "HELLO_WRITE", "AUTH_READ", "AUTH_WRITE"} \cup EndStates)

\* A session that ends with a destination has an open tunnel or a reason.
LogPast(r) ==
    /\ ~r.lgd /\ r.lines = IF r.open THEN <<"OPEN">> ELSE <<>>
    /\ r.open => r.dest /\ r.st \in {"COPY"} \cup EndStates
    /\ r.st \in Asking => ~r.dest
    /\ r.st \in {"REQUEST_RESOLV", "CONNECTING"} => r.dest
    /\ r.st = "REQUEST_WRITE" => IF r.out = "success" THEN r.dest ELSE r.why
    /\ r.st = "COPY" => r.open
    /\ r.st = "DONE" /\ r.dest => r.open \/ r.why

OriginPast(r) ==
    /\ r.ok + r.fail <= 1
    /\ r.st \in Asking \cup {"REQUEST_RESOLV", "CONNECTING"} => r.ok = 0 /\ r.fail = 0
    /\ r.st = "COPY" \/ r.out = "success" => r.ok = 1 /\ r.oint # "unreg"

AuthPast(r) ==
    /\ r.st = "HELLO_WRITE" => r.must = (r.out = "auth")
    /\ r.st = "AUTH_WRITE" /\ r.out = "request" => r.user /\ r.badpw = 0
    /\ r.must /\ (r.dest \/ r.st \in Admitted) => r.user
    /\ r.badpw > 0 => ~r.dest /\ r.badpw = 1 /\ r.st \in {"AUTH_WRITE"} \cup EndStates

\* The lines of a session that is over.
LastLines(r) ==
    IF ~r.dest THEN r.lines = <<>> ELSE r.lines \in {<<"FAIL">>, <<"OPEN", "CLOSE">>}

Past(r) ==
    IF r.loc = "live" THEN LogPast(r) /\ OriginPast(r) /\ AuthPast(r) ELSE LastLines(r)

PastInv == \A s \in Slots : Past(ses[s])

=============================================================================
