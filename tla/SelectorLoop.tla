---------------------------- MODULE SelectorLoop ----------------------------
(***************************************************************************)
(* The selector's table of descriptors (src/shared/selector.c) and the way *)
(* the SOCKS sessions use descriptor numbers (src/shared/socks5.c): the    *)
(* kernel hands out the lowest free number, so a number closed by one      *)
(* session can come back as another's within one handle_iteration, while   *)
(* the readiness that pselect reported is kept by number.                  *)
(*                                                                         *)
(* Sessions are abstracted to the states that differ in their use of       *)
(* descriptors.  Bytes, buffers and the interests of COPY are in modules   *)
(* Socks5 and CopyRelay: here a descriptor of a tunnel may be ready for    *)
(* anything at any time.                                                   *)
(***************************************************************************)
EXTENDS Integers, FiniteSets

CONSTANTS
    Slots,      \* sessions
    NoSlot,     \* stands for NULL and for no session
    OsMax,      \* highest number the kernel hands out (RLIMIT_NOFILE)
    ItemsMax    \* ITEMS_MAX_SIZE: numbers the selector takes are below it

ASSUME FdAssumption ==
    OsMax \in Nat /\ ItemsMax \in Nat \ {0} /\ NoSlot \notin Slots

Fds == 0..OsMax
Listener == 0     \* opened first: the lowest number
NoFd == -1

VARIABLES
    item,     \* fds[]: data and interest by descriptor number
    open,     \* numbers the kernel has open
    conn,     \* kernel: state of the connect of a session's origin socket
    ses,      \* [Slots -> session]
    phase,    \* "wait", "iterate", "notify" or "sweep"
    slaveR,   \* slave_r, what handle_iteration has not passed yet
    slaveW,   \* slave_w, likewise
    jobs,     \* resolution_jobs: descriptor numbers
    fresh,    \* history: numbers opened in this iteration (or sweep)
    asked     \* history: the session that each job was made for

vars == <<item, open, conn, ses, phase, slaveR, slaveW, jobs, fresh, asked>>

Unused == [data |-> NoSlot, interest |-> {}, used |-> FALSE]
Used(f) == item[f].used
NoSession == [st |-> "none", client |-> NoFd, origin |-> NoFd, good |-> FALSE]

\* items_max_fd, and what selector_register makes of max_fd
MaxFd(it) == CHOOSE m \in Fds : (m = 0 \/ it[m].used) /\ \A f \in Fds : it[f].used => f <= m

\* socket and accept return the lowest free number, or fail.
Lowest(os) == CHOOSE f \in Fds \ os : \A g \in Fds \ os : f <= g
CanOpen(os) == os # Fds

-----------------------------------------------------------------------------
\* The state that handlers transform: the table, the kernel and one session.

\* selector_register, for a number that the selector takes
Registered(w, f, s, ops) ==
    [w EXCEPT !.item[f] = [data |-> s, interest |-> ops, used |-> TRUE]]

\* selector_unregister_fd
Unregistered(w, f) == [w EXCEPT !.item[f] = Unused]

\* close
ClosedFd(w, f) == [w EXCEPT !.open = @ \ {f}, !.fresh = @ \ {f}]

OpenedFd(w, f) == [w EXCEPT !.open = @ \cup {f}, !.fresh = @ \cup {f}]

\* selector_set_interest
Interested(w, f, ops) == [w EXCEPT !.item[f].interest = ops]

\* The origin socket goes: connecting_write, connecting_timeout.
DropOrigin(w) ==
    IF w.me.origin = NoFd THEN w
    ELSE [ClosedFd(Unregistered(w, w.me.origin), w.me.origin) EXCEPT !.me.origin = NoFd,
                                                                  !.conn = "none"]

\* socksv5_done, and socks5_destroy of the last reference
Done(w) ==
    LET v == ClosedFd(Unregistered(w, w.me.client), w.me.client)
    IN  [DropOrigin(v) EXCEPT !.me = NoSession]

\* client_fd waits to send the error reply.
Failing(w) == [Interested(w, w.me.client, {"W"}) EXCEPT !.me.st = "connecting"]

\* (mutant) a connect that succeeds at once opens the tunnel at once.
ConnectTunnels(w, s) ==
    LET f == Lowest(w.open) IN
    IF ~CanOpen(w.open) \/ f >= ItemsMax THEN Failing(w)
    ELSE [Registered(OpenedFd(Interested(w, w.me.client, {"R", "W"}), f), f, s, {"R", "W"})
            EXCEPT !.me.st = "copy", !.me.origin = f, !.conn = "up"]

\* (mutant) a number that the selector refuses stays open.
ConnectLeaks(w, s) ==
    LET f == Lowest(w.open) IN
    IF ~CanOpen(w.open) THEN Failing(w)
    ELSE IF f >= ItemsMax THEN Failing(OpenedFd(w, f))
    ELSE [Registered(OpenedFd(Interested(w, w.me.client, {}), f), f, s, {"W"})
            EXCEPT !.me.st = "connecting", !.me.origin = f, !.conn = "progress"]

\* connecting_init, connecting_try_one and connecting_register_origin: the
\* connect goes on in the kernel.  A connect that fails at once is Failing.
Connect(w, s) ==
    LET f == Lowest(w.open) IN
    IF ~CanOpen(w.open) \/ f >= ItemsMax THEN Failing(w)
    ELSE [Registered(OpenedFd(Interested(w, w.me.client, {}), f), f, s, {"W"})
            EXCEPT !.me.st = "connecting", !.me.origin = f, !.conn = "progress"]

\* The reply is queued on client_fd.
Replying(w, ok) ==
    [Interested(w, w.me.client, {"W"}) EXCEPT !.me.st = "reply", !.me.good = ok]

\* copy_init
Tunnel(w) ==
    [Interested(Interested(w, w.me.client, {"R", "W"}), w.me.origin, {"R", "W"})
        EXCEPT !.me.st = "copy"]

\* REQUEST_WRITE as socksv5_pump leaves it: the reply waits for OP_WRITE, or it
\* was sent at once, or send failed.
Replies(w, ok) ==
    {Replying(w, ok), Done(w)} \cup (IF ok THEN {Tunnel(Replying(w, ok))} ELSE {})

World(s) == [item |-> item, open |-> open, fresh |-> fresh, conn |-> conn[s], me |-> ses[s]]

\* The handler of session s leaves w.
Leaves(s, w) ==
    /\ item' = w.item /\ open' = w.open /\ fresh' = w.fresh
    /\ conn' = [conn EXCEPT ![s] = w.conn]
    /\ ses' = [ses EXCEPT ![s] = w.me]

-----------------------------------------------------------------------------
Init ==
    /\ item = [f \in Fds |-> IF f = Listener
                             THEN [data |-> NoSlot, interest |-> {"R"}, used |-> TRUE]
                             ELSE Unused]
    /\ open = {Listener}
    /\ conn = [s \in Slots |-> "none"]
    /\ ses = [s \in Slots |-> NoSession]
    /\ phase = "wait"
    /\ slaveR = {} /\ slaveW = {} /\ jobs = {} /\ fresh = {} /\ asked = [f \in Fds |-> NoSlot]

\* What the kernel can report of descriptor f.  A connect in progress is not
\* writable; when it is over, it is.
MayRead(f)  == Used(f) /\ "R" \in item[f].interest
MayWrite(f) ==
    /\ Used(f) /\ "W" \in item[f].interest
    /\ item[f].data # NoSlot /\ ses[item[f].data].origin = f => conn[item[f].data] # "progress"

\* selector_select up to handle_iteration
Select ==
    /\ phase = "wait"
    /\ slaveR' \in SUBSET {f \in 0..MaxFd(item) : MayRead(f)}
    /\ slaveW' \in SUBSET {f \in 0..MaxFd(item) : MayWrite(f)}
    /\ phase' = "iterate"
    /\ UNCHANGED <<item, open, conn, ses, jobs, fresh, asked>>

\* pselect was interrupted by a signal: only the notifications are looked at.
Interrupted ==
    /\ phase = "wait" /\ phase' = "notify"
    /\ UNCHANGED <<item, open, conn, ses, slaveR, slaveW, jobs, fresh, asked>>

\* The conditions of handle_iteration under which a handler is called at p: 2*i
\* is the read of descriptor i, 2*i + 1 its write.
Calls(p) ==
    LET f == p \div 2
        dir == IF p % 2 = 0 THEN "R" ELSE "W"
    IN  /\ Used(f) /\ dir \in item[f].interest
        /\ f \in (IF dir = "R" THEN slaveR ELSE slaveW)

\* The loop passes over the descriptors and directions without a call.
Ahead == {p \in 0..(2 * OsMax + 1) : Calls(p)}
Here  == CHOOSE p \in Ahead : \A q \in Ahead : p <= q
Fd    == Here \div 2
Owner == item[Fd].data
Reads  == phase = "iterate" /\ Ahead # {} /\ Here % 2 = 0
Writes == phase = "iterate" /\ Ahead # {} /\ Here % 2 = 1

\* The loop has passed every position up to Here; it never goes back to one.
Handled ==
    /\ slaveR' = {f \in slaveR : 2 * f > Here}
    /\ slaveW' = {f \in slaveW : 2 * f + 1 > Here}
    /\ UNCHANGED phase

EndIterate ==
    /\ phase = "iterate" /\ Ahead = {}
    /\ phase' = "notify" /\ slaveR' = {} /\ slaveW' = {}
    /\ fresh' = {}
    /\ UNCHANGED <<item, open, conn, ses, jobs, asked>>

\* socksv5_passive_accept: a number too high for the selector is closed again.
Accept ==
    LET f == Lowest(open) IN
    /\ Reads /\ Owner = NoSlot
    /\ \/ /\ CanOpen(open) /\ f < ItemsMax
          /\ \E s \in Slots :
               /\ ses[s].st = "none"
               /\ Leaves(s, [Registered(OpenedFd(World(s), f), f, s, {"R"})
                               EXCEPT !.me.st = "read", !.me.client = f])
       \/ UNCHANGED <<item, open, conn, ses, fresh>>
    /\ Handled /\ UNCHANGED <<jobs, asked>>

\* The handlers of the negotiation, chained by socksv5_pump: more to read or
\* to send, the end of the session, or a request for an address.
Negotiate ==
    LET s == Owner
        w == World(s)
    IN
    /\ Reads \/ Writes
    /\ s # NoSlot /\ ses[s].st = "read"
    /\ \E v \in {Interested(w, Fd, {"R"}), Interested(w, Fd, {"W"}),
                 Connect(w, s), Failing(w)} \cup Replies(w, FALSE) : Leaves(s, v)
    /\ Handled /\ UNCHANGED <<jobs, asked>>

\* request_process for a name: the DNS thread keeps the number of client_fd.
AskName ==
    LET s == Owner IN
    /\ Reads \/ Writes
    /\ s # NoSlot /\ ses[s].st = "read"
    /\ Leaves(s, [Interested(World(s), Fd, {}) EXCEPT !.me.st = "resolv"])
    /\ asked' = [asked EXCEPT ![Fd] = s]
    /\ Handled /\ UNCHANGED jobs

\* connecting_write: SO_ERROR is the connect's error, 0 when there is none yet.
ConnectingWrite ==
    LET s == Owner
        w == World(s)
        results ==
            IF Fd = ses[s].client THEN Replies(w, FALSE)
            ELSE IF conn[s] # "refused" THEN Replies(Interested(w, Fd, {}), TRUE)
            ELSE {Connect(DropOrigin(w), s), Failing(DropOrigin(w))} \cup Replies(DropOrigin(w), FALSE)
    IN
    /\ Writes /\ s # NoSlot /\ ses[s].st = "connecting"
    /\ \E v \in results : Leaves(s, v)
    /\ Handled /\ UNCHANGED <<jobs, asked>>

\* request_write
ReplyWrite ==
    LET s == Owner IN
    /\ Writes /\ s # NoSlot /\ ses[s].st = "reply"
    /\ \E v \in Replies(World(s), ses[s].good) : Leaves(s, v)
    /\ Handled /\ UNCHANGED <<jobs, asked>>

\* copy_read, copy_write
Copy ==
    LET s == Owner IN
    /\ Reads \/ Writes
    /\ s # NoSlot /\ ses[s].st = "copy"
    /\ Leaves(s, World(s)) \/ Leaves(s, Done(World(s)))
    /\ Handled /\ UNCHANGED <<jobs, asked>>

\* handle_block_notifications: the job's number selects the item.
NotifyBlock(f) ==
    LET s == item[f].data
        w == World(s)
    IN
    /\ phase = "notify" /\ f \in jobs
    /\ jobs' = jobs \ {f}
    /\ IF Used(f) THEN \/ Leaves(s, Connect(w, s))
                       \/ Leaves(s, Failing(w))
                       \/ Leaves(s, Replying(w, FALSE))
       ELSE UNCHANGED <<item, open, conn, ses, fresh>>
    /\ asked' = [asked EXCEPT ![f] = NoSlot]
    /\ UNCHANGED <<phase, slaveR, slaveW>>

\* (mutant) sessions in REQUEST_RESOLV are dropped too.
ExpireAny(s) ==
    LET w == World(s) IN
    /\ phase = "sweep"
    /\ \/ ses[s].st \in {"read", "reply", "copy", "resolv"} /\ Leaves(s, Done(w))
       \/ ses[s].st = "connecting" /\ Leaves(s, Failing(DropOrigin(w)))
    /\ UNCHANGED <<phase, slaveR, slaveW, jobs, asked>>

\* The sweep may drop any session that is not in REQUEST_RESOLV; a connect that
\* takes too long is abandoned.
Expire(s) ==
    LET w == World(s) IN
    /\ phase = "sweep"
    /\ \/ ses[s].st \in {"read", "reply", "copy"} /\ Leaves(s, Done(w))
       \/ ses[s].st = "connecting" /\ Leaves(s, Failing(DropOrigin(w)))
    /\ UNCHANGED <<phase, slaveR, slaveW, jobs, asked>>

\* The pass over resolution_jobs is over and the mutex is free again.
EndNotify ==
    /\ phase = "notify" /\ jobs = {}
    /\ phase' = "sweep"
    /\ UNCHANGED <<item, open, conn, ses, slaveR, slaveW, jobs, fresh, asked>>

EndRound ==
    /\ phase = "sweep"
    /\ phase' = "wait" /\ fresh' = {}
    /\ UNCHANGED <<item, open, conn, ses, slaveR, slaveW, jobs, asked>>

\* selector_notify_block, called by the DNS thread; the pass holds the mutex
DnsAnswers(f) ==
    /\ phase # "notify" /\ asked[f] # NoSlot /\ f \notin jobs
    /\ jobs' = jobs \cup {f}
    /\ UNCHANGED <<item, open, conn, ses, phase, slaveR, slaveW, fresh, asked>>

\* The kernel finishes a connect.
KernelConnects(s) ==
    /\ conn[s] = "progress" /\ ses[s].st = "connecting"
    /\ \E r \in {"up", "refused"} : conn' = [conn EXCEPT ![s] = r]
    /\ UNCHANGED <<item, open, ses, phase, slaveR, slaveW, jobs, fresh, asked>>

Next ==
    \/ Select \/ Interrupted \/ EndIterate \/ Accept \/ Negotiate \/ AskName
    \/ ConnectingWrite \/ ReplyWrite \/ Copy \/ EndNotify \/ EndRound
    \/ \E f \in Fds : NotifyBlock(f) \/ DnsAnswers(f)
    \/ \E s \in Slots : Expire(s) \/ KernelConnects(s)

Spec == Init /\ [][Next]_vars

-----------------------------------------------------------------------------
SessionStates == {"none", "read", "resolv", "connecting", "reply", "copy"}

TypeOK ==
    /\ item \in [Fds -> [data : Slots \cup {NoSlot}, interest : SUBSET {"R", "W"}, used : BOOLEAN]]
    /\ open \subseteq Fds /\ jobs \subseteq Fds /\ fresh \subseteq open
    /\ slaveR \subseteq Fds /\ slaveW \subseteq Fds
    /\ conn \in [Slots -> {"none", "progress", "up", "refused"}]
    /\ ses \in [Slots -> [st : SessionStates, client : Fds \cup {NoFd},
                          origin : Fds \cup {NoFd}, good : BOOLEAN]]
    /\ phase \in {"wait", "iterate", "notify", "sweep"}
    /\ asked \in [Fds -> Slots \cup {NoSlot}]

(***************************************************************************)
(* The kernel's descriptors, the selector's table and the sessions agree:  *)
(* every open number is registered (none leaks, on the error paths too)    *)
(* and no registered number is closed; the data of an item is the session  *)
(* that has the number as its client or its origin, and every number of a  *)
(* session is registered with it.                                          *)
(***************************************************************************)
FdsExact ==
    /\ TypeOK
    /\ open = {f \in Fds : Used(f)}
    /\ \A f \in open \ {Listener} :
         item[f].data # NoSlot /\ f \in {ses[item[f].data].client, ses[item[f].data].origin}
    /\ \A s \in Slots : \A f \in {ses[s].client, ses[s].origin} \ {NoFd} :
         f \in open /\ item[f].data = s

(***************************************************************************)
(* The number that the DNS thread kept is still the descriptor of the      *)
(* session that asked, which still waits: a notification never reaches     *)
(* another session (socks5.c:1266, design.md:107).                         *)
(***************************************************************************)
JobsReachAsker ==
    \A f \in Fds : asked[f] # NoSlot =>
        ses[asked[f]].st = "resolv" /\ ses[asked[f]].client = f

(***************************************************************************)
(* Readiness that pselect reported for an earlier descriptor of the same   *)
(* number reaches one handler only: connecting_write for an origin that    *)
(* was opened in this iteration.  recv, accept and the sends of the other  *)
(* states never run on it.                                                 *)
(***************************************************************************)
StaleOnlyConnecting ==
    (Reads \/ Writes) /\ Fd \in fresh =>
        Writes /\ ses[Owner].st = "connecting" /\ ses[Owner].origin = Fd

(***************************************************************************)
(* docs/design.md:116: the selector reports the descriptor when the        *)
(* connect is over and SO_ERROR tells its result; so a client is told of   *)
(* success only for a connection that is established.                      *)
(***************************************************************************)
SuccessIsReal ==
    \A s \in Slots : ses[s].good /\ ses[s].st \in {"reply", "copy"} => conn[s] = "up"
-----------------------------------------------------------------------------
(***************************************************************************)
(* The inductive invariant behind FdsExact, JobsReachAsker and             *)
(* StaleOnlyConnecting.                                                    *)
(***************************************************************************)

\* Which descriptors a session has in which state.
Shape(r) ==
    /\ r.st = "none" <=> r.client = NoFd
    /\ r.origin # NoFd => r.st \in {"connecting", "reply", "copy"} /\ r.origin # r.client
    /\ r.st = "copy" \/ (r.st = "reply" /\ r.good) => r.origin # NoFd

FdInv ==
    /\ FdsExact
    /\ item[Listener] = [data |-> NoSlot, interest |-> {"R"}, used |-> TRUE]
    /\ \A s \in Slots : Shape(ses[s])

JobsInv == JobsReachAsker /\ \A f \in jobs : asked[f] # NoSlot

Slaves == slaveR \cup slaveW

\* A number opened in this iteration that handle_iteration may still call is the
\* origin of a connect in progress, whose client is not listened to.
Connects(f) ==
    LET r == ses[item[f].data] IN
    /\ r.st = "connecting" /\ r.origin = f /\ item[f].interest = {"W"}
    /\ item[r.client].interest = {}

\* Until the listener has been served, nothing that pselect reported is closed.
FreshInv ==
    /\ phase # "iterate" => Slaves = {}
    /\ phase = "wait" => fresh = {}
    /\ Listener \in slaveR => Slaves \subseteq open
    /\ \A f \in fresh \cap Slaves : Connects(f)

LoopInv == FdInv /\ JobsInv /\ FreshInv
=============================================================================
