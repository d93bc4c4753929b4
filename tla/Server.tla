------------------------------- MODULE Server -------------------------------
(***************************************************************************)
(* The life of the server process: start-up, main's loop with the signals  *)
(* that end it, and the cleanup (src/server/main.c), next to the DNS       *)
(* thread (src/shared/dns_worker.c) that the cleanup joins and that writes *)
(* to the selector and to sessions (src/shared/selector.c, socks5.c).      *)
(*                                                                         *)
(* Sessions are abstracted to what the loop's end and the cleanup depend   *)
(* on: whether they are active, wait for the DNS thread, connect or have   *)
(* an open tunnel, their open descriptors and the references to them.      *)
(***************************************************************************)
EXTENDS Integers, Sequences, FiniteSets

CONSTANTS
    Slots,        \* SOCKS sessions
    Admins,       \* management sessions
    MaxSignals    \* bound: SIGTERM/SIGINT delivered; the third is like the second

ASSUME SignalsAssumption == MaxSignals \in Nat
ASSUME SlotsAssumption == IsFiniteSet(Slots)

VARIABLES
    pc,         \* where main is
    have,       \* resources of the process: sockets, memory, thread
    given,      \* the resources in the arguments of cleanup
    signals,    \* signal_count
    draining,   \* main's local
    ses,        \* [Slots -> state of the session]
    fds,        \* [Slots -> open descriptors: the client's, then the origin's]
    refs,       \* [Slots -> references; 0: the struct is in the pool or freed]
    admins,     \* open management sessions
    queue,      \* dns_worker: queue_head .. queue_tail
    thread,     \* where the DNS thread is
    job,        \* the session whose name the thread resolves
    posted      \* resolution_jobs

vars == <<pc, have, given, signals, draining, ses, fds, refs, admins, queue,
          thread, job, posted>>

Stages == <<"shared", "accounts", "socks", "mng", "nio", "selector", "dns", "register">>
Shared == {"users", "metrics", "log"}
Listeners == {"socks", "mng"}

\* What each step of main acquires.
Acquires ==
    [shared |-> Shared, accounts |-> {}, socks |-> {"socks"}, mng |-> {"mng"}, nio |-> {},
     selector |-> {"selector"}, dns |-> {"dns"}, register |-> {}]

\* (mutant) the first socket is forgotten when the second cannot be had.
CleanupForgets(stage) ==
    CASE stage = "shared"   -> have
      [] stage \in {"accounts", "socks", "mng"} -> Shared
      [] stage \in {"nio", "selector"} -> Shared \cup Listeners
      [] stage = "dns"      -> Shared \cup Listeners \cup {"selector"}
      [] stage = "register" -> Shared \cup Listeners \cup {"selector", "dns"}

\* The arguments of the call of cleanup when a step fails.
CleanupArgs(stage) ==
    CASE stage = "shared"   -> have
      [] stage \in {"accounts", "socks"} -> Shared
      [] stage = "mng"      -> Shared \cup {"socks"}
      [] stage \in {"nio", "selector"} -> Shared \cup Listeners
      [] stage = "dns"      -> Shared \cup Listeners \cup {"selector"}
      [] stage = "register" -> Shared \cup Listeners \cup {"selector", "dns"}

NoJob == "none"
Active == {s \in Slots : ses[s] # "none"}

Init ==
    /\ pc = <<"start", 1>> /\ have = {} /\ given = {}
    /\ signals = 0 /\ draining = FALSE
    /\ ses = [s \in Slots |-> "none"] /\ admins = {}
    /\ fds = [s \in Slots |-> 0] /\ refs = [s \in Slots |-> 0]
    /\ queue = <<>> /\ thread = "none" /\ job = NoJob /\ posted = {}

At(where) == pc = <<where, 0>>
Goto(where) == pc' = <<where, 0>>

sesVars  == <<ses, fds, refs>>
loopVars == <<ses, fds, refs, admins, queue, job, posted>>

-----------------------------------------------------------------------------
\* Start-up

StartStep ==
    /\ pc[1] = "start"
    /\ LET stage == Stages[pc[2]] IN
       /\ have' = have \cup Acquires[stage]
       /\ thread' = IF stage = "dns" THEN "run" ELSE thread
    /\ IF pc[2] = Len(Stages) THEN Goto("signals>1") ELSE pc' = <<"start", pc[2] + 1>>
    /\ UNCHANGED <<given, signals, draining>> /\ UNCHANGED loopVars

\* A step fails; the first one with any of the three allocations that succeeded.
StartFails ==
    /\ pc[1] = "start"
    /\ have' \in IF pc[2] = 1 THEN SUBSET Shared \ {Shared} ELSE {have}
    /\ given' = IF pc[2] = 1 THEN have' ELSE CleanupArgs(Stages[pc[2]])
    /\ Goto("cleanup")
    /\ UNCHANGED <<signals, draining, thread>> /\ UNCHANGED loopVars

-----------------------------------------------------------------------------
\* The loop

\* What main passes to cleanup after the loop: -1 for a listener it closed.
Everything == {r \in Shared \cup Listeners \cup {"selector", "dns"} : r \in have}

Break ==
    /\ Goto("cleanup") /\ given' = Everything
    /\ UNCHANGED <<have, signals, draining, thread>> /\ UNCHANGED loopVars

SecondSignal == At("signals>1") /\ signals > 1 /\ Break

FirstTest ==
    /\ At("signals>1") /\ signals <= 1
    /\ Goto("signals=1")
    /\ UNCHANGED <<have, given, signals, draining, thread>> /\ UNCHANGED loopVars

\* (mutant) only the SOCKS listener is closed.
DrainSocksOnly ==
    /\ At("signals=1")
    /\ LET drain == signals = 1 /\ ~draining IN
       /\ have' = IF drain THEN have \ {"socks"} ELSE have
       /\ draining' = (draining \/ drain)
    /\ Goto("drained")
    /\ UNCHANGED <<given, signals, thread>> /\ UNCHANGED loopVars

\* The first signal: both listeners are unregistered and closed.
Drain ==
    /\ At("signals=1")
    /\ LET drain == signals = 1 /\ ~draining IN
       /\ have' = IF drain THEN have \ Listeners ELSE have
       /\ draining' = (draining \/ drain)
    /\ Goto("drained")
    /\ UNCHANGED <<given, signals, thread>> /\ UNCHANGED loopVars

Drained == At("drained") /\ draining /\ Active = {} /\ admins = {} /\ Break

ToSelect ==
    /\ At("drained") /\ ~(draining /\ Active = {} /\ admins = {})
    /\ Goto("select")
    /\ UNCHANGED <<have, given, signals, draining, thread>> /\ UNCHANGED loopVars

\* pselect returns: an event, a signal, or SELECTOR_TIMEOUT_SECS.
SelectReturns ==
    /\ At("select")
    /\ Goto("serve")
    /\ UNCHANGED <<have, given, signals, draining, thread>> /\ UNCHANGED loopVars

SelectFails == At("select") /\ Break

\* The handlers, the notifications and the sweep of the round.
Serve == At("serve") /\ UNCHANGED <<pc, have, given, signals, draining>>

AcceptSocks(s) ==
    /\ Serve /\ "socks" \in have /\ ses[s] = "none" /\ refs[s] = 0
    /\ ses' = [ses EXCEPT ![s] = "active"]
    /\ fds' = [fds EXCEPT ![s] = 1]
    /\ refs' = [refs EXCEPT ![s] = 1]
    /\ UNCHANGED <<admins, queue, thread, job, posted>>

AcceptAdmin(a) ==
    /\ Serve /\ "mng" \in have /\ a \notin admins
    /\ admins' = admins \cup {a}
    /\ UNCHANGED sesVars /\ UNCHANGED <<queue, thread, job, posted>>

EndAdmin(a) ==
    /\ Serve /\ a \in admins
    /\ admins' = admins \ {a}
    /\ UNCHANGED sesVars /\ UNCHANGED <<queue, thread, job, posted>>

\* pthread_cond_signal
Woken == IF thread = "sleep" THEN "run" ELSE thread

\* dns_worker_submit, and the reference for the DNS worker
Submit(s) ==
    /\ Serve /\ ses[s] = "active"
    /\ ses' = [ses EXCEPT ![s] = "resolv"]
    /\ refs' = [refs EXCEPT ![s] = @ + 1]
    /\ queue' = Append(queue, s)
    /\ thread' = Woken
    /\ UNCHANGED <<fds, admins, job, posted>>

\* connecting_init: a socket to the origin is had and registered, or none.
Connecting(s, left) ==
    /\ ses' = [ses EXCEPT ![s] = "connecting"]
    /\ \E n \in 0..1 : /\ fds' = [fds EXCEPT ![s] = @ + n]
                       /\ refs' = [refs EXCEPT ![s] = left + n]

\* request_resolv_done
Resolved(s) ==
    /\ Serve /\ s \in posted
    /\ posted' = posted \ {s}
    /\ Connecting(s, refs[s] - 1)
    /\ UNCHANGED <<admins, queue, thread, job>>

\* The request names an address: no resolution.
Connect(s) ==
    /\ Serve /\ ses[s] = "active"
    /\ Connecting(s, refs[s])
    /\ UNCHANGED <<admins, queue, thread, job, posted>>

\* (mutant) the descriptor is closed and not unregistered: no close handler runs.
LoseOriginClosesOnly(s) ==
    /\ Serve /\ ses[s] = "connecting" /\ fds[s] = 2
    /\ fds' = [fds EXCEPT ![s] = @ - 1]
    /\ UNCHANGED <<ses, refs, admins, queue, thread, job, posted>>

\* connecting_write or connecting_timeout unregisters and closes the origin's
\* descriptor; an attempt with the next address that succeeds changes nothing here.
LoseOrigin(s) ==
    /\ Serve /\ ses[s] = "connecting" /\ fds[s] = 2
    /\ fds' = [fds EXCEPT ![s] = @ - 1]
    /\ refs' = [refs EXCEPT ![s] = @ - 1]
    /\ UNCHANGED <<ses, admins, queue, thread, job, posted>>

\* copy_init and socks5_log_open
OpenTunnel(s) ==
    /\ Serve /\ ses[s] = "connecting" /\ fds[s] = 2
    /\ ses' = [ses EXCEPT ![s] = "tunnel"]
    /\ UNCHANGED <<fds, refs, admins, queue, thread, job, posted>>

\* socks5_destroy, called by the close handler of each descriptor
Destroyed(s) == refs[s] - fds[s]

\* socksv5_done, with socks5_log_event; never in REQUEST_RESOLV
EndSession(s) ==
    /\ Serve /\ ses[s] \in {"active", "connecting", "tunnel"}
    /\ ses' = [ses EXCEPT ![s] = "none"]
    /\ fds' = [fds EXCEPT ![s] = 0]
    /\ refs' = [refs EXCEPT ![s] = Destroyed(s)]
    /\ UNCHANGED <<admins, queue, thread, job, posted>>

EndRound ==
    /\ At("serve")
    /\ Goto("signals>1")
    /\ UNCHANGED <<have, given, signals, draining, thread>> /\ UNCHANGED loopVars

\* The handlers are installed after both sockets are had.
HandlerInstalled ==
    CASE pc[1] = "start" -> pc[2] > 4
      [] pc[1] \in {"cleanup", "join", "selector", "rest"} -> draining \/ Listeners \subseteq given
      [] pc[1] = "exited" -> FALSE
      [] OTHER -> TRUE

\* sigterm_handler; main may be anywhere.
Signal ==
    /\ HandlerInstalled /\ signals < MaxSignals
    /\ signals' = signals + 1
    /\ UNCHANGED <<pc, have, given, draining, thread>> /\ UNCHANGED loopVars

-----------------------------------------------------------------------------
\* The DNS thread

\* The critical section at the top of dns_thread's loop.
ThreadLooks ==
    /\ thread = "run"
    /\ \/ queue # <<>> /\ thread' = "resolve" /\ job' = Head(queue) /\ queue' = Tail(queue)
       \/ queue = <<>> /\ thread' = (IF "dns" \in have THEN "sleep" ELSE "ended")
            /\ UNCHANGED <<job, queue>>
    /\ UNCHANGED <<pc, have, given, signals, draining, admins, posted>> /\ UNCHANGED sesVars

\* getaddrinfo returns; the result is stored in the session and the selector told.
ThreadAnswers ==
    /\ thread = "resolve"
    /\ posted' = posted \cup {job}
    /\ job' = NoJob
    /\ thread' = "run"
    /\ UNCHANGED <<pc, have, given, signals, draining, admins, queue>> /\ UNCHANGED sesVars

-----------------------------------------------------------------------------
\* cleanup

\* (mutant) the thread is told to end, and nobody wakes it.
StopDnsSilently ==
    /\ At("cleanup")
    /\ IF "dns" \in given THEN Goto("join") /\ have' = have \ {"dns"} /\ thread' = thread
       ELSE Goto("selector") /\ UNCHANGED <<have, thread>>
    /\ UNCHANGED <<given, signals, draining>> /\ UNCHANGED loopVars

\* (mutant) the thread is told to end, and nobody waits for it.
StopDnsNoJoin ==
    /\ At("cleanup")
    /\ IF "dns" \in given THEN have' = have \ {"dns"} /\ thread' = Woken
       ELSE UNCHANGED <<have, thread>>
    /\ Goto("selector")
    /\ UNCHANGED <<given, signals, draining>> /\ UNCHANGED loopVars

\* dns_worker_destroy up to pthread_join; "dns" in have is its field running
StopDns ==
    /\ At("cleanup")
    /\ IF "dns" \in given THEN Goto("join") /\ have' = have \ {"dns"} /\ thread' = Woken
       ELSE Goto("selector") /\ UNCHANGED <<have, thread>>
    /\ UNCHANGED <<given, signals, draining>> /\ UNCHANGED loopVars

\* pthread_join returns: the thread has emptied the queue.
Join ==
    /\ At("join") /\ thread = "ended"
    /\ Goto("selector")
    /\ UNCHANGED <<have, given, signals, draining, thread>> /\ UNCHANGED loopVars

\* selector_destroy: the close handler of every descriptor runs, which for a SOCKS
\* session gives a reference back and closes nothing (socksv5_close); mng_close ends
\* its session.  The pending notifications are freed, not delivered.
DestroySelector ==
    /\ At("selector")
    /\ IF "selector" \in given
       THEN /\ have' = have \ {"selector"}
            /\ refs' = [s \in Slots |-> Destroyed(s)] /\ admins' = {} /\ posted' = {}
       ELSE UNCHANGED <<have, refs, admins, posted>>
    /\ Goto("rest")
    /\ UNCHANGED <<given, signals, draining, ses, fds, queue, thread, job>>

\* The pools, the listeners that are left, the users, the metrics and the log.
DestroyRest ==
    /\ At("rest")
    /\ have' = have \ (given \cap (Listeners \cup Shared))
    /\ Goto("exited")
    /\ UNCHANGED <<given, signals, draining, thread>> /\ UNCHANGED loopVars

Main == StartStep \/ StartFails \/ SecondSignal \/ FirstTest \/ Drain \/ Drained
          \/ ToSelect \/ SelectReturns \/ EndRound \/ StopDns \/ Join \/ DestroySelector
          \/ DestroyRest

Thread == ThreadLooks \/ ThreadAnswers

Next ==
    \/ Main \/ Thread \/ Signal \/ SelectFails
    \/ \E s \in Slots : AcceptSocks(s) \/ Submit(s) \/ Resolved(s) \/ Connect(s)
                         \/ LoseOrigin(s) \/ OpenTunnel(s) \/ EndSession(s)
    \/ \E a \in Admins : AcceptAdmin(a) \/ EndAdmin(a)

(***************************************************************************)
(* The two threads run; getaddrinfo returns; a round serves what is ready  *)
(* and ends.  Nothing makes a session end: that is the peers' choice.      *)
(***************************************************************************)
Fairness == WF_vars(Main) /\ WF_vars(Thread)

Spec == Init /\ [][Next]_vars /\ Fairness

-----------------------------------------------------------------------------
TypeOK ==
    /\ pc \in {<<"start", i>> : i \in 1..Len(Stages)} \cup
              {<<p, 0>> : p \in {"signals>1", "signals=1", "drained", "select", "serve",
                                 "cleanup", "join", "selector", "rest", "exited"}}
    /\ have \subseteq Shared \cup Listeners \cup {"selector", "dns"}
    /\ given \subseteq Shared \cup Listeners \cup {"selector", "dns"}
    /\ signals \in 0..MaxSignals /\ draining \in BOOLEAN
    /\ ses \in [Slots -> {"none", "active", "resolv", "connecting", "tunnel"}]
    /\ fds \in [Slots -> 0..2] /\ refs \in [Slots -> 0..2]
    /\ admins \subseteq Admins /\ posted \subseteq Slots
    /\ queue \in Seq(Slots) /\ Len(queue) <= Cardinality(Slots)
    /\ thread \in {"none", "run", "sleep", "resolve", "ended"} /\ job \in Slots \cup {NoJob}

(***************************************************************************)
(* While the DNS thread has or can take a job, the selector it notifies    *)
(* exists (cleanup joins the thread first), and so does the session it     *)
(* writes to, which the worker's reference keeps out of the pool.          *)
(***************************************************************************)
NoUseAfterFree ==
    /\ TypeOK
    /\ thread \in {"run", "resolve"} => "selector" \in have
    /\ thread = "resolve" => ses[job] = "resolv" /\ refs[job] > 0
    /\ \A i \in 1..Len(queue) : ses[queue[i]] = "resolv" /\ refs[queue[i]] > 0

(***************************************************************************)
(* Every way out of main, the failures of start-up included, releases all  *)
(* that main acquired and every management session, with the DNS thread    *)
(* ended.  What is left of the SOCKS sessions is LeftAtExit.               *)
(***************************************************************************)
AllReleased ==
    At("exited") => have = {} /\ thread \in {"none", "ended"} /\ admins = {}

(***************************************************************************)
(* What the process leaves to the operating system: a session that ended   *)
(* (every one, after a drain) leaves nothing; of one that cleanup cut      *)
(* short, the descriptors stay open, since only socksv5_done closes them,  *)
(* and the struct is given back unless it waited in REQUEST_RESOLV, whose  *)
(* reference only the notification that is not delivered gives back.       *)
(***************************************************************************)
LeftAtExit ==
    At("exited") =>
        \A s \in Slots : /\ fds[s] = 0 <=> ses[s] = "none"
                         /\ refs[s] = 0 <=> ses[s] # "resolv"

(***************************************************************************)
(* A second signal ends the process, whatever the sessions do: the thread  *)
(* is woken, empties its queue and is joined.                              *)
(***************************************************************************)
SecondSignalEnds == (signals > 1) ~> At("exited")

\* The peers leave in the end (or a timeout ends their sessions).
PeersLeave ==
    /\ \A s \in Slots : SF_vars(EndSession(s)) /\ SF_vars(Resolved(s))
    /\ \A a \in Admins : SF_vars(EndAdmin(a))

(***************************************************************************)
(* docs/design.md:194: one signal ends the process when the peers leave;   *)
(* no new session takes their place, since both listeners are closed.      *)
(***************************************************************************)
DrainEnds == PeersLeave => ((signals > 0) ~> At("exited"))

-----------------------------------------------------------------------------
(***************************************************************************)
(* The inductive invariant behind NoUseAfterFree, AllReleased and          *)
(* LeftAtExit.                                                             *)
(***************************************************************************)
LoopPoints == {"signals>1", "signals=1", "drained", "select", "serve"}
Started    == {"run", "sleep", "resolve"}

\* What the process has, and what the DNS thread can be doing, at each point of
\* main: the arguments of cleanup are exactly what was acquired and not released.
PcInv ==
    /\ pc[1] = "start" =>
         /\ have = IF pc[2] = 1 THEN {} ELSE CleanupArgs(Stages[pc[2]])
         /\ thread \in IF pc[2] = Len(Stages) THEN Started ELSE {"none"}
         /\ ~draining /\ Active = {} /\ admins = {}
    /\ pc[1] \in LoopPoints =>
         /\ have = Shared \cup {"selector", "dns"} \cup (IF draining THEN {} ELSE Listeners)
         /\ thread \in Started
    /\ pc[1] = "cleanup" =>
         have = given /\ thread \in IF "dns" \in given THEN Started ELSE {"none"}
    /\ pc[1] = "join" =>
         "dns" \in given /\ have = given \ {"dns"} /\ thread \in {"run", "resolve", "ended"}
    /\ pc[1] = "selector" => have = given \ {"dns"}
    /\ pc[1] \in {"cleanup", "join", "selector"} =>
         IF "selector" \in given THEN TRUE
         ELSE "dns" \notin given /\ Active = {} /\ admins = {}
    /\ pc[1] = "rest" => have = given \ {"dns", "selector"}
    /\ pc[1] \in {"selector", "rest", "exited"} => thread \in {"none", "ended"}
    /\ pc[1] \in {"rest", "exited"} => admins = {}
    /\ pc[1] = "exited" => have = {}

\* A name is queued, being resolved, or answered: one of them, and once.
JobsInv ==
    /\ thread \in {"none", "ended"} => queue = <<>>
    /\ \A i \in 1..Len(queue) : ses[queue[i]] = "resolv" /\ queue[i] \notin posted
    /\ \A i, j \in 1..Len(queue) : queue[i] = queue[j] => i = j
    /\ thread = "resolve" =>
         /\ job \in Slots /\ ses[job] = "resolv" /\ job \notin posted
         /\ \A i \in 1..Len(queue) : queue[i] # job
    /\ \A s \in posted : ses[s] = "resolv"

\* A reference for each descriptor, until its close handler has run, and one for
\* the DNS worker.
RefsInv ==
    \A s \in Slots :
        /\ ses[s] = "none" <=> fds[s] = 0
        /\ ses[s] \in {"active", "resolv"} => fds[s] = 1
        /\ refs[s] = (IF pc[1] \in {"rest", "exited"} THEN 0 ELSE fds[s])
                      + (IF ses[s] = "resolv" THEN 1 ELSE 0)

ServerInv == TypeOK /\ PcInv /\ JobsInv /\ RefsInv

=============================================================================
