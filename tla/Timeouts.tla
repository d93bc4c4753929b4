------------------------------ MODULE Timeouts ------------------------------
(***************************************************************************)
(* The three timeouts of a SOCKS session and the sweep that enforces them  *)
(* (socksv5_check_timeouts in src/shared/socks5.c), with the clock, the    *)
(* rounds of main's loop and the CONFIG SET that changes the settings      *)
(* while sessions run.                                                     *)
(*                                                                         *)
(* A session is abstracted to the phases that the sweep tells apart.  Time *)
(* passes while the loop sleeps in pselect, at most SelectTimeout units.   *)
(* A round is: wait -> serve (handle_iteration) -> notify                  *)
(* (handle_block_notifications) -> sweep -> wait.                          *)
(***************************************************************************)
EXTENDS Integers

CONSTANTS
    Slots,           \* sessions
    SelectTimeout,   \* SELECTOR_TIMEOUT_SECS
    Settings,        \* values CONFIG SET gives a timeout; 0 disables it
    MaxTime          \* bound on the clock

ASSUME TimeAssumption ==
    SelectTimeout \in Nat \ {0} /\ Settings \subseteq Nat /\ MaxTime \in Nat \ {0}

VARIABLES
    now,      \* time(NULL)
    phase,    \* where the loop is in its round
    config,   \* g_config: the three timeouts in force
    ses,      \* [Slots -> session]
    swept     \* history: time of the last sweep and idle timeout it used

vars == <<now, phase, config, ses, swept>>

Configs == [negotiation : Settings, connect : Settings, idle : Settings]

(***************************************************************************)
(* st: "negotiate" is HELLO_READ to REQUEST_READ with the replies between  *)
(* them, "reply" is REQUEST_WRITE.  ndl, cdl, last: negotiation_deadline,  *)
(* connect_deadline, last_activity.  origin: origin_fd is open; good: the  *)
(* reply to be sent is a success.  The fields from `born' on are history:  *)
(* when the session was accepted, began to connect, opened its tunnel,     *)
(* last read data in it; the timeouts in force at the first two times.     *)
(***************************************************************************)
None == [st |-> "none", ndl |-> 0, cdl |-> 0, last |-> 0, origin |-> FALSE, good |-> FALSE,
         born |-> 0, began |-> 0, opened |-> 0, read |-> 0, neg0 |-> 0, con0 |-> 0]

Phases == {"wait", "serve", "notify"}
States == {"none", "negotiate", "resolv", "connecting", "reply", "copy"}

\* The deadline a timeout of t sets now; 0 when it is disabled.
Deadline(t) == IF t > 0 THEN now + t ELSE 0

\* socks5_new
NewSession ==
    [None EXCEPT !.st = "negotiate", !.last = now, !.ndl = Deadline(config.negotiation),
                 !.born = now, !.neg0 = config.negotiation]

\* connecting_init; connect may fail at once, and then client_fd waits for OP_WRITE.
\* The next address of a list keeps the deadline.
Connecting(r, open) ==
    [r EXCEPT !.st = "connecting", !.cdl = Deadline(config.connect), !.origin = open,
              !.good = FALSE, !.began = now, !.con0 = config.connect]

\* copy_init: last_activity stays what it was.
CopyInit(r) == [r EXCEPT !.st = "copy", !.opened = now, !.read = now]

\* REQUEST_WRITE: socksv5_pump sends the reply at once, or the socket is full.
Replying(r, ok, sent) ==
    IF ~sent THEN [r EXCEPT !.st = "reply", !.good = ok]
    ELSE IF ok THEN CopyInit(r) ELSE None

-----------------------------------------------------------------------------
Init ==
    /\ now = 1
    /\ phase = "wait"
    /\ config \in Configs
    /\ ses = [s \in Slots |-> None]
    /\ swept = [at |-> 1, idle |-> config.idle]

\* pselect returns: for an event, a signal, or its timeout.
SelectReturns(d) ==
    /\ phase = "wait" /\ now + d <= MaxTime
    /\ now' = now + d
    /\ phase' = "serve"
    /\ UNCHANGED <<config, ses, swept>>

\* A handler of session s runs in handle_iteration.
Serves(s, st, r) ==
    /\ phase = "serve" /\ ses[s].st = st
    /\ ses' = [ses EXCEPT ![s] = r]
    /\ UNCHANGED <<now, phase, config, swept>>

\* socksv5_passive_accept
Accept(s) == Serves(s, "none", NewSession)

\* The session ends by itself: an error, a rejection, the end of the tunnel.
Ends(s) == \E st \in {"negotiate", "reply", "copy"} : Serves(s, st, None)

\* request_process for an FQDN: the DNS thread has the job
AsksName(s) == Serves(s, "negotiate", [ses[s] EXCEPT !.st = "resolv"])

\* request_process for an address, or for a request that is answered with an error
AsksAddress(s) == \E open \in BOOLEAN : Serves(s, "negotiate", Connecting(ses[s], open))
Rejects(s) == \E sent \in BOOLEAN : Serves(s, "negotiate", Replying(ses[s], FALSE, sent))

\* connecting_write on the origin's descriptor: the result, or the next address
\* (which keeps the deadline, and may fail at once like the first)
Connected(s) ==
    /\ ses[s].origin
    /\ \/ \E ok, sent \in BOOLEAN : Serves(s, "connecting", Replying(ses[s], ok, sent))
       \/ \E open \in BOOLEAN : Serves(s, "connecting", [ses[s] EXCEPT !.origin = open])

\* connecting_write on the client's descriptor: there is no origin any more
GivesUp(s) ==
    /\ ~ses[s].origin
    /\ \E sent \in BOOLEAN : Serves(s, "connecting", Replying(ses[s], FALSE, sent))

\* request_write
ReplySent(s) == Serves(s, "reply", Replying(ses[s], ses[s].good, TRUE))

\* copy_read with data
CopyRead(s) == Serves(s, "copy", [ses[s] EXCEPT !.last = now, !.read = now])

\* CONFIG SET, from a management session in the same loop
ConfigSet ==
    /\ phase = "serve"
    /\ config' \in Configs
    /\ \E k \in DOMAIN config : \A o \in DOMAIN config \ {k} : config'[o] = config[o]
    /\ UNCHANGED <<now, phase, ses, swept>>

EndServe ==
    /\ phase = "serve"
    /\ phase' = "notify"
    /\ UNCHANGED <<now, config, ses, swept>>

\* request_resolv_done, called by socksv5_block, which does not pump: the reply
\* to a name that has no address waits for the next round.
ResolvDone(s) ==
    LET r == ses[s] IN
    /\ phase = "notify" /\ r.st = "resolv"
    /\ \/ ses' = [ses EXCEPT ![s] = Replying(r, FALSE, FALSE)]
       \/ \E open \in BOOLEAN : ses' = [ses EXCEPT ![s] = Connecting(r, open)]
    /\ UNCHANGED <<now, phase, config, swept>>

\* (mutant) the settings in force are applied to sessions accepted earlier.
CheckTimeoutsInForce(r) ==
    CASE r.st = "connecting" ->
            IF r.cdl # 0 /\ now >= r.cdl THEN [r EXCEPT !.origin = FALSE] ELSE r
      [] r.st = "copy" ->
            IF config.idle > 0 /\ now - r.last >= config.idle THEN None ELSE r
      [] r.st \in {"negotiate", "reply"} ->
            IF config.negotiation > 0 /\ now >= r.born + config.negotiation THEN None ELSE r
      [] OTHER -> r

\* (mutant) only tunnels are looked at.
CheckTimeoutsCopyOnly(r) ==
    IF r.st = "copy" /\ config.idle > 0 /\ now - r.last >= config.idle THEN None ELSE r

\* socksv5_check_timeouts for one session; connecting_timeout drops the origin
\* and leaves the session in CONNECTING until client_fd is writable.
CheckTimeouts(r) ==
    CASE r.st = "connecting" ->
            IF r.cdl # 0 /\ now >= r.cdl THEN [r EXCEPT !.origin = FALSE] ELSE r
      [] r.st = "copy" ->
            IF config.idle > 0 /\ now - r.last >= config.idle THEN None ELSE r
      [] r.st \in {"negotiate", "reply"} ->
            IF r.ndl # 0 /\ now >= r.ndl THEN None ELSE r
      [] OTHER -> r

\* The sweep over the active sessions ends the round.
Sweep ==
    /\ phase = "notify"
    /\ ses' = [s \in Slots |-> CheckTimeouts(ses[s])]
    /\ phase' = "wait"
    /\ swept' = [at |-> now, idle |-> config.idle]
    /\ UNCHANGED <<now, config>>

Next ==
    \/ \E d \in 0..SelectTimeout : SelectReturns(d)
    \/ \E s \in Slots :
         \/ Accept(s) \/ Ends(s) \/ AsksName(s) \/ AsksAddress(s) \/ Rejects(s)
         \/ Connected(s) \/ GivesUp(s) \/ ReplySent(s) \/ CopyRead(s) \/ ResolvDone(s)
    \/ ConfigSet \/ EndServe \/ Sweep

Spec == Init /\ [][Next]_vars

-----------------------------------------------------------------------------
TypeOK ==
    /\ now \in 1..MaxTime /\ phase \in Phases /\ config \in Configs
    /\ swept \in [at : 1..MaxTime, idle : Settings]
    /\ \A s \in Slots :
         /\ ses[s].st \in States
         /\ {ses[s].origin, ses[s].good} \subseteq BOOLEAN
         /\ \A t \in {ses[s].ndl, ses[s].cdl, ses[s].last, ses[s].born, ses[s].read} : t \in Nat

(***************************************************************************)
(* docs/design.md:226: a timeout fires at most SelectTimeout late: no      *)
(* session negotiates, connects, or keeps an idle tunnel for longer.  (A   *)
(* tunnel opened since the last sweep is seen by the next one.)            *)
(***************************************************************************)
NeverLate ==
    TypeOK /\ \A s \in Slots :
        LET r == ses[s] IN
        /\ r.st = "negotiate" /\ r.neg0 > 0 => now < r.born + r.neg0 + SelectTimeout
        /\ r.st = "connecting" /\ r.origin /\ r.con0 > 0 =>
              now < r.began + r.con0 + SelectTimeout
        /\ r.st = "copy" /\ swept.idle > 0 /\ r.opened < swept.at =>
              now < r.last + swept.idle + SelectTimeout

Swept == phase = "notify" /\ phase' = "wait"

(***************************************************************************)
(* docs/design.md:159: the sweep ends no session before its time, and a    *)
(* CONFIG SET reaches the sessions as described: the negotiation timeout   *)
(* in force at accept, the connect timeout in force on entering            *)
(* CONNECTING, the idle timeout in force now.  A session in REQUEST_RESOLV *)
(* is left alone.                                                          *)
(***************************************************************************)
NeverEarly ==
    [][Swept => \A s \in Slots :
        LET r == ses[s] IN
        /\ r.st \in {"negotiate", "reply"} /\ ses'[s].st = "none" =>
              r.neg0 > 0 /\ now - r.born >= r.neg0
        /\ r.origin /\ r.st = "connecting" /\ ~ses'[s].origin =>
              r.con0 > 0 /\ now - r.began >= r.con0
        /\ r.st = "copy" /\ ses'[s].st = "none" =>
              config.idle > 0 /\ now - r.last >= config.idle
        /\ r.st = "resolv" => ses'[s] = r]_vars

(***************************************************************************)
(* docs/design.md:144: idle-timeout is compared with the last read of data *)
(* in COPY; a tunnel without one has been idle since it opened.            *)
(***************************************************************************)
IdleSinceLastRead ==
    [][Swept => \A s \in Slots :
        ses[s].st = "copy" /\ ses'[s].st = "none" => now - ses[s].read >= config.idle]_vars
-----------------------------------------------------------------------------
(***************************************************************************)
(* The inductive invariant behind NeverLate and NeverEarly.                *)
(***************************************************************************)
Sessions ==
    [st : States, ndl : Nat, cdl : Nat, last : Nat, origin : BOOLEAN, good : BOOLEAN,
     born : Nat, began : Nat, opened : Nat, read : Nat, neg0 : Nat, con0 : Nat]

\* The deadlines kept are those of the timeouts in force when they were set.
DeadlinesOf(r) ==
    /\ r.ndl = IF r.neg0 > 0 THEN r.born + r.neg0 ELSE 0
    /\ r.cdl = IF r.con0 > 0 THEN r.began + r.con0 ELSE 0

\* How late a sweep can find a deadline: not at all just after one.
Slack == IF phase = "wait" THEN 0 ELSE SelectTimeout

InTime(r) ==
    /\ r.st = "negotiate" /\ r.neg0 > 0 => now < r.born + r.neg0 + Slack
    /\ r.st = "connecting" /\ r.origin /\ r.con0 > 0 => now < r.began + r.con0 + Slack
    /\ r.st = "copy" /\ swept.idle > 0 /\ (r.opened < swept.at \/ phase = "wait") =>
          now < r.last + swept.idle + Slack

TimeoutsInv ==
    /\ now \in 1..MaxTime /\ phase \in Phases /\ config \in Configs
    /\ swept \in [at : 1..MaxTime, idle : Settings]
    /\ ses \in [Slots -> Sessions]
    /\ swept.at <= now /\ (phase = "wait" => swept.at = now)
    /\ \A s \in Slots : DeadlinesOf(ses[s]) /\ InTime(ses[s])
=============================================================================
