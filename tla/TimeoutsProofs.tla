--------------------------- MODULE TimeoutsProofs ---------------------------
(***************************************************************************)
(* Proofs about Timeouts, for any number of sessions, any settings and any *)
(* bound on the clock: no deadline is enforced early, and none is missed   *)
(* by as much as SELECTOR_TIMEOUT_SECS.                                    *)
(***************************************************************************)
EXTENDS Timeouts, TLAPS

-----------------------------------------------------------------------------
\* The records that the handlers leave.

\* The timeouts in force are natural numbers.
LEMMA ConfigType ==
  ASSUME config \in Configs
  PROVE  config.negotiation \in Nat /\ config.connect \in Nat /\ config.idle \in Nat
  BY TimeAssumption DEF Configs

\* So is what the last sweep used.
LEMMA SweptType ==
  ASSUME swept \in [at : 1..MaxTime, idle : Settings]
  PROVE  swept.at \in Nat /\ swept.idle \in Nat
<1>1. swept.at \in 1..MaxTime /\ swept.idle \in Settings
  OBVIOUS
<1>2. Settings \subseteq Nat /\ 1..MaxTime \subseteq Nat
  BY TimeAssumption
<1> QED
  BY <1>1, <1>2, Zenon

\* No session, no deadline.
LEMMA NoneOK == None \in Sessions /\ DeadlinesOf(None) /\ InTime(None)
  BY DEF None, Sessions, States, DeadlinesOf, InTime

\* socks5_new
LEMMA NewSessionOK ==
  ASSUME TimeoutsInv, phase = "serve"
  PROVE  NewSession \in Sessions /\ DeadlinesOf(NewSession) /\ InTime(NewSession)
<1>1. now \in Nat /\ config.negotiation \in Nat /\ SelectTimeout \in Nat \ {0}
  BY ConfigType, TimeAssumption DEF TimeoutsInv
<1>2. /\ None \in Sessions /\ None.cdl = 0 /\ None.began = 0 /\ None.con0 = 0
  BY NoneOK DEF None
<1>3. Deadline(config.negotiation) \in Nat
  BY <1>1 DEF Deadline
<1>4. /\ NewSession \in Sessions
      /\ NewSession.st = "negotiate" /\ NewSession.ndl = Deadline(config.negotiation)
      /\ NewSession.born = now /\ NewSession.neg0 = config.negotiation
      /\ NewSession.cdl = 0 /\ NewSession.began = 0 /\ NewSession.con0 = 0
  BY <1>1, <1>2, <1>3 DEF NewSession, Sessions, States
<1>5. DeadlinesOf(NewSession)
  BY <1>1, <1>4 DEF DeadlinesOf, Deadline
<1>6. InTime(NewSession)
  BY <1>1, <1>4 DEF InTime, Slack
<1> QED
  BY <1>4, <1>5, <1>6

\* connecting_init
LEMMA ConnectingOK ==
  ASSUME TimeoutsInv, phase # "wait", NEW r \in Sessions, DeadlinesOf(r), NEW o \in BOOLEAN
  PROVE  LET n == Connecting(r, o) IN n \in Sessions /\ DeadlinesOf(n) /\ InTime(n)
<1> DEFINE n == Connecting(r, o)
<1>1. now \in Nat /\ config.connect \in Nat /\ SelectTimeout \in Nat \ {0}
  BY ConfigType, TimeAssumption DEF TimeoutsInv
<1>2. Deadline(config.connect) \in Nat
  BY <1>1 DEF Deadline
<1>3. n \in Sessions
  BY <1>1, <1>2 DEF Connecting, Sessions, States
<1>4. /\ n.st = "connecting" /\ n.cdl = Deadline(config.connect) /\ n.began = now
      /\ n.con0 = config.connect /\ n.ndl = r.ndl /\ n.neg0 = r.neg0 /\ n.born = r.born
  BY DEF Connecting, Sessions
<1>5. DeadlinesOf(n)
  BY <1>1, <1>4 DEF DeadlinesOf, Deadline
<1>6. InTime(n)
  BY <1>1, <1>4 DEF InTime, Slack
<1> QED
  BY <1>3, <1>5, <1>6

\* copy_init and REQUEST_WRITE: a tunnel that is opened now is not overdue.
LEMMA ReplyingOK ==
  ASSUME TimeoutsInv, phase # "wait", NEW r \in Sessions, DeadlinesOf(r),
         NEW ok \in BOOLEAN, NEW sent \in BOOLEAN
  PROVE  LET n == Replying(r, ok, sent) IN n \in Sessions /\ DeadlinesOf(n) /\ InTime(n)
<1>1. now \in Nat /\ swept.at \in Nat /\ swept.at <= now
  BY DEF TimeoutsInv
<1>2. CASE ~sent
  <2> DEFINE n == [r EXCEPT !.st = "reply", !.good = ok]
  <2>1. /\ n \in Sessions /\ n.st = "reply" /\ n.cdl = r.cdl /\ n.began = r.began
        /\ n.con0 = r.con0 /\ n.ndl = r.ndl /\ n.neg0 = r.neg0 /\ n.born = r.born
    BY DEF Sessions, States
  <2>2. DeadlinesOf(n) /\ InTime(n)
    BY <2>1 DEF DeadlinesOf, InTime
  <2> QED
    BY <1>2, <2>1, <2>2 DEF Replying
<1>3. CASE sent /\ ok
  <2> DEFINE n == CopyInit(r)
  <2>1. /\ n \in Sessions /\ n.st = "copy" /\ n.cdl = r.cdl /\ n.began = r.began
        /\ n.con0 = r.con0 /\ n.ndl = r.ndl /\ n.neg0 = r.neg0 /\ n.born = r.born
        /\ n.opened = now
    BY <1>1 DEF CopyInit, Sessions, States
  <2>2. DeadlinesOf(n)
    BY <2>1 DEF DeadlinesOf
  <2>3. InTime(n)
    BY <1>1, <2>1 DEF InTime
  <2> QED
    BY <1>3, <2>1, <2>2, <2>3 DEF Replying
<1>4. CASE sent /\ ~ok
  BY <1>4, NoneOK DEF Replying
<1> QED
  BY <1>2, <1>3, <1>4

-----------------------------------------------------------------------------
\* The steps.

\* A handler that leaves a record in time keeps the invariant.
LEMMA StepInv ==
  ASSUME TimeoutsInv, NEW s \in Slots, NEW r \in Sessions, DeadlinesOf(r), InTime(r),
         ses' = [ses EXCEPT ![s] = r], UNCHANGED <<now, phase, config, swept>>
  PROVE  TimeoutsInv'
<1>1. \A q \in Slots : ses'[q] = IF q = s THEN r ELSE ses[q]
  BY DEF TimeoutsInv
<1>2. ses' \in [Slots -> Sessions]
  BY DEF TimeoutsInv
<1>3. \A q \in Slots : DeadlinesOf(ses'[q]) /\ InTime(ses'[q])
  BY <1>1 DEF TimeoutsInv
<1>4. \A q \in Slots : (DeadlinesOf(ses[q]) /\ InTime(ses[q]))'
  BY <1>3 DEF DeadlinesOf, InTime, Slack
<1> QED
  BY <1>2, <1>4 DEF TimeoutsInv

\* The handlers of handle_iteration.
LEMMA ServesInv ==
  ASSUME TimeoutsInv, NEW s \in Slots, NEW st, NEW r \in Sessions, DeadlinesOf(r), InTime(r),
         Serves(s, st, r)
  PROVE  TimeoutsInv'
  BY StepInv DEF Serves

\* One step of the session s.
LEMMA SessionStepInv ==
  ASSUME TimeoutsInv, NEW s \in Slots,
         \/ Accept(s) \/ Ends(s) \/ AsksName(s) \/ AsksAddress(s) \/ Rejects(s)
         \/ Connected(s) \/ GivesUp(s) \/ ReplySent(s) \/ CopyRead(s) \/ ResolvDone(s)
  PROVE  TimeoutsInv'
<1> DEFINE r == ses[s]
<1>1. /\ r \in Sessions /\ DeadlinesOf(r) /\ InTime(r) /\ r.good \in BOOLEAN
  BY DEF TimeoutsInv, Sessions
<1>2. CASE Accept(s)
  BY <1>2, NewSessionOK, ServesInv DEF Accept, Serves
<1>3. CASE Ends(s)
  BY <1>3, NoneOK, ServesInv DEF Ends
<1>4. CASE AsksName(s)
  <2> DEFINE n == [r EXCEPT !.st = "resolv"]
  <2>1. /\ n \in Sessions /\ n.st = "resolv" /\ n.cdl = r.cdl /\ n.began = r.began
        /\ n.con0 = r.con0 /\ n.ndl = r.ndl /\ n.neg0 = r.neg0 /\ n.born = r.born
    BY <1>1 DEF Sessions, States
  <2>2. DeadlinesOf(n) /\ InTime(n)
    BY <1>1, <2>1 DEF DeadlinesOf, InTime
  <2> QED
    BY <1>4, <2>1, <2>2, ServesInv DEF AsksName
<1>5. CASE AsksAddress(s)
  BY <1>1, <1>5, ConnectingOK, ServesInv DEF AsksAddress, Serves
<1>6. CASE Rejects(s)
  BY <1>1, <1>6, ReplyingOK, ServesInv DEF Rejects, Serves
<1>7. CASE Connected(s)
  <2>1. CASE \E ok, sent \in BOOLEAN : Serves(s, "connecting", Replying(r, ok, sent))
    BY <1>1, <2>1, ReplyingOK, ServesInv DEF Serves
  <2>2. CASE \E o \in BOOLEAN : Serves(s, "connecting", [r EXCEPT !.origin = o])
    <3>1. PICK o \in BOOLEAN : Serves(s, "connecting", [r EXCEPT !.origin = o])
      BY <2>2
    <3> DEFINE n == [r EXCEPT !.origin = o]
    <3>2. /\ n \in Sessions /\ n.st = r.st /\ n.cdl = r.cdl /\ n.began = r.began
          /\ n.con0 = r.con0 /\ n.ndl = r.ndl /\ n.neg0 = r.neg0 /\ n.born = r.born
      BY <1>1 DEF Sessions
    <3>3. r.st = "connecting" /\ r.origin
      BY <1>7, <3>1 DEF Connected, Serves
    <3>4. DeadlinesOf(n) /\ InTime(n)
      BY <1>1, <3>2, <3>3 DEF DeadlinesOf, InTime
    <3> QED
      BY <3>1, <3>2, <3>4, ServesInv
  <2> QED
    BY <1>7, <2>1, <2>2 DEF Connected
<1>8. CASE GivesUp(s)
  BY <1>1, <1>8, ReplyingOK, ServesInv DEF GivesUp, Serves
<1>9. CASE ReplySent(s)
  BY <1>1, <1>9, ReplyingOK, ServesInv DEF ReplySent, Serves
<1>10. CASE CopyRead(s)
  <2> DEFINE n == [r EXCEPT !.last = now, !.read = now]
  <2>1. now \in Nat /\ swept.idle \in Nat /\ SelectTimeout \in Nat \ {0}
    BY TimeAssumption, SweptType DEF TimeoutsInv
  <2>2. /\ n \in Sessions /\ n.st = r.st /\ n.cdl = r.cdl /\ n.began = r.began
        /\ n.con0 = r.con0 /\ n.ndl = r.ndl /\ n.neg0 = r.neg0 /\ n.born = r.born
        /\ n.last = now
    BY <1>1, <2>1 DEF Sessions
  <2>3. r.st = "copy"
    BY <1>10 DEF CopyRead, Serves
  <2>4. DeadlinesOf(n)
    BY <1>1, <2>2 DEF DeadlinesOf
  <2>5. InTime(n)
    <3>1. Slack \in Nat /\ (swept.idle > 0 => now < now + swept.idle + Slack)
      BY <2>1 DEF Slack
    <3> HIDE DEF n, r
    <3> QED
      BY <2>2, <2>3, <3>1 DEF InTime
  <2> QED
    BY <1>10, <2>2, <2>4, <2>5, ServesInv DEF CopyRead
<1>11. CASE ResolvDone(s)
  <2>1. PICK n : /\ n = Replying(r, FALSE, FALSE) \/ \E o \in BOOLEAN : n = Connecting(r, o)
                 /\ phase = "notify" /\ ses' = [ses EXCEPT ![s] = n]
                 /\ UNCHANGED <<now, phase, config, swept>>
    BY <1>11 DEF ResolvDone
  <2>2. n \in Sessions /\ DeadlinesOf(n) /\ InTime(n)
    BY <1>1, <2>1, ReplyingOK, ConnectingOK
  <2> QED
    BY <2>1, <2>2, StepInv
<1> QED
  BY <1>2, <1>3, <1>4, <1>5, <1>6, <1>7, <1>8, <1>9, <1>10, <1>11

\* What a sweep leaves of a session is before its deadline.
LEMMA CheckedOK ==
  ASSUME TimeoutsInv, NEW r \in Sessions, DeadlinesOf(r)
  PROVE  LET n == CheckTimeouts(r) IN
         /\ n \in Sessions /\ DeadlinesOf(n)
         /\ n.st = "negotiate" /\ n.neg0 > 0 => now < n.born + n.neg0
         /\ n.st = "connecting" /\ n.origin /\ n.con0 > 0 => now < n.began + n.con0
         /\ n.st = "copy" /\ config.idle > 0 => now < n.last + config.idle
<1>1. /\ now \in Nat /\ config.idle \in Nat
      /\ r.ndl \in Nat /\ r.cdl \in Nat /\ r.last \in Nat /\ r.born \in Nat /\ r.began \in Nat
      /\ r.neg0 \in Nat /\ r.con0 \in Nat /\ r.st \in States
  BY ConfigType DEF TimeoutsInv, Sessions
<1> DEFINE n == CheckTimeouts(r)
<1>2. CASE r.st = "connecting"
  <2> DEFINE d == [r EXCEPT !.origin = FALSE]
  <2>1. /\ d \in Sessions /\ d.st = r.st /\ d.cdl = r.cdl /\ d.began = r.began
        /\ d.con0 = r.con0 /\ d.ndl = r.ndl /\ d.neg0 = r.neg0 /\ d.born = r.born
        /\ d.origin = FALSE
    BY DEF Sessions
  <2>2. n = IF r.cdl # 0 /\ now >= r.cdl THEN d ELSE r
    BY <1>2 DEF CheckTimeouts
  <2>3. CASE r.cdl # 0 /\ now >= r.cdl
    <3>1. DeadlinesOf(d)
      BY <2>1 DEF DeadlinesOf
    <3>2. n = d
      BY <2>2, <2>3
    <3> QED
      BY <1>2, <2>1, <3>1, <3>2
  <2>4. CASE ~(r.cdl # 0 /\ now >= r.cdl)
    <3>1. n = r
      BY <2>2, <2>4
    <3>2. r.con0 > 0 => now < r.began + r.con0
      BY <1>1, <2>4 DEF DeadlinesOf
    <3> QED
      BY <1>2, <3>1, <3>2
  <2> QED
    BY <2>3, <2>4
<1>3. CASE r.st = "copy"
  <2>1. n = IF config.idle > 0 /\ now - r.last >= config.idle THEN None ELSE r
    BY <1>3 DEF CheckTimeouts
  <2>2. CASE config.idle > 0 /\ now - r.last >= config.idle
    <3>1. n = None
      BY <2>1, <2>2
    <3> QED
      BY <3>1, NoneOK DEF None
  <2>3. CASE ~(config.idle > 0 /\ now - r.last >= config.idle)
    <3>1. n = r
      BY <2>1, <2>3
    <3>2. config.idle > 0 => now < r.last + config.idle
      BY <1>1, <2>3
    <3> QED
      BY <1>3, <3>1, <3>2
  <2> QED
    BY <2>2, <2>3
<1>4. CASE r.st \in {"negotiate", "reply"}
  <2>1. n = IF r.ndl # 0 /\ now >= r.ndl THEN None ELSE r
    BY <1>4 DEF CheckTimeouts
  <2>2. CASE r.ndl # 0 /\ now >= r.ndl
    <3>1. n = None
      BY <2>1, <2>2
    <3> QED
      BY <3>1, NoneOK DEF None
  <2>3. CASE ~(r.ndl # 0 /\ now >= r.ndl)
    <3>1. n = r
      BY <2>1, <2>3
    <3>2. r.neg0 > 0 => now < r.born + r.neg0
      BY <1>1, <2>3 DEF DeadlinesOf
    <3> QED
      BY <1>4, <3>1, <3>2
  <2> QED
    BY <2>2, <2>3
<1>5. CASE r.st \in {"none", "resolv"}
  <2>1. n = r
    BY <1>5 DEF CheckTimeouts
  <2> QED
    BY <1>5, <2>1
<1> QED
  BY <1>1, <1>2, <1>3, <1>4, <1>5 DEF States

\* The sweep ends the round, and nothing is late.
LEMMA SweepInv ==
  ASSUME TimeoutsInv, Sweep
  PROVE  TimeoutsInv'
<1>1. /\ ses' = [s \in Slots |-> CheckTimeouts(ses[s])] /\ phase' = "wait"
      /\ swept' = [at |-> now, idle |-> config.idle] /\ UNCHANGED <<now, config>>
  BY DEF Sweep
<1>2. \A s \in Slots : ses[s] \in Sessions /\ DeadlinesOf(ses[s])
  BY DEF TimeoutsInv
<1>3. \A s \in Slots : ses'[s] = CheckTimeouts(ses[s])
  BY <1>1
<1>4. ses' \in [Slots -> Sessions]
  BY <1>1, <1>2, CheckedOK
<1>5. swept'.at = now /\ swept'.idle = config.idle /\ now \in 1..MaxTime /\ now \in Nat
  BY <1>1, TimeAssumption DEF TimeoutsInv
<1>6. swept' \in [at : 1..MaxTime, idle : Settings]
  BY <1>1, <1>5 DEF TimeoutsInv, Configs
<1>7. ASSUME NEW s \in Slots
      PROVE  (DeadlinesOf(ses[s]) /\ InTime(ses[s]))'
  <2> DEFINE n == ses'[s]
  <2>1. /\ n \in Sessions /\ DeadlinesOf(n)
        /\ n.st = "negotiate" /\ n.neg0 > 0 => now < n.born + n.neg0
        /\ n.st = "connecting" /\ n.origin /\ n.con0 > 0 => now < n.began + n.con0
        /\ n.st = "copy" /\ config.idle > 0 => now < n.last + config.idle
    BY <1>2, <1>3, CheckedOK, Zenon
  <2>2. n.born \in Nat /\ n.neg0 \in Nat /\ n.began \in Nat /\ n.con0 \in Nat /\ n.last \in Nat
        /\ config.idle \in Nat
    BY <2>1, ConfigType DEF Sessions, TimeoutsInv
  <2>3. Slack' = 0
    BY <1>1 DEF Slack
  <2>4. InTime(ses[s])'
    BY <1>1, <1>5, <2>1, <2>2, <2>3 DEF InTime
  <2>5. DeadlinesOf(ses[s])'
    BY <2>1 DEF DeadlinesOf
  <2> QED
    BY <2>4, <2>5
<1>8. now' \in 1..MaxTime /\ phase' \in Phases /\ config' \in Configs
      /\ swept'.at <= now' /\ (phase' = "wait" => swept'.at = now')
  BY <1>1, <1>5 DEF TimeoutsInv, Phases
<1> QED
  BY <1>4, <1>6, <1>7, <1>8 DEF TimeoutsInv

\* pselect sleeps for at most SELECTOR_TIMEOUT_SECS.
LEMMA SelectInv ==
  ASSUME TimeoutsInv, NEW d \in 0..SelectTimeout, SelectReturns(d)
  PROVE  TimeoutsInv'
<1>1. /\ phase = "wait" /\ now + d <= MaxTime /\ now' = now + d /\ phase' = "serve"
      /\ UNCHANGED <<config, ses, swept>>
  BY DEF SelectReturns
<1>2. now \in Nat /\ now >= 1 /\ SelectTimeout \in Nat /\ MaxTime \in Nat
      /\ swept.idle \in Nat /\ swept.at \in Nat /\ swept.at = now
  BY <1>1, TimeAssumption, SweptType DEF TimeoutsInv
<1>3. ASSUME NEW s \in Slots
      PROVE  (DeadlinesOf(ses[s]) /\ InTime(ses[s]))'
  <2> DEFINE n == ses[s]
  <2>1. DeadlinesOf(n) /\ InTime(n) /\ n \in Sessions
    BY DEF TimeoutsInv
  <2>2. n.born \in Nat /\ n.neg0 \in Nat /\ n.began \in Nat /\ n.con0 \in Nat /\ n.last \in Nat
    BY <2>1 DEF Sessions
  <2>3. Slack = 0 /\ Slack' = SelectTimeout
    BY <1>1 DEF Slack
  <2>4. InTime(ses[s])'
    BY <1>1, <1>2, <2>1, <2>2, <2>3 DEF InTime
  <2>5. DeadlinesOf(ses[s])'
    BY <1>1, <2>1 DEF DeadlinesOf
  <2> QED
    BY <2>4, <2>5
<1>4. now' \in 1..MaxTime /\ phase' \in Phases /\ swept'.at <= now' /\ phase' # "wait"
  BY <1>1, <1>2 DEF Phases
<1> QED
  BY <1>1, <1>3, <1>4 DEF TimeoutsInv

\* A step that moves no clock and no session, and does not begin to wait.
LEMMA QuietInv ==
  ASSUME TimeoutsInv, UNCHANGED <<now, ses, swept>>, config' \in Configs,
         phase' = phase \/ (phase = "serve" /\ phase' = "notify")
  PROVE  TimeoutsInv'
<1>1. phase' \in Phases /\ (phase' = "wait" <=> phase = "wait")
  BY DEF Phases, TimeoutsInv
<1>2. Slack' = Slack
  BY <1>1 DEF Slack
<1>3. \A s \in Slots : (DeadlinesOf(ses[s]) /\ InTime(ses[s]))'
  BY <1>1, <1>2 DEF TimeoutsInv, DeadlinesOf, InTime
<1> QED
  BY <1>1, <1>3 DEF TimeoutsInv

-----------------------------------------------------------------------------
\* The theorems.

\* No session, and a clock that has just been swept.
LEMMA InitInv == Init => TimeoutsInv
<1> SUFFICES ASSUME Init PROVE TimeoutsInv
  OBVIOUS
<1>1. /\ now = 1 /\ phase = "wait" /\ config \in Configs /\ ses = [s \in Slots |-> None]
      /\ swept = [at |-> 1, idle |-> config.idle]
  BY DEF Init
<1>2. 1 \in 1..MaxTime
  BY TimeAssumption
<1>3. \A s \in Slots : ses[s] = None
  BY <1>1
<1>4. \A s \in Slots : DeadlinesOf(ses[s]) /\ InTime(ses[s])
  BY <1>3, NoneOK
<1>5. ses \in [Slots -> Sessions]
  BY <1>1, NoneOK
<1>6. swept \in [at : 1..MaxTime, idle : Settings] /\ swept.at = 1
  BY <1>1, <1>2 DEF Configs
<1> QED
  BY <1>1, <1>2, <1>4, <1>5, <1>6 DEF TimeoutsInv, Phases

\* Every step of the round keeps the invariant.
LEMMA NextInv == TimeoutsInv /\ [Next]_vars => TimeoutsInv'
<1> SUFFICES ASSUME TimeoutsInv, [Next]_vars PROVE TimeoutsInv'
  OBVIOUS
<1>1. CASE \E d \in 0..SelectTimeout : SelectReturns(d)
  BY <1>1, SelectInv
<1>2. CASE \E s \in Slots :
         \/ Accept(s) \/ Ends(s) \/ AsksName(s) \/ AsksAddress(s) \/ Rejects(s)
         \/ Connected(s) \/ GivesUp(s) \/ ReplySent(s) \/ CopyRead(s) \/ ResolvDone(s)
  BY <1>2, SessionStepInv
<1>3. CASE ConfigSet \/ EndServe \/ UNCHANGED vars
  <2>1. UNCHANGED <<now, ses, swept>> /\ config' \in Configs
        /\ (phase' = phase \/ (phase = "serve" /\ phase' = "notify"))
    BY <1>3 DEF ConfigSet, EndServe, vars, TimeoutsInv
  <2> QED
    BY <2>1, QuietInv
<1>4. CASE Sweep
  BY <1>4, SweepInv
<1> QED
  BY <1>1, <1>2, <1>3, <1>4 DEF Next

\* The deadlines kept are those of the timeouts they were set from, and the sweep
\* that follows every sleep of the selector leaves none that has passed.
THEOREM TimeoutsInvariant == Spec => []TimeoutsInv
  BY InitInv, NextInv, PTL DEF Spec

\* The promise of NeverLate (docs/design.md:226): no session negotiates, connects
\* or keeps an idle tunnel for SELECTOR_TIMEOUT_SECS past its deadline.
THEOREM DeadlinesMet == Spec => []NeverLate
<1>1. TimeoutsInv => NeverLate
  <2> SUFFICES ASSUME TimeoutsInv PROVE NeverLate
    OBVIOUS
  <2>1. TypeOK
    BY DEF TimeoutsInv, TypeOK, Sessions
  <2>2. SelectTimeout \in Nat /\ now \in Nat /\ swept.idle \in Nat
    BY TimeAssumption, SweptType DEF TimeoutsInv
  <2>3. ASSUME NEW s \in Slots
        PROVE  LET r == ses[s] IN
               /\ r.st = "negotiate" /\ r.neg0 > 0 => now < r.born + r.neg0 + SelectTimeout
               /\ r.st = "connecting" /\ r.origin /\ r.con0 > 0 =>
                     now < r.began + r.con0 + SelectTimeout
               /\ r.st = "copy" /\ swept.idle > 0 /\ r.opened < swept.at =>
                     now < r.last + swept.idle + SelectTimeout
    <3> DEFINE r == ses[s]
    <3>1. InTime(r) /\ r \in Sessions
      BY DEF TimeoutsInv
    <3>2. r.born \in Nat /\ r.neg0 \in Nat /\ r.began \in Nat /\ r.con0 \in Nat /\ r.last \in Nat
      BY <3>1 DEF Sessions
    <3> QED
      BY <2>2, <3>1, <3>2 DEF InTime, Slack
  <2> QED
    BY <2>1, <2>3 DEF NeverLate
<1> QED
  BY <1>1, TimeoutsInvariant, PTL

\* What one step of the system may do to a session whose deadline has not come.
LEMMA StepNotEarly ==
  ASSUME TimeoutsInv, [Next]_vars, Swept, NEW s \in Slots
  PROVE  LET r == ses[s] IN
         /\ r.st \in {"negotiate", "reply"} /\ ses'[s].st = "none" =>
               r.neg0 > 0 /\ now - r.born >= r.neg0
         /\ r.origin /\ r.st = "connecting" /\ ~ses'[s].origin =>
               r.con0 > 0 /\ now - r.began >= r.con0
         /\ r.st = "copy" /\ ses'[s].st = "none" =>
               config.idle > 0 /\ now - r.last >= config.idle
         /\ r.st = "resolv" => ses'[s] = r
<1> DEFINE r == ses[s]
<1>1. Sweep
  <2>1. phase = "notify" /\ phase' = "wait"
    BY DEF Swept
  <2> QED
    BY <2>1 DEF Next, vars, SelectReturns, Accept, Ends, AsksName, AsksAddress, Rejects,
                Connected, GivesUp, ReplySent, CopyRead, ResolvDone, Serves, ConfigSet, EndServe
<1>2. ses'[s] = CheckTimeouts(r)
  BY <1>1 DEF Sweep
<1>3. r \in Sessions /\ DeadlinesOf(r)
  BY DEF TimeoutsInv
<1>4. /\ now \in Nat /\ r.ndl \in Nat /\ r.cdl \in Nat /\ r.born \in Nat /\ r.began \in Nat
      /\ r.neg0 \in Nat /\ r.con0 \in Nat
  BY <1>3 DEF TimeoutsInv, Sessions
<1>5. r.st \in {"negotiate", "reply"} /\ ses'[s].st = "none" =>
        r.neg0 > 0 /\ now - r.born >= r.neg0
  <2> SUFFICES ASSUME r.st \in {"negotiate", "reply"}, ses'[s].st = "none"
               PROVE  r.neg0 > 0 /\ now - r.born >= r.neg0
    OBVIOUS
  <2>1. ses'[s] = IF r.ndl # 0 /\ now >= r.ndl THEN None ELSE r
    BY <1>2 DEF CheckTimeouts
  <2>2. r.ndl # 0 /\ now >= r.ndl
    BY <2>1
  <2> QED
    BY <1>3, <1>4, <2>2 DEF DeadlinesOf
<1>6. r.origin /\ r.st = "connecting" /\ ~ses'[s].origin =>
        r.con0 > 0 /\ now - r.began >= r.con0
  <2> SUFFICES ASSUME r.origin, r.st = "connecting", ~ses'[s].origin
               PROVE  r.con0 > 0 /\ now - r.began >= r.con0
    OBVIOUS
  <2>1. ses'[s] = IF r.cdl # 0 /\ now >= r.cdl THEN [r EXCEPT !.origin = FALSE] ELSE r
    BY <1>2 DEF CheckTimeouts
  <2>2. r.cdl # 0 /\ now >= r.cdl
    BY <2>1
  <2> QED
    BY <1>3, <1>4, <2>2 DEF DeadlinesOf
<1>7. r.st = "copy" /\ ses'[s].st = "none" =>
        config.idle > 0 /\ now - r.last >= config.idle
  <2> SUFFICES ASSUME r.st = "copy", ses'[s].st = "none"
               PROVE  config.idle > 0 /\ now - r.last >= config.idle
    OBVIOUS
  <2>1. ses'[s] = IF config.idle > 0 /\ now - r.last >= config.idle THEN None ELSE r
    BY <1>2 DEF CheckTimeouts
  <2> QED
    BY <2>1
<1>8. r.st = "resolv" => ses'[s] = r
  BY <1>2 DEF CheckTimeouts
<1> QED
  BY <1>5, <1>6, <1>7, <1>8

\* The promise of NeverEarly (docs/design.md:159): the sweep ends nothing before
\* the time that the settings in force when the deadline was set allow.
THEOREM NothingEarly == Spec => NeverEarly
<1>1. TimeoutsInv /\ [Next]_vars =>
        [Swept => \A s \in Slots :
           LET r == ses[s] IN
           /\ r.st \in {"negotiate", "reply"} /\ ses'[s].st = "none" =>
                 r.neg0 > 0 /\ now - r.born >= r.neg0
           /\ r.origin /\ r.st = "connecting" /\ ~ses'[s].origin =>
                 r.con0 > 0 /\ now - r.began >= r.con0
           /\ r.st = "copy" /\ ses'[s].st = "none" =>
                 config.idle > 0 /\ now - r.last >= config.idle
           /\ r.st = "resolv" => ses'[s] = r]_vars
  BY StepNotEarly
<1> QED
  BY <1>1, TimeoutsInvariant, PTL DEF Spec, NeverEarly

=============================================================================
