---------------------------- MODULE ServerProofs ----------------------------
(***************************************************************************)
(* Proofs about Server, for any number of sessions, management sessions    *)
(* and signals: ServerInv is inductive; with it the DNS thread never       *)
(* touches what cleanup has released, every way out of main releases what  *)
(* main acquired, and what is left of the sessions is known.               *)
(***************************************************************************)
EXTENDS Server, TLAPS, FiniteSetTheorems

Resources == Shared \cup Listeners \cup {"selector", "dns"}
Points == LoopPoints \cup {"cleanup", "join", "selector", "rest", "exited"}

-----------------------------------------------------------------------------
\* Where main is, and what it acquires on the way.

\* The stages of start-up in their order.
LEMMA StageNames ==
  /\ Len(Stages) = 8
  /\ Stages[1] = "shared" /\ Stages[2] = "accounts" /\ Stages[3] = "socks"
  /\ Stages[4] = "mng" /\ Stages[5] = "nio" /\ Stages[6] = "selector"
  /\ Stages[7] = "dns" /\ Stages[8] = "register"
  BY DEF Stages

\* What a stage acquires is what the next one's cleanup has more to release.
LEMMA StageAcquires ==
  ASSUME NEW i \in 1..8
  PROVE  LET before == IF i = 1 THEN {} ELSE CleanupArgs(Stages[i])
             after  == IF i = 8 THEN Resources ELSE CleanupArgs(Stages[i + 1])
         IN before \cup Acquires[Stages[i]] = after
<1>1. /\ Acquires["shared"] = Shared /\ Acquires["accounts"] = {}
      /\ Acquires["socks"] = {"socks"} /\ Acquires["mng"] = {"mng"}
      /\ Acquires["nio"] = {} /\ Acquires["selector"] = {"selector"}
      /\ Acquires["dns"] = {"dns"} /\ Acquires["register"] = {}
  BY DEF Acquires
<1>2. /\ CleanupArgs("accounts") = Shared /\ CleanupArgs("socks") = Shared
      /\ CleanupArgs("mng") = Shared \cup {"socks"}
      /\ CleanupArgs("nio") = Shared \cup Listeners
      /\ CleanupArgs("selector") = Shared \cup Listeners
      /\ CleanupArgs("dns") = Shared \cup Listeners \cup {"selector"}
      /\ CleanupArgs("register") = Resources
  BY DEF CleanupArgs, Resources
<1>3. i = 1 \/ i = 2 \/ i = 3 \/ i = 4 \/ i = 5 \/ i = 6 \/ i = 7 \/ i = 8
  OBVIOUS
<1> QED
  BY <1>1, <1>2, <1>3, StageNames DEF Resources, Listeners

\* pc is a stage of start-up or a point of main without a number.
LEMMA PcType ==
  ASSUME NEW p
  PROVE  p \in {<<"start", i>> : i \in 1..Len(Stages)} \cup
               {<<w, 0>> : w \in {"signals>1", "signals=1", "drained", "select", "serve",
                                  "cleanup", "join", "selector", "rest", "exited"}}
         <=> \/ \E i \in 1..8 : p = <<"start", i>>
             \/ \E w \in Points : p = <<w, 0>>
  BY StageNames DEF Points, LoopPoints

\* Active sessions, without the set.
LEMMA NoneActive == Active = {} <=> \A s \in Slots : ses[s] = "none"
  BY DEF Active

\* What TypeOK says of everything but pc.
DataOK ==
    /\ have \subseteq Resources /\ given \subseteq Resources
    /\ signals \in 0..MaxSignals /\ draining \in BOOLEAN
    /\ ses \in [Slots -> {"none", "active", "resolv", "connecting", "tunnel"}]
    /\ fds \in [Slots -> 0..2] /\ refs \in [Slots -> 0..2]
    /\ admins \subseteq Admins /\ posted \subseteq Slots
    /\ queue \in Seq(Slots) /\ Len(queue) <= Cardinality(Slots)
    /\ thread \in {"none", "run", "sleep", "resolve", "ended"} /\ job \in Slots \cup {NoJob}

\* TypeOK, taken apart.
LEMMA Typed ==
  TypeOK <=> /\ DataOK
             /\ \/ \E i \in 1..8 : pc = <<"start", i>>
                \/ \E w \in Points : pc = <<w, 0>>
  BY PcType DEF TypeOK, DataOK, Resources

\* The same in the next state.
LEMMA TypedNext ==
  TypeOK' <=> /\ DataOK'
              /\ \/ \E i \in 1..8 : pc' = <<"start", i>>
                 \/ \E w \in Points : pc' = <<w, 0>>
  BY PcType DEF TypeOK, DataOK, Resources

-----------------------------------------------------------------------------
\* Steps of main.

\* A step of main that leaves the sessions and the DNS thread's jobs alone.
LEMMA SameJobs ==
  ASSUME JobsInv, UNCHANGED loopVars, thread' = thread
  PROVE  JobsInv'
  BY DEF JobsInv, loopVars

\* pthread_cond_signal, or the start of the thread, gives it no job.
LEMMA WokenJobs ==
  ASSUME JobsInv, UNCHANGED loopVars, thread' = Woken
  PROVE  JobsInv'
  BY DEF JobsInv, loopVars, Woken

\* Nor do the references change, before the selector is destroyed and after it.
LEMMA SameRefs ==
  ASSUME RefsInv, UNCHANGED loopVars,
         pc'[1] \in {"rest", "exited"} <=> pc[1] \in {"rest", "exited"}
  PROVE  RefsInv'
  BY DEF RefsInv, loopVars

\* A stage of start-up succeeds: the next one would release all there is.
LEMMA StartStepInv ==
  ASSUME ServerInv, StartStep
  PROVE  ServerInv'
<1>1. TypeOK /\ PcInv /\ JobsInv /\ RefsInv /\ DataOK
  BY Typed DEF ServerInv
<1>2. PICK i \in 1..8 : pc = <<"start", i>>
  BY <1>1, Typed DEF StartStep, Points, LoopPoints
<1>3. pc[1] = "start" /\ pc[2] = i
  BY <1>2
<1>4. /\ have = IF i = 1 THEN {} ELSE CleanupArgs(Stages[i])
      /\ thread \in IF i = 8 THEN Started ELSE {"none"}
      /\ draining = FALSE /\ Active = {} /\ admins = {}
  BY <1>1, <1>3, StageNames DEF PcInv, DataOK
<1>5. /\ have' = have \cup Acquires[Stages[i]]
      /\ thread' = IF Stages[i] = "dns" THEN "run" ELSE thread
      /\ IF i = 8 THEN pc' = <<"signals>1", 0>> ELSE pc' = <<"start", i + 1>>
      /\ UNCHANGED <<given, signals, draining>> /\ UNCHANGED loopVars
  BY <1>3, StageNames DEF StartStep, Goto
<1>6. have' = IF i = 8 THEN Resources ELSE CleanupArgs(Stages[i + 1])
  BY <1>4, <1>5, StageAcquires
<1>7. Stages[i] = "dns" <=> i = 7
  <2>1. i = 1 \/ i = 2 \/ i = 3 \/ i = 4 \/ i = 5 \/ i = 6 \/ i = 7 \/ i = 8
    OBVIOUS
  <2> QED
    BY <2>1, StageNames
<1>8. thread' \in IF i \in {7, 8} THEN Started ELSE {"none"}
  BY <1>4, <1>5, <1>7 DEF Started
<1>9. Active' = {} /\ admins' = {} /\ draining' = FALSE
  BY <1>4, <1>5 DEF Active, loopVars
<1>10. have' \subseteq Resources
  <2>1. i \in 1..7 => i + 1 \in 2..8
    OBVIOUS
  <2>2. \A k \in 2..8 : CleanupArgs(Stages[k]) \subseteq Resources
    <3> SUFFICES ASSUME NEW k \in 2..8
                 PROVE  CleanupArgs(Stages[k]) \subseteq Resources
      OBVIOUS
    <3>1. k = 2 \/ k = 3 \/ k = 4 \/ k = 5 \/ k = 6 \/ k = 7 \/ k = 8
      OBVIOUS
    <3> QED
      BY <3>1, StageNames DEF CleanupArgs, Resources, Listeners
  <2> QED
    BY <1>6, <2>1, <2>2
<1>11. DataOK'
  BY <1>1, <1>5, <1>8, <1>10 DEF DataOK, loopVars, Started
<1>12. JobsInv'
  BY <1>1, <1>4, <1>5, <1>7 DEF JobsInv, loopVars, Started
<1>13. ASSUME NEW k, pc' = <<"start", k>> \/ pc' = <<"signals>1", k>>
       PROVE  RefsInv'
  BY <1>1, <1>3, <1>5, <1>13, SameRefs
<1>14. CASE i = 8
  <2>1. pc' = <<"signals>1", 0>> /\ pc'[1] = "signals>1" /\ "signals>1" \in Points
    BY <1>5, <1>14 DEF Points, LoopPoints
  <2>2. TypeOK'
    BY <1>11, <2>1, TypedNext
  <2>3. PcInv'
    BY <1>6, <1>8, <1>9, <1>14, <2>1 DEF PcInv, Resources
  <2> QED
    BY <1>12, <1>13, <2>1, <2>2, <2>3 DEF ServerInv
<1>15. CASE i # 8
  <2>1. /\ pc' = <<"start", i + 1>> /\ pc'[1] = "start" /\ pc'[2] = i + 1
        /\ i + 1 \in 1..8 /\ i + 1 # 1
    BY <1>5, <1>15
  <2>2. TypeOK'
    BY <1>11, <2>1, TypedNext
  <2>3. thread' \in IF i + 1 = 8 THEN Started ELSE {"none"}
    BY <1>8, <1>15
  <2>4. have' = (IF pc[2] = 1 THEN {} ELSE CleanupArgs(Stages[pc[2]]))'
    <3>1. i = 1 \/ i = 2 \/ i = 3 \/ i = 4 \/ i = 5 \/ i = 6 \/ i = 7
      BY <1>15
    <3> QED
      BY <1>6, <1>15, <2>1, <3>1, StageNames DEF CleanupArgs
  <2>5. PcInv'
    BY <1>9, <2>1, <2>3, <2>4, StageNames DEF PcInv, LoopPoints
  <2> QED
    BY <1>12, <1>13, <2>1, <2>2, <2>5 DEF ServerInv
<1> QED
  BY <1>14, <1>15

\* A stage of start-up fails: cleanup is given what the earlier ones acquired.
LEMMA StartFailsInv ==
  ASSUME ServerInv, StartFails
  PROVE  ServerInv'
<1>1. TypeOK /\ PcInv /\ JobsInv /\ RefsInv /\ DataOK
  BY Typed DEF ServerInv
<1>2. PICK i \in 1..8 : pc = <<"start", i>>
  BY <1>1, Typed DEF StartFails, Points, LoopPoints
<1>3. pc[1] = "start" /\ pc[2] = i
  BY <1>2
<1>4. /\ have = IF i = 1 THEN {} ELSE CleanupArgs(Stages[i])
      /\ thread \in IF i = 8 THEN Started ELSE {"none"}
      /\ Active = {} /\ admins = {}
  BY <1>1, <1>3, StageNames DEF PcInv
<1>5. /\ have' \in IF i = 1 THEN SUBSET Shared \ {Shared} ELSE {have}
      /\ given' = IF i = 1 THEN have' ELSE CleanupArgs(Stages[i])
      /\ pc' = <<"cleanup", 0>>
      /\ UNCHANGED <<signals, draining, thread>> /\ UNCHANGED loopVars
  BY <1>3 DEF StartFails, Goto
<1>6. given' = have' /\ have' \subseteq Resources
  BY <1>1, <1>4, <1>5 DEF Resources, DataOK
<1>7. "dns" \in given' <=> i = 8
  <2>1. i = 1 \/ i = 2 \/ i = 3 \/ i = 4 \/ i = 5 \/ i = 6 \/ i = 7 \/ i = 8
    OBVIOUS
  <2> QED
    BY <1>5, <2>1, StageNames DEF CleanupArgs, Shared, Listeners
<1>8. i = 8 => "selector" \in given'
  BY <1>5, StageNames DEF CleanupArgs
<1>9. Active' = {} /\ admins' = {}
  BY <1>4, <1>5 DEF Active, loopVars
<1>10. pc'[1] = "cleanup" /\ "cleanup" \in Points
  BY <1>5 DEF Points
<1>11. DataOK'
  BY <1>1, <1>5, <1>6 DEF DataOK, loopVars
<1>12. TypeOK'
  BY <1>5, <1>10, <1>11, TypedNext
<1>13. PcInv'
  BY <1>4, <1>5, <1>6, <1>7, <1>8, <1>9, <1>10 DEF PcInv, LoopPoints
<1>14. JobsInv'
  BY <1>1, <1>5, SameJobs
<1>15. RefsInv'
  BY <1>1, <1>3, <1>5, <1>10, SameRefs
<1> QED
  BY <1>12, <1>13, <1>14, <1>15 DEF ServerInv

\* What the invariant says inside the loop.
LEMMA AtLoop ==
  ASSUME ServerInv, NEW w \in LoopPoints, At(w)
  PROVE  /\ pc[1] = w /\ PcInv /\ JobsInv /\ RefsInv /\ DataOK
         /\ have = Shared \cup {"selector", "dns"} \cup (IF draining THEN {} ELSE Listeners)
         /\ thread \in Started
<1>1. pc[1] = w
  BY DEF At
<1> QED
  BY <1>1, Typed DEF ServerInv, PcInv

\* The loop is left: cleanup is given all that the process has.
LEMMA BreakInv ==
  ASSUME ServerInv, NEW w \in LoopPoints, At(w), Break
  PROVE  ServerInv'
<1>1. /\ pc[1] = w /\ PcInv /\ JobsInv /\ RefsInv /\ DataOK
      /\ have = Shared \cup {"selector", "dns"} \cup (IF draining THEN {} ELSE Listeners)
      /\ thread \in Started
  BY AtLoop
<1>2. /\ pc' = <<"cleanup", 0>> /\ given' = have
      /\ UNCHANGED <<have, signals, draining, thread>> /\ UNCHANGED loopVars
  BY <1>1 DEF Break, Goto, Everything, DataOK, Resources
<1>3. pc'[1] = "cleanup" /\ "cleanup" \in Points
  BY <1>2 DEF Points
<1>4. TypeOK'
  <2>1. DataOK'
    BY <1>1, <1>2 DEF DataOK, loopVars
  <2> QED
    BY <1>2, <1>3, <2>1, TypedNext
<1>5. PcInv'
  BY <1>1, <1>2, <1>3 DEF PcInv, LoopPoints
<1>6. JobsInv'
  BY <1>1, <1>2, SameJobs
<1>7. RefsInv'
  <2>1. pc[1] \notin {"rest", "exited"} /\ pc'[1] \notin {"rest", "exited"}
    BY <1>1, <1>3 DEF LoopPoints
  <2> QED
    BY <1>1, <1>2, <2>1, SameRefs
<1> QED
  BY <1>4, <1>5, <1>6, <1>7 DEF ServerInv

\* main goes on inside the loop; at most the listeners are closed.
LEMMA LoopInv ==
  ASSUME ServerInv, NEW w \in LoopPoints, At(w), NEW x \in LoopPoints, Goto(x),
         draining' \in BOOLEAN,
         have' = Shared \cup {"selector", "dns"} \cup (IF draining' THEN {} ELSE Listeners),
         UNCHANGED <<given, signals, thread>>, UNCHANGED loopVars
  PROVE  ServerInv'
<1>1. pc[1] = w /\ PcInv /\ JobsInv /\ RefsInv /\ DataOK /\ thread \in Started
  BY AtLoop
<1>2. pc' = <<x, 0>> /\ pc'[1] = x /\ x \in Points
  BY DEF Goto, Points
<1>3. TypeOK'
  <2>1. DataOK'
    BY <1>1 DEF DataOK, loopVars, Resources
  <2> QED
    BY <1>2, <2>1, TypedNext
<1>4. PcInv'
  BY <1>1, <1>2 DEF PcInv, LoopPoints
<1>5. JobsInv'
  BY <1>1, SameJobs
<1>6. RefsInv'
  <2>1. pc[1] \notin {"rest", "exited"} /\ pc'[1] \notin {"rest", "exited"}
    BY <1>1, <1>2 DEF LoopPoints
  <2> QED
    BY <1>1, <2>1, SameRefs
<1> QED
  BY <1>3, <1>4, <1>5, <1>6 DEF ServerInv

\* The tests at the top of the loop, the drain and pselect.
LEMMA RoundInv ==
  ASSUME ServerInv, FirstTest \/ Drain \/ ToSelect \/ SelectReturns \/ EndRound
  PROVE  ServerInv'
<1>1. ASSUME NEW w \in LoopPoints, At(w), NEW x \in LoopPoints, Goto(x),
             UNCHANGED <<have, given, signals, draining, thread>>, UNCHANGED loopVars
      PROVE  ServerInv'
  <2>1. /\ DataOK
        /\ have = Shared \cup {"selector", "dns"} \cup (IF draining THEN {} ELSE Listeners)
    BY <1>1, AtLoop
  <2>2. /\ draining' \in BOOLEAN
        /\ have' = Shared \cup {"selector", "dns"} \cup (IF draining' THEN {} ELSE Listeners)
    BY <1>1, <2>1 DEF DataOK
  <2> QED
    BY <1>1, <2>2, LoopInv
<1>2. CASE FirstTest
  BY <1>1, <1>2 DEF FirstTest, LoopPoints
<1>3. CASE ToSelect
  BY <1>1, <1>3 DEF ToSelect, LoopPoints
<1>4. CASE SelectReturns
  BY <1>1, <1>4 DEF SelectReturns, LoopPoints
<1>5. CASE EndRound
  BY <1>1, <1>5 DEF EndRound, LoopPoints
<1>6. CASE Drain
  <2> DEFINE drain == signals = 1 /\ ~draining
  <2>1. /\ At("signals=1") /\ Goto("drained")
        /\ have' = IF drain THEN have \ Listeners ELSE have
        /\ draining' = (draining \/ drain)
        /\ UNCHANGED <<given, signals, thread>> /\ UNCHANGED loopVars
    BY <1>6 DEF Drain
  <2>2. "signals=1" \in LoopPoints /\ "drained" \in LoopPoints
    BY DEF LoopPoints
  <2>3. /\ DataOK
        /\ have = Shared \cup {"selector", "dns"} \cup (IF draining THEN {} ELSE Listeners)
    BY <2>1, <2>2, AtLoop
  <2>4. /\ draining' \in BOOLEAN
        /\ have' = Shared \cup {"selector", "dns"} \cup (IF draining' THEN {} ELSE Listeners)
    BY <2>1, <2>3 DEF DataOK, Shared, Listeners
  <2> QED
    BY <2>1, <2>2, <2>4, LoopInv
<1> QED
  BY <1>2, <1>3, <1>4, <1>5, <1>6

-----------------------------------------------------------------------------
\* The handlers of a round.

\* A step of a handler: main and the resources stay, the jobs stay in order.
LEMMA ServeInv ==
  ASSUME ServerInv, Serve, DataOK', JobsInv', RefsInv', thread' \in Started
  PROVE  ServerInv'
<1>1. At("serve") /\ UNCHANGED <<pc, have, given, signals, draining>>
  BY DEF Serve
<1>2. "serve" \in LoopPoints /\ "serve" \in Points
  BY DEF LoopPoints, Points
<1>3. /\ pc[1] = "serve"
      /\ have = Shared \cup {"selector", "dns"} \cup (IF draining THEN {} ELSE Listeners)
  BY <1>1, <1>2, AtLoop
<1>4. TypeOK'
  BY <1>1, <1>2, TypedNext DEF At
<1>5. PcInv'
  BY <1>1, <1>2, <1>3 DEF PcInv
<1> QED
  BY <1>4, <1>5 DEF ServerInv

\* What a handler starts from.
LEMMA Served ==
  ASSUME ServerInv, Serve
  PROVE  /\ DataOK /\ JobsInv /\ RefsInv /\ thread \in Started
         /\ pc[1] = "serve" /\ pc'[1] = "serve"
  BY AtLoop DEF Serve, LoopPoints

\* A state, a number of descriptors and one of references that go together.
Fits(v, f, r) ==
    /\ v \in {"none", "active", "resolv", "connecting", "tunnel"}
    /\ f \in 0..2 /\ r = f + (IF v = "resolv" THEN 1 ELSE 0)
    /\ v = "none" <=> f = 0
    /\ v \in {"active", "resolv"} => f = 1

\* Session s gets them.
Moves(s, v, f, r) ==
    /\ ses' = [ses EXCEPT ![s] = v]
    /\ fds' = [fds EXCEPT ![s] = f]
    /\ refs' = [refs EXCEPT ![s] = r]

\* The types of what the sessions have in the next state.
SessionsTyped ==
    /\ ses' \in [Slots -> {"none", "active", "resolv", "connecting", "tunnel"}]
    /\ fds' \in [Slots -> 0..2] /\ refs' \in [Slots -> 0..2]

\* A session s changes, and its references with its descriptors.
LEMMA RefsMove ==
  ASSUME ServerInv, Serve, NEW s \in Slots, NEW v, NEW f, NEW r,
         Fits(v, f, r), Moves(s, v, f, r)
  PROVE  SessionsTyped /\ RefsInv'
<1>1. DataOK /\ RefsInv /\ pc[1] = "serve" /\ pc'[1] = "serve"
  BY Served
<1>2. /\ ses \in [Slots -> {"none", "active", "resolv", "connecting", "tunnel"}]
      /\ fds \in [Slots -> 0..2] /\ refs \in [Slots -> 0..2]
  BY <1>1 DEF DataOK
<1>3. r \in 0..2
  BY DEF Fits
<1>4. SessionsTyped
  BY <1>2, <1>3 DEF Fits, Moves, SessionsTyped
<1>5. ses'[s] = v /\ fds'[s] = f /\ refs'[s] = r
  BY <1>2 DEF Moves
<1>6. \A x \in Slots \ {s} : ses'[x] = ses[x] /\ fds'[x] = fds[x] /\ refs'[x] = refs[x]
  BY <1>2 DEF Moves
<1>7. RefsInv'
  <2> SUFFICES ASSUME NEW x \in Slots
               PROVE  /\ ses'[x] = "none" <=> fds'[x] = 0
                      /\ ses'[x] \in {"active", "resolv"} => fds'[x] = 1
                      /\ refs'[x] = (IF pc'[1] \in {"rest", "exited"} THEN 0 ELSE fds'[x])
                                     + (IF ses'[x] = "resolv" THEN 1 ELSE 0)
    BY DEF RefsInv
  <2>1. CASE x = s
    BY <1>1, <1>5, <2>1 DEF Fits
  <2>2. CASE x # s
    BY <1>1, <1>6, <2>2 DEF RefsInv
  <2> QED
    BY <2>1, <2>2
<1> QED
  BY <1>4, <1>7

\* The references of a session that is served.
LEMMA RefsOf ==
  ASSUME ServerInv, Serve, NEW s \in Slots
  PROVE  /\ fds[s] \in 0..2 /\ refs[s] = fds[s] + (IF ses[s] = "resolv" THEN 1 ELSE 0)
         /\ ses[s] = "none" <=> fds[s] = 0
         /\ ses[s] \in {"active", "resolv"} => fds[s] = 1
         /\ ses = [ses EXCEPT ![s] = ses[s]] /\ fds = [fds EXCEPT ![s] = fds[s]]
         /\ refs = [refs EXCEPT ![s] = refs[s]]
<1>1. DataOK /\ RefsInv /\ pc[1] = "serve"
  BY Served
<1> QED
  BY <1>1 DEF DataOK, RefsInv

\* A session that no DNS job names changes.
LEMMA OtherSession ==
  ASSUME ServerInv, Serve, NEW s \in Slots, ses[s] # "resolv",
         NEW v, NEW f, NEW r, Fits(v, f, r), Moves(s, v, f, r),
         UNCHANGED <<admins, queue, thread, job, posted>>
  PROVE  ServerInv'
<1>1. DataOK /\ JobsInv /\ thread \in Started
  BY Served
<1>2. UNCHANGED <<have, given, signals, draining>>
  BY DEF Serve
<1>3. ses \in [Slots -> {"none", "active", "resolv", "connecting", "tunnel"}]
      /\ queue \in Seq(Slots) /\ posted \subseteq Slots
  BY <1>1 DEF DataOK
<1>4. SessionsTyped /\ RefsInv'
  BY RefsMove
<1>5. DataOK'
  BY <1>1, <1>2, <1>4 DEF DataOK, SessionsTyped
<1>6. \A x \in Slots : ses[x] = "resolv" => ses'[x] = "resolv"
  BY <1>3 DEF Moves
<1>7. \A k \in 1..Len(queue) : queue[k] \in Slots
  BY <1>3
<1>8. JobsInv'
  BY <1>1, <1>3, <1>6, <1>7 DEF JobsInv
<1> QED
  BY <1>1, <1>4, <1>5, <1>8, ServeInv

\* The management sessions are nobody else's business.
LEMMA AdminInv ==
  ASSUME ServerInv, NEW a \in Admins, AcceptAdmin(a) \/ EndAdmin(a)
  PROVE  ServerInv'
<1>1. Serve /\ admins' \in {admins \cup {a}, admins \ {a}}
      /\ UNCHANGED <<ses, fds, refs, queue, thread, job, posted>>
  BY DEF AcceptAdmin, EndAdmin, sesVars
<1>2. /\ DataOK /\ JobsInv /\ RefsInv /\ thread \in Started
      /\ pc[1] = "serve" /\ pc'[1] = "serve"
  BY <1>1, Served
<1>3. UNCHANGED <<have, given, signals, draining>>
  BY <1>1 DEF Serve
<1>4. DataOK'
  BY <1>1, <1>2, <1>3 DEF DataOK
<1>5. JobsInv'
  BY <1>1, <1>2 DEF JobsInv
<1>6. RefsInv'
  BY <1>1, <1>2 DEF RefsInv
<1> QED
  BY <1>1, <1>2, <1>4, <1>5, <1>6, ServeInv

\* A queue that names each slot at most once is no longer than their number.
LEMMA QueueBound ==
  ASSUME NEW q \in Seq(Slots), \A k, m \in 1..Len(q) : q[k] = q[m] => k = m
  PROVE  Len(q) <= Cardinality(Slots)
<1>1. Len(q) \in Nat /\ q \in [1..Len(q) -> Slots]
  OBVIOUS
<1>2. q \in Injection(1..Len(q), Slots)
  BY <1>1 DEF Injection, IsInjective
<1>3. Cardinality(1..Len(q)) <= Cardinality(Slots)
  BY <1>2, SlotsAssumption, FS_Injection
<1>4. Cardinality(1..Len(q)) = Len(q)
  <2> DEFINE n == Len(q)
  <2>1. 1 \in Int /\ n \in Nat /\ n \in Int
    BY <1>1
  <2> HIDE DEF n
  <2>2. Cardinality(1..n) = IF 1 > n THEN 0 ELSE n - 1 + 1
    BY <2>1, FS_Interval, Zenon
  <2>3. Cardinality(1..n) = n
    BY <2>1, <2>2
  <2> QED
    BY <2>3 DEF n
<1> QED
  BY <1>3, <1>4

\* dns_worker_submit: the session was in no job.
LEMMA SubmitInv ==
  ASSUME ServerInv, NEW s \in Slots, Submit(s)
  PROVE  ServerInv'
<1>1. /\ Serve /\ ses[s] = "active" /\ ses' = [ses EXCEPT ![s] = "resolv"]
      /\ queue' = Append(queue, s) /\ thread' = Woken /\ UNCHANGED <<fds, admins, job, posted>>
      /\ refs' = [refs EXCEPT ![s] = refs[s] + 1]
  BY DEF Submit
<1>2. DataOK /\ JobsInv /\ thread \in Started
  BY <1>1, Served
<1>3. UNCHANGED <<have, given, signals, draining>>
  BY <1>1 DEF Serve
<1>4. /\ ses \in [Slots -> {"none", "active", "resolv", "connecting", "tunnel"}]
      /\ queue \in Seq(Slots) /\ posted \subseteq Slots
  BY <1>2 DEF DataOK
<1>5. /\ queue' \in Seq(Slots) /\ Len(queue') = Len(queue) + 1
      /\ queue'[Len(queue) + 1] = s
      /\ \A k \in 1..Len(queue) : queue'[k] = queue[k] /\ queue[k] \in Slots
  BY <1>1, <1>4
<1>6. /\ \A x \in Slots : ses[x] = "resolv" => ses'[x] = "resolv"
      /\ ses'[s] = "resolv"
  BY <1>1, <1>4
<1>7. \A k \in 1..Len(queue) : queue[k] # s
  BY <1>1, <1>2 DEF JobsInv
<1>8. \A k \in 1..Len(queue') : k \in 1..Len(queue) \/ k = Len(queue) + 1
  BY <1>4, <1>5
<1>9. \A k, m \in 1..Len(queue') : queue'[k] = queue'[m] => k = m
  <2> SUFFICES ASSUME NEW k \in 1..Len(queue'), NEW m \in 1..Len(queue'),
                      queue'[k] = queue'[m]
               PROVE  k = m
    OBVIOUS
  <2>1. CASE k \in 1..Len(queue) /\ m \in 1..Len(queue)
    BY <1>2, <1>5, <2>1 DEF JobsInv
  <2>2. CASE k = Len(queue) + 1 \/ m = Len(queue) + 1
    BY <1>5, <1>7, <1>8, <2>2
  <2> QED
    BY <1>8, <2>1, <2>2
<1>10. Len(queue') <= Cardinality(Slots)
  BY <1>5, <1>9, QueueBound
<1>11. thread' \in Started /\ (thread' = "resolve" <=> thread = "resolve")
  BY <1>1, <1>2 DEF Woken, Started
<1>12. SessionsTyped /\ RefsInv'
  <2>1. fds[s] = 1 /\ refs[s] = 1 /\ fds = [fds EXCEPT ![s] = fds[s]]
    BY <1>1, RefsOf
  <2>2. fds' = [fds EXCEPT ![s] = 1] /\ refs' = [refs EXCEPT ![s] = 2]
    BY <1>1, <2>1
  <2>3. Fits("resolv", 1, 2)
    BY DEF Fits
  <2>4. Moves(s, "resolv", 1, 2)
    BY <1>1, <2>2, Zenon DEF Moves
  <2> QED
    BY <1>1, <2>3, <2>4, RefsMove
<1>13. DataOK'
  BY <1>1, <1>2, <1>3, <1>5, <1>10, <1>11, <1>12 DEF DataOK, Started, SessionsTyped
<1>14. \A k \in 1..Len(queue') : ses'[queue'[k]] = "resolv" /\ queue'[k] \notin posted'
  <2> SUFFICES ASSUME NEW k \in 1..Len(queue')
               PROVE  ses'[queue'[k]] = "resolv" /\ queue'[k] \notin posted'
    OBVIOUS
  <2>1. CASE k \in 1..Len(queue)
    BY <1>1, <1>2, <1>5, <1>6, <2>1 DEF JobsInv
  <2>2. CASE k = Len(queue) + 1
    BY <1>1, <1>2, <1>5, <1>6, <2>2 DEF JobsInv
  <2> QED
    BY <1>8, <2>1, <2>2
<1>15. thread' = "resolve" =>
         /\ job' \in Slots /\ ses'[job'] = "resolv" /\ job' \notin posted'
         /\ \A k \in 1..Len(queue') : queue'[k] # job'
  BY <1>1, <1>2, <1>5, <1>6, <1>8, <1>11 DEF JobsInv
<1>16. \A x \in posted' : ses'[x] = "resolv"
  BY <1>1, <1>2, <1>4, <1>6 DEF JobsInv
<1>17. JobsInv'
  BY <1>9, <1>11, <1>14, <1>15, <1>16 DEF JobsInv, Started
<1> QED
  BY <1>1, <1>11, <1>13, <1>17, <1>12, ServeInv

\* request_resolv_done: the answered session is in no other job.
LEMMA ResolvedInv ==
  ASSUME ServerInv, NEW s \in Slots, Resolved(s)
  PROVE  ServerInv'
<1>1. /\ Serve /\ s \in posted /\ posted' = posted \ {s}
      /\ ses' = [ses EXCEPT ![s] = "connecting"] /\ UNCHANGED <<admins, queue, thread, job>>
      /\ \E n \in 0..1 : /\ fds' = [fds EXCEPT ![s] = fds[s] + n]
                         /\ refs' = [refs EXCEPT ![s] = (refs[s] - 1) + n]
  BY DEF Resolved, Connecting
<1>2. DataOK /\ JobsInv /\ thread \in Started
  BY <1>1, Served
<1>3. UNCHANGED <<have, given, signals, draining>>
  BY <1>1 DEF Serve
<1>4. /\ ses \in [Slots -> {"none", "active", "resolv", "connecting", "tunnel"}]
      /\ queue \in Seq(Slots) /\ posted \subseteq Slots
  BY <1>2 DEF DataOK
<1>5. SessionsTyped /\ RefsInv'
  <2>1. PICK n \in 0..1 : /\ fds' = [fds EXCEPT ![s] = fds[s] + n]
                          /\ refs' = [refs EXCEPT ![s] = (refs[s] - 1) + n]
    BY <1>1
  <2>2. ses[s] = "resolv"
    BY <1>1, <1>2 DEF JobsInv
  <2>3. fds[s] = 1 /\ refs[s] = 2
    BY <1>1, <2>2, RefsOf
  <2>4. fds[s] + n \in 1..2 /\ (refs[s] - 1) + n = fds[s] + n
    BY <2>3
  <2> DEFINE f == fds[s] + n
  <2>5. fds' = [fds EXCEPT ![s] = f] /\ refs' = [refs EXCEPT ![s] = f]
    BY <2>1, <2>4
  <2>6. f \in 0..2 /\ f \in Int /\ f # 0
    BY <2>4
  <2> HIDE DEF f
  <2>7. Fits("connecting", f, f)
    BY <2>6 DEF Fits
  <2>8. Moves(s, "connecting", f, f)
    BY <1>1, <2>5, <2>6, Zenon DEF Moves
  <2> QED
    BY <1>1, <2>7, <2>8, RefsMove
<1>6. DataOK'
  BY <1>1, <1>2, <1>3, <1>5 DEF DataOK, SessionsTyped
<1>7. \A x \in Slots \ {s} : ses[x] = "resolv" => ses'[x] = "resolv"
  BY <1>1, <1>4
<1>8. \A k \in 1..Len(queue) : queue[k] \in Slots \ {s}
  BY <1>1, <1>2, <1>4 DEF JobsInv
<1>9. JobsInv'
  BY <1>1, <1>2, <1>4, <1>7, <1>8 DEF JobsInv
<1> QED
  BY <1>1, <1>2, <1>6, <1>9, <1>5, ServeInv

\* The handlers that do not touch the DNS thread's jobs.
LEMMA SessionInv ==
  ASSUME ServerInv, NEW s \in Slots,
         AcceptSocks(s) \/ Connect(s) \/ LoseOrigin(s) \/ OpenTunnel(s) \/ EndSession(s)
  PROVE  ServerInv'
<1>1. /\ Serve /\ ses[s] # "resolv"
      /\ UNCHANGED <<admins, queue, thread, job, posted>>
  BY DEF AcceptSocks, Connect, LoseOrigin, OpenTunnel, EndSession
<1>2. /\ fds[s] \in 0..2 /\ refs[s] = fds[s]
      /\ ses[s] = "active" => fds[s] = 1
      /\ ses = [ses EXCEPT ![s] = ses[s]] /\ fds = [fds EXCEPT ![s] = fds[s]]
      /\ refs = [refs EXCEPT ![s] = refs[s]]
  BY <1>1, RefsOf
<1>3. CASE AcceptSocks(s)
  <2>1. /\ ses' = [ses EXCEPT ![s] = "active"] /\ fds' = [fds EXCEPT ![s] = 1]
        /\ refs' = [refs EXCEPT ![s] = 1]
    BY <1>3 DEF AcceptSocks
  <2>2. Fits("active", 1, 1)
    BY DEF Fits
  <2>3. Moves(s, "active", 1, 1)
    BY <2>1, Zenon DEF Moves
  <2> QED
    BY <1>1, <2>2, <2>3, OtherSession
<1>4. CASE Connect(s)
  <2>1. PICK n \in 0..1 : /\ ses' = [ses EXCEPT ![s] = "connecting"]
                          /\ fds' = [fds EXCEPT ![s] = fds[s] + n]
                          /\ refs' = [refs EXCEPT ![s] = refs[s] + n]
    BY <1>4 DEF Connect, Connecting
  <2>2. fds[s] = 1
    BY <1>2, <1>4 DEF Connect
  <2>3. fds[s] + n \in 1..2
    BY <2>2
  <2> DEFINE f == fds[s] + n
  <2>4. fds' = [fds EXCEPT ![s] = f] /\ refs' = [refs EXCEPT ![s] = f]
    BY <1>2, <2>1
  <2>5. f \in 0..2 /\ f # 0
    BY <2>3
  <2> HIDE DEF f
  <2>6. Fits("connecting", f, f)
    BY <2>5 DEF Fits
  <2>7. Moves(s, "connecting", f, f)
    BY <2>1, <2>4, <2>5, Zenon DEF Moves
  <2> QED
    BY <1>1, <2>6, <2>7, OtherSession
<1>5. CASE LoseOrigin(s)
  <2>1. /\ ses[s] = "connecting" /\ ses' = ses /\ fds[s] = 2
        /\ fds' = [fds EXCEPT ![s] = fds[s] - 1] /\ refs' = [refs EXCEPT ![s] = refs[s] - 1]
    BY <1>5 DEF LoseOrigin
  <2>2. fds[s] - 1 = 1 /\ refs[s] - 1 = 1
    BY <1>2, <2>1
  <2>3. ses' = [ses EXCEPT ![s] = "connecting"]
    BY <1>2, <2>1, Zenon
  <2>4. Fits("connecting", 1, 1)
    BY DEF Fits
  <2>5. Moves(s, "connecting", 1, 1)
    BY <2>1, <2>2, <2>3, Zenon DEF Moves
  <2> QED
    BY <1>1, <2>4, <2>5, OtherSession
<1>6. CASE OpenTunnel(s)
  <2>1. /\ ses' = [ses EXCEPT ![s] = "tunnel"] /\ fds[s] = 2 /\ fds' = fds /\ refs' = refs
    BY <1>6 DEF OpenTunnel
  <2>2. fds' = [fds EXCEPT ![s] = 2] /\ refs' = [refs EXCEPT ![s] = 2]
    BY <1>2, <2>1, Zenon
  <2>3. Fits("tunnel", 2, 2)
    BY DEF Fits
  <2>4. Moves(s, "tunnel", 2, 2)
    BY <2>1, <2>2, Zenon DEF Moves
  <2> QED
    BY <1>1, <2>3, <2>4, OtherSession
<1>7. CASE EndSession(s)
  <2>1. /\ ses' = [ses EXCEPT ![s] = "none"] /\ fds' = [fds EXCEPT ![s] = 0]
        /\ refs' = [refs EXCEPT ![s] = refs[s] - fds[s]]
    BY <1>7 DEF EndSession, Destroyed
  <2>2. refs[s] - fds[s] = 0
    BY <1>2
  <2>3. Fits("none", 0, 0)
    BY DEF Fits
  <2>4. Moves(s, "none", 0, 0)
    BY <2>1, <2>2, Zenon DEF Moves
  <2> QED
    BY <1>1, <2>3, <2>4, OtherSession
<1> QED
  BY <1>3, <1>4, <1>5, <1>6, <1>7

-----------------------------------------------------------------------------
\* The signals, the DNS thread and cleanup.

\* A step outside main: main stays, and so does what the process has.
LEMMA OutsideMain ==
  ASSUME ServerInv, UNCHANGED <<pc, have, given, draining, ses, fds, refs, admins>>,
         DataOK', JobsInv',
         \/ thread' = thread
         \/ /\ thread = "run" /\ thread' \in {"resolve", "sleep", "ended"}
            /\ "dns" \in have => thread' # "ended"
            /\ "dns" \notin have => thread' # "sleep"
         \/ thread = "resolve" /\ thread' = "run"
  PROVE  ServerInv'
<1>1. TypeOK /\ PcInv /\ RefsInv
  BY DEF ServerInv
<1>2. TypeOK'
  BY <1>1, Typed, TypedNext
<1>3. Active' = Active /\ \A st : CleanupArgs(st)' = CleanupArgs(st)
  BY DEF Active, CleanupArgs
<1>4. pc[1] = "start" /\ pc[2] = Len(Stages) => "dns" \in have
  BY <1>1, StageNames DEF PcInv, CleanupArgs
<1>5. PcInv'
  <2>1. pc[1] = "start" =>
          /\ have = IF pc[2] = 1 THEN {} ELSE CleanupArgs(Stages[pc[2]])
          /\ thread' \in IF pc[2] = Len(Stages) THEN Started ELSE {"none"}
          /\ ~draining /\ Active = {} /\ admins = {}
    BY <1>1, <1>4 DEF PcInv, Started
  <2>2. pc[1] \in LoopPoints =>
          /\ have = Shared \cup {"selector", "dns"} \cup (IF draining THEN {} ELSE Listeners)
          /\ thread' \in Started
    BY <1>1 DEF PcInv, Started
  <2>3. pc[1] = "cleanup" =>
          have = given /\ thread' \in IF "dns" \in given THEN Started ELSE {"none"}
    BY <1>1 DEF PcInv, Started
  <2>4. pc[1] = "join" =>
          /\ "dns" \in given /\ have = given \ {"dns"}
          /\ thread' \in {"run", "resolve", "ended"}
    BY <1>1 DEF PcInv
  <2>5. pc[1] \in {"selector", "rest", "exited"} => thread' \in {"none", "ended"}
    BY <1>1 DEF PcInv
  <2>6. (pc[1] = "start" => have = IF pc[2] = 1 THEN {} ELSE CleanupArgs(Stages[pc[2]]))'
    BY <1>3, <2>1
  <2> QED
    BY <1>1, <1>3, <2>1, <2>2, <2>3, <2>4, <2>5, <2>6 DEF PcInv
<1>6. RefsInv'
  BY <1>1 DEF RefsInv
<1> QED
  BY <1>2, <1>5, <1>6 DEF ServerInv

\* sigterm_handler
LEMMA SignalInv ==
  ASSUME ServerInv, Signal
  PROVE  ServerInv'
<1>1. /\ signals < MaxSignals /\ signals' = signals + 1
      /\ UNCHANGED <<pc, have, given, draining, thread, ses, fds, refs, admins>>
      /\ UNCHANGED loopVars
  BY DEF Signal, loopVars
<1>2. DataOK /\ JobsInv
  BY Typed DEF ServerInv
<1>3. DataOK'
  BY <1>1, <1>2, SignalsAssumption DEF DataOK, loopVars
<1>4. JobsInv'
  BY <1>1, <1>2, SameJobs
<1> QED
  BY <1>1, <1>3, <1>4, OutsideMain

\* The thread takes the oldest job, which nobody else has.
LEMMA TakesJob ==
  ASSUME ServerInv, thread = "run", queue # <<>>, thread' = "resolve",
         job' = Head(queue), queue' = Tail(queue),
         UNCHANGED <<pc, have, given, signals, draining, ses, fds, refs, admins, posted>>
  PROVE  ServerInv'
<1>1. DataOK /\ JobsInv
  BY Typed DEF ServerInv
<1>2. queue \in Seq(Slots) /\ Len(queue) <= Cardinality(Slots)
      /\ Cardinality(Slots) \in Nat
  BY <1>1, SlotsAssumption, FS_CardinalityType DEF DataOK
<1>3. /\ Len(queue) \in Nat /\ Len(queue) > 0 /\ 1 \in 1..Len(queue)
      /\ job' = queue[1] /\ queue' \in Seq(Slots) /\ Len(queue') = Len(queue) - 1
      /\ \A k \in 1..Len(queue') : queue'[k] = queue[k + 1] /\ k + 1 \in 1..Len(queue) /\ k + 1 # 1
  BY <1>2
<1>4. job' \in Slots
  BY <1>2, <1>3
<1>5. DataOK'
  BY <1>1, <1>2, <1>3, <1>4 DEF DataOK
<1>6. \A k \in 1..Len(queue') : ses'[queue'[k]] = "resolv" /\ queue'[k] \notin posted'
  BY <1>1, <1>3 DEF JobsInv
<1>7. \A k, m \in 1..Len(queue') : queue'[k] = queue'[m] => k = m
  <2> SUFFICES ASSUME NEW k \in 1..Len(queue'), NEW m \in 1..Len(queue'),
                      queue'[k] = queue'[m]
               PROVE  k = m
    OBVIOUS
  <2>1. k + 1 = m + 1
    BY <1>1, <1>3 DEF JobsInv
  <2> QED
    BY <2>1
<1>8. /\ ses'[job'] = "resolv" /\ job' \notin posted'
      /\ \A k \in 1..Len(queue') : queue'[k] # job'
  BY <1>1, <1>3 DEF JobsInv
<1>9. \A x \in posted' : ses'[x] = "resolv"
  BY <1>1 DEF JobsInv
<1>10. JobsInv'
  BY <1>4, <1>6, <1>7, <1>8, <1>9 DEF JobsInv
<1> QED
  BY <1>5, <1>10, OutsideMain

\* dns_thread
LEMMA ThreadInv ==
  ASSUME ServerInv, Thread
  PROVE  ServerInv'
<1>1. DataOK /\ JobsInv
  BY Typed DEF ServerInv
<1>2. CASE ThreadLooks /\ queue # <<>>
  BY <1>2, TakesJob DEF ThreadLooks, sesVars
<1>3. CASE ThreadLooks /\ queue = <<>>
  <2>1. /\ thread = "run" /\ thread' = (IF "dns" \in have THEN "sleep" ELSE "ended")
        /\ UNCHANGED <<job, queue, pc, have, given, signals, draining, ses, fds, refs,
                       admins, posted>>
    BY <1>3 DEF ThreadLooks, sesVars
  <2>2. DataOK'
    BY <1>1, <2>1 DEF DataOK
  <2>3. JobsInv'
    BY <1>1, <1>3, <2>1 DEF JobsInv
  <2> QED
    BY <2>1, <2>2, <2>3, OutsideMain
<1>4. CASE ThreadAnswers
  <2>1. /\ thread = "resolve" /\ thread' = "run" /\ posted' = posted \cup {job}
        /\ job' = NoJob
        /\ UNCHANGED <<pc, have, given, signals, draining, ses, fds, refs, admins, queue>>
    BY <1>4 DEF ThreadAnswers, sesVars
  <2>2. job \in Slots /\ ses[job] = "resolv" /\ \A k \in 1..Len(queue) : queue[k] # job
    BY <1>1, <2>1 DEF JobsInv
  <2>3. DataOK'
    BY <1>1, <2>1, <2>2 DEF DataOK
  <2>4. JobsInv'
    BY <1>1, <2>1, <2>2 DEF JobsInv
  <2> QED
    BY <2>1, <2>3, <2>4, OutsideMain
<1> QED
  BY <1>2, <1>3, <1>4 DEF Thread

\* dns_worker_destroy up to pthread_join
LEMMA StopDnsInv ==
  ASSUME ServerInv, StopDns
  PROVE  ServerInv'
<1>1. DataOK /\ JobsInv /\ RefsInv /\ PcInv
  BY Typed DEF ServerInv
<1>2. At("cleanup") /\ pc[1] = "cleanup" /\ UNCHANGED <<given, signals, draining>>
      /\ UNCHANGED loopVars /\ Active' = Active /\ admins' = admins
  BY DEF StopDns, At, Active, loopVars
<1>3. /\ have = given /\ thread \in IF "dns" \in given THEN Started ELSE {"none"}
      /\ IF "selector" \in given THEN TRUE
         ELSE "dns" \notin given /\ Active = {} /\ admins = {}
  BY <1>1, <1>2 DEF PcInv
<1>4. CASE "dns" \in given
  <2>1. pc' = <<"join", 0>> /\ have' = have \ {"dns"} /\ thread' = Woken
    BY <1>4 DEF StopDns, Goto
  <2>2. pc'[1] = "join" /\ "join" \in Points /\ thread' \in {"run", "resolve"}
    BY <1>3, <1>4, <2>1 DEF Points, Woken, Started
  <2>3. DataOK'
    BY <1>1, <1>2, <2>1, <2>2 DEF DataOK, loopVars
  <2>4. TypeOK'
    BY <2>1, <2>2, <2>3, TypedNext
  <2>5. PcInv'
    BY <1>2, <1>3, <1>4, <2>1, <2>2 DEF PcInv, LoopPoints
  <2>6. JobsInv'
    BY <1>1, <1>2, <2>1, WokenJobs
  <2>7. RefsInv'
    BY <1>1, <1>2, <2>2, SameRefs
  <2> QED
    BY <2>4, <2>5, <2>6, <2>7 DEF ServerInv
<1>5. CASE "dns" \notin given
  <2>1. pc' = <<"selector", 0>> /\ UNCHANGED <<have, thread>>
    BY <1>5 DEF StopDns, Goto
  <2>2. pc'[1] = "selector" /\ "selector" \in Points /\ thread' = "none"
    BY <1>3, <1>5, <2>1 DEF Points
  <2>3. DataOK'
    BY <1>1, <1>2, <2>1, <2>2 DEF DataOK, loopVars
  <2>4. TypeOK'
    BY <2>1, <2>2, <2>3, TypedNext
  <2>5. PcInv'
    BY <1>2, <1>3, <1>5, <2>1, <2>2 DEF PcInv, LoopPoints
  <2>6. JobsInv'
    BY <1>1, <1>2, <2>1, SameJobs
  <2>7. RefsInv'
    BY <1>1, <1>2, <2>2, SameRefs
  <2> QED
    BY <2>4, <2>5, <2>6, <2>7 DEF ServerInv
<1> QED
  BY <1>4, <1>5

\* pthread_join returns.
LEMMA JoinInv ==
  ASSUME ServerInv, Join
  PROVE  ServerInv'
<1>1. DataOK /\ JobsInv /\ RefsInv /\ PcInv
  BY Typed DEF ServerInv
<1>2. /\ pc[1] = "join" /\ thread = "ended" /\ pc' = <<"selector", 0>>
      /\ UNCHANGED <<have, given, signals, draining, thread>> /\ UNCHANGED loopVars
      /\ Active' = Active /\ admins' = admins
  BY DEF Join, At, Goto, Active, loopVars
<1>3. pc'[1] = "selector" /\ "selector" \in Points
  BY <1>2 DEF Points
<1>4. DataOK'
  BY <1>1, <1>2 DEF DataOK, loopVars
<1>5. TypeOK'
  BY <1>2, <1>3, <1>4, TypedNext
<1>6. PcInv'
  BY <1>1, <1>2, <1>3 DEF PcInv, LoopPoints
<1>7. JobsInv'
  BY <1>1, <1>2, SameJobs
<1>8. RefsInv'
  BY <1>1, <1>2, <1>3, SameRefs
<1> QED
  BY <1>5, <1>6, <1>7, <1>8 DEF ServerInv

\* selector_destroy: the thread has ended, so its queue is empty.
LEMMA DestroySelectorInv ==
  ASSUME ServerInv, DestroySelector
  PROVE  ServerInv'
<1>1. DataOK /\ JobsInv /\ RefsInv /\ PcInv
  BY Typed DEF ServerInv
<1>2. /\ pc[1] = "selector" /\ pc' = <<"rest", 0>>
      /\ UNCHANGED <<given, signals, draining, ses, fds, queue, thread, job>>
  BY DEF DestroySelector, At, Goto
<1>3. pc'[1] = "rest" /\ "rest" \in Points
  BY <1>2 DEF Points
<1>4. /\ have = given \ {"dns"} /\ thread \in {"none", "ended"} /\ queue = <<>>
      /\ IF "selector" \in given THEN TRUE ELSE Active = {} /\ admins = {}
  BY <1>1, <1>2 DEF PcInv, JobsInv
<1>5. have' = given \ {"dns", "selector"}
  BY <1>4 DEF DestroySelector
<1>6. admins' = {}
  BY <1>4 DEF DestroySelector
<1>7. \A s \in Slots : refs'[s] = IF ses[s] = "resolv" THEN 1 ELSE 0
  <2> SUFFICES ASSUME NEW s \in Slots
               PROVE  refs'[s] = IF ses[s] = "resolv" THEN 1 ELSE 0
    OBVIOUS
  <2>1. /\ fds[s] \in 0..2 /\ refs[s] = fds[s] + (IF ses[s] = "resolv" THEN 1 ELSE 0)
        /\ ses[s] = "none" => fds[s] = 0
    BY <1>1, <1>2 DEF DataOK, RefsInv
  <2>2. CASE "selector" \in given
    <3>1. refs'[s] = refs[s] - fds[s]
      BY <2>2 DEF DestroySelector, Destroyed
    <3> QED
      BY <2>1, <3>1
  <2>3. CASE "selector" \notin given
    <3>1. refs' = refs /\ ses[s] = "none"
      BY <1>4, <2>3, NoneActive DEF DestroySelector
    <3> QED
      BY <2>1, <3>1
  <2> QED
    BY <2>2, <2>3
<1>8. RefsInv'
  <2>1. pc'[1] \in {"rest", "exited"}
    BY <1>3
  <2> QED
    BY <1>1, <1>2, <1>7, <2>1 DEF RefsInv
<1>9. DataOK'
  <2>1. admins' \subseteq Admins /\ posted' \subseteq Slots
    BY <1>1 DEF DestroySelector, DataOK
  <2>2. refs' = [s \in Slots |-> refs'[s]]
    BY <1>1 DEF DestroySelector, DataOK
  <2>3. refs' \in [Slots -> 0..2]
    BY <1>7, <2>2
  <2> QED
    BY <1>1, <1>2, <1>5, <2>1, <2>3 DEF DataOK
<1>10. TypeOK'
  BY <1>2, <1>3, <1>9, TypedNext
<1>11. PcInv'
  BY <1>2, <1>3, <1>4, <1>5, <1>6 DEF PcInv, LoopPoints
<1>12. JobsInv'
  <2>1. queue' = <<>> /\ thread' # "resolve" /\ Len(queue') = 0
    BY <1>2, <1>4
  <2>2. \A s \in posted' : ses'[s] = "resolv"
    BY <1>1, <1>2 DEF DestroySelector, JobsInv
  <2> QED
    BY <2>1, <2>2 DEF JobsInv
<1> QED
  BY <1>10, <1>11, <1>12, <1>8 DEF ServerInv

\* The rest of cleanup: nothing that main acquired is left.
LEMMA DestroyRestInv ==
  ASSUME ServerInv, DestroyRest
  PROVE  ServerInv'
<1>1. DataOK /\ JobsInv /\ RefsInv /\ PcInv
  BY Typed DEF ServerInv
<1>2. /\ pc[1] = "rest" /\ pc' = <<"exited", 0>>
      /\ have' = have \ (given \cap (Listeners \cup Shared))
      /\ UNCHANGED <<given, signals, draining, thread>> /\ UNCHANGED loopVars
      /\ admins' = admins
  BY DEF DestroyRest, At, Goto, Active, loopVars
<1>3. pc'[1] = "exited" /\ "exited" \in Points
  BY <1>2 DEF Points
<1>4. have = given \ {"dns", "selector"} /\ thread \in {"none", "ended"} /\ admins = {}
  BY <1>1, <1>2 DEF PcInv
<1>5. have' = {}
  BY <1>1, <1>2, <1>4 DEF DataOK, Resources
<1>6. DataOK'
  BY <1>1, <1>2, <1>5 DEF DataOK, loopVars
<1>7. TypeOK'
  BY <1>2, <1>3, <1>6, TypedNext
<1>8. PcInv'
  BY <1>2, <1>3, <1>4, <1>5 DEF PcInv, LoopPoints
<1>9. JobsInv'
  BY <1>1, <1>2, SameJobs
<1>10. RefsInv'
  BY <1>1, <1>2, <1>3, SameRefs
<1> QED
  BY <1>7, <1>8, <1>9, <1>10 DEF ServerInv

-----------------------------------------------------------------------------
\* The theorems.

\* Nothing is acquired yet.
LEMMA InitInv == Init => ServerInv
<1> SUFFICES ASSUME Init PROVE ServerInv
  OBVIOUS
<1>1. pc = <<"start", 1>> /\ pc[1] = "start" /\ pc[2] = 1
  BY DEF Init
<1>2. queue = <<>> /\ Len(queue) = 0 /\ queue \in Seq(Slots)
  BY DEF Init
<1>3. Cardinality(Slots) \in Nat
  BY SlotsAssumption, FS_CardinalityType
<1>4. DataOK
  <2>1. Len(queue) <= Cardinality(Slots) /\ 0 \in 0..MaxSignals
    BY <1>2, <1>3, SignalsAssumption
  <2>2. /\ ses \in [Slots -> {"none", "active", "resolv", "connecting", "tunnel"}]
        /\ fds \in [Slots -> 0..2] /\ refs \in [Slots -> 0..2]
    BY DEF Init
  <2> QED
    BY <1>2, <2>1, <2>2 DEF Init, DataOK
<1>5. TypeOK
  BY <1>1, <1>4, Typed
<1>6. PcInv
  BY <1>1, StageNames DEF Init, PcInv, LoopPoints, Active
<1>7. JobsInv
  BY <1>2 DEF Init, JobsInv
<1>8. RefsInv
  BY <1>1 DEF Init, RefsInv
<1> QED
  BY <1>5, <1>6, <1>7, <1>8 DEF ServerInv

\* Every step of either thread, and every signal, keeps the invariant.
LEMMA NextInv == ServerInv /\ [Next]_vars => ServerInv'
<1> SUFFICES ASSUME ServerInv, [Next]_vars PROVE ServerInv'
  OBVIOUS
<1>1. CASE StartStep
  BY <1>1, StartStepInv
<1>2. CASE StartFails
  BY <1>2, StartFailsInv
<1>3. CASE SecondSignal \/ Drained \/ SelectFails
  <2>1. \E w \in LoopPoints : At(w) /\ Break
    BY <1>3 DEF SecondSignal, Drained, SelectFails, LoopPoints
  <2> QED
    BY <2>1, BreakInv
<1>4. CASE FirstTest \/ Drain \/ ToSelect \/ SelectReturns \/ EndRound
  BY <1>4, RoundInv
<1>5. CASE StopDns
  BY <1>5, StopDnsInv
<1>6. CASE Join
  BY <1>6, JoinInv
<1>7. CASE DestroySelector
  BY <1>7, DestroySelectorInv
<1>8. CASE DestroyRest
  BY <1>8, DestroyRestInv
<1>9. CASE Thread
  BY <1>9, ThreadInv
<1>10. CASE Signal
  BY <1>10, SignalInv
<1>11. CASE \E s \in Slots : \/ AcceptSocks(s) \/ Submit(s) \/ Resolved(s) \/ Connect(s)
                             \/ LoseOrigin(s) \/ OpenTunnel(s) \/ EndSession(s)
  BY <1>11, SessionInv, SubmitInv, ResolvedInv
<1>12. CASE \E a \in Admins : AcceptAdmin(a) \/ EndAdmin(a)
  BY <1>12, AdminInv
<1>13. CASE UNCHANGED vars
  <2>1. UNCHANGED <<pc, have, given, signals, draining, thread>> /\ UNCHANGED loopVars
        /\ UNCHANGED <<ses, fds, refs, admins>>
    BY <1>13 DEF vars, loopVars
  <2>2. DataOK /\ JobsInv
    BY Typed DEF ServerInv
  <2>3. DataOK'
    BY <2>1, <2>2 DEF DataOK, loopVars
  <2>4. JobsInv'
    BY <2>1, <2>2, SameJobs
  <2> QED
    BY <2>1, <2>3, <2>4, OutsideMain
<1> QED
  BY <1>1, <1>2, <1>3, <1>4, <1>5, <1>6, <1>7, <1>8, <1>9, <1>10, <1>11, <1>12, <1>13
  DEF Next, Main

\* At each point of main the process has exactly what its cleanup would be given,
\* and every name handed to the DNS thread is in one place.
THEOREM ServerInvariant == Spec => []ServerInv
  BY InitInv, NextInv, PTL DEF Spec

\* While the DNS thread has or can take a job, the selector it notifies exists, and
\* the session it writes to is one that waits for it, with its struct in use.
THEOREM ThreadSafe == Spec => []NoUseAfterFree
<1>1. ServerInv => NoUseAfterFree
  <2> SUFFICES ASSUME ServerInv PROVE NoUseAfterFree
    OBVIOUS
  <2>1. TypeOK /\ DataOK /\ PcInv /\ JobsInv /\ RefsInv
    BY Typed DEF ServerInv
  <2>2. thread \in {"run", "resolve"} => "selector" \in have
    <3> SUFFICES ASSUME thread \in {"run", "resolve"} PROVE "selector" \in have
      OBVIOUS
    <3>1. CASE pc[1] = "start"
      <4>1. pc[2] = 8
        BY <2>1, <3>1, StageNames DEF PcInv
      <4> QED
        BY <2>1, <3>1, <4>1, StageNames DEF PcInv, CleanupArgs
    <3>2. CASE pc[1] \in LoopPoints
      BY <2>1, <3>2 DEF PcInv
    <3>3. CASE pc[1] \in {"cleanup", "join"}
      BY <2>1, <3>3 DEF PcInv
    <3>4. CASE pc[1] \in {"selector", "rest", "exited"}
      BY <2>1, <3>4 DEF PcInv
    <3>5. pc[1] \in {"start"} \cup Points
      BY <2>1, Typed DEF Points, LoopPoints
    <3> QED
      BY <3>1, <3>2, <3>3, <3>4, <3>5 DEF Points
  <2>3. \A s \in Slots : ses[s] = "resolv" => refs[s] > 0
    BY <2>1 DEF RefsInv, DataOK
  <2>4. \A i \in 1..Len(queue) : queue[i] \in Slots
    BY <2>1 DEF DataOK
  <2> QED
    BY <2>1, <2>2, <2>3, <2>4 DEF NoUseAfterFree, JobsInv
<1> QED
  BY <1>1, ServerInvariant, PTL

\* Whichever way main leaves, start-up's failures included, nothing it acquired is
\* left, and the DNS thread and every management session have ended.
THEOREM CleanExit == Spec => []AllReleased
<1>1. ServerInv => AllReleased
  <2> SUFFICES ASSUME ServerInv, At("exited")
               PROVE  have = {} /\ thread \in {"none", "ended"} /\ admins = {}
    BY DEF AllReleased
  <2>1. pc[1] = "exited" /\ PcInv
    BY DEF ServerInv, At
  <2> QED
    BY <2>1 DEF PcInv
<1> QED
  BY <1>1, ServerInvariant, PTL

\* What the process leaves of its SOCKS sessions: the descriptors of those that
\* cleanup cut short, and the structs of those of them that waited for a name.
THEOREM LeftBehind == Spec => []LeftAtExit
<1>1. ServerInv => LeftAtExit
  <2> SUFFICES ASSUME ServerInv, At("exited"), NEW s \in Slots
               PROVE  /\ fds[s] = 0 <=> ses[s] = "none"
                      /\ refs[s] = 0 <=> ses[s] # "resolv"
    BY DEF LeftAtExit
  <2>1. pc[1] = "exited" /\ RefsInv
    BY DEF ServerInv, At
  <2> QED
    BY <2>1 DEF RefsInv
<1> QED
  BY <1>1, ServerInvariant, PTL

=============================================================================
