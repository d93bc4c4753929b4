-------------------------- MODULE ManagementProofs ---------------------------
(***************************************************************************)
(* Proofs about the management service, for every number of sessions and   *)
(* any requests: who may do what, when a session is locked and why it      *)
(* ends.  They hold for the service with any peers (Spec) and with its     *)
(* client (CSpec), because a peer only changes its end of a connection.    *)
(***************************************************************************)
EXTENDS AdminClient, FiniteSetTheorems, SequenceTheorems,
        WellFoundedInduction, TLAPS

\* The answers that tell of a change of the users or of the configuration.
Changes == {"+OK user set", "+OK user deleted", "+OK config set"}

(***************************************************************************)
(* The five ways in which handle_line leaves a session m, as m2, with the  *)
(* stores before and after and its answer.                                 *)
(***************************************************************************)
Ordinarily(m, us, cf, m2, us2, cf2, say) ==
    /\ m2 = m /\ say \in Ordinary
    /\ say \in Privileged => m.authenticated
    /\ us2 # us \/ cf2 # cf => say \in Changes

Enters(m, m2, say) ==
    m2 = [m EXCEPT !.authenticated = TRUE, !.failures = 0] /\ say = Accepted

Misses(m, m2, say) ==
    /\ m.failures + 1 < MaxAuthFailures /\ say = Invalid
    /\ m2 = [m EXCEPT !.failures = m.failures + 1]

Locks(m, m2, say) ==
    /\ m.failures + 1 >= MaxAuthFailures /\ say = LockedOut
    /\ m2 = [m EXCEPT !.failures = m.failures + 1, !.locked = TRUE, !.closing = TRUE]

Leaves(m, m2, say) ==
    m2 = [m EXCEPT !.closing = TRUE] /\ say = "+OK bye"

Handles(m, us, cf, m2, us2, cf2, say) ==
    \/ Ordinarily(m, us, cf, m2, us2, cf2, say)
    \/ us2 = us /\ cf2 = cf /\ (Enters(m, m2, say) \/ Misses(m, m2, say)
                                  \/ Locks(m, m2, say) \/ Leaves(m, m2, say))

-----------------------------------------------------------------------------
(***************************************************************************)
(* handle_auth, for a session that is not locked.                          *)
(***************************************************************************)
LEMMA AuthOutcome ==
    ASSUME NEW m, NEW us, NEW cf, NEW w, IsSession(m), ~m.locked, ~m.closing
    PROVE  \E m2, say : /\ HandleAuth(m, us, cf, w) = Outcome(m2, us, cf, say)
                        /\ Handles(m, us, cf, m2, us, cf, say)
<1> DEFINE n == m.failures + 1
           bad == [m EXCEPT !.failures = n]
           lock == n >= MaxAuthFailures
           other == [m EXCEPT !.failures = n, !.locked = @ \/ lock, !.closing = @ \/ lock]
<1>1. CASE Len(w) # 2
  <2>1. HandleAuth(m, us, cf, w) = Outcome(m, us, cf, "-ERR usage")
    BY <1>1 DEF HandleAuth
  <2>2. Handles(m, us, cf, m, us, cf, "-ERR usage")
    BY DEF Handles, Ordinarily, Ordinary, Privileged
  <2> QED BY <2>1, <2>2
<1>2. CASE Len(w) = 2 /\ Secret = ""
  <2>1. HandleAuth(m, us, cf, w) = Outcome(m, us, cf, "-ERR auth required")
    BY <1>2 DEF HandleAuth
  <2>2. Handles(m, us, cf, m, us, cf, "-ERR auth required")
    BY DEF Handles, Ordinarily, Ordinary, Privileged
  <2> QED BY <2>1, <2>2
<1>3. CASE Len(w) = 2 /\ Secret # "" /\ w[2] = Secret
  <2> DEFINE in == [m EXCEPT !.authenticated = TRUE, !.failures = 0]
  <2>1. HandleAuth(m, us, cf, w) = Outcome(in, us, cf, "+OK authenticated")
    BY <1>3 DEF HandleAuth
  <2>2. Handles(m, us, cf, in, us, cf, "+OK authenticated")
    BY DEF Handles, Enters, Accepted
  <2> QED BY <2>1, <2>2
<1>4. CASE Len(w) = 2 /\ Secret # "" /\ w[2] # Secret
  <2>1. HandleAuth(m, us, cf, w)
          = Outcome(other, us, cf, IF lock THEN "-ERR locked" ELSE "-ERR invalid credentials")
    BY <1>4 DEF HandleAuth
  <2>2. CASE lock
    <3>1. other = [m EXCEPT !.failures = n, !.locked = TRUE, !.closing = TRUE]
      BY <2>2 DEF IsSession
    <3>2. Handles(m, us, cf, other, us, cf, "-ERR locked")
      BY <2>2, <3>1 DEF Handles, Locks, LockedOut
    <3> QED BY <2>1, <2>2, <3>2
  <2>3. CASE ~lock
    <3>1. other = bad
      <4>1. m.locked = FALSE /\ m.closing = FALSE
        BY DEF IsSession
      <4>2. (m.locked \/ lock) = FALSE /\ (m.closing \/ lock) = FALSE
        BY <4>1, <2>3
      <4>3. other = [m EXCEPT !.failures = n, !.locked = FALSE, !.closing = FALSE]
        BY <4>2, Zenon
      <4>4. [m EXCEPT !.failures = n, !.locked = FALSE, !.closing = FALSE] = bad
        BY <4>1 DEF IsSession
      <4> QED BY <4>3, <4>4
    <3>2. n < MaxAuthFailures
      <4>1. m.failures \in Nat
        BY DEF IsSession
      <4> QED BY <4>1, <2>3 DEF MaxAuthFailures
    <3>3. Handles(m, us, cf, other, us, cf, Invalid)
      BY <3>1, <3>2 DEF Handles, Misses
    <3> QED BY <2>1, <2>3, <3>3 DEF Invalid
  <2> QED BY <2>2, <2>3
<1> QED BY <1>1, <1>2, <1>3, <1>4

(***************************************************************************)
(* handle_user and handle_config, for a session that gave the secret: the  *)
(* session is as before, and a store that changed is told of.              *)
(***************************************************************************)
LEMMA UserOutcome ==
    ASSUME NEW m, NEW us, NEW cf, NEW w, m.authenticated
    PROVE  \E us2, say : /\ HandleUser(m, us, cf, w) = Outcome(m, us2, cf, say)
                         /\ Handles(m, us, cf, m, us2, cf, say)
<1> DEFINE added == UsersAdd(us, w[3], w[4])
           deleted == UsersDel(us, w[3])
<1>1. CASE Word(w, 2) = "SET" /\ Len(w) = 4
  <2> DEFINE say == IF CanAdd(us, w[3]) THEN "+OK user set" ELSE "-ERR user limit reached"
  <2>1. HandleUser(m, us, cf, w) = Outcome(m, added, cf, say)
    BY <1>1 DEF HandleUser
  <2>2. CASE CanAdd(us, w[3])
    BY <2>1, <2>2 DEF Handles, Ordinarily, Ordinary, Privileged, Changes
  <2>3. CASE ~CanAdd(us, w[3])
    <3>1. added = us
      BY <2>3 DEF UsersAdd, CanAdd
    <3> QED BY <2>1, <2>3, <3>1 DEF Handles, Ordinarily, Ordinary, Privileged
  <2> QED BY <2>2, <2>3
<1>2. CASE Word(w, 2) = "DELETE" /\ Len(w) = 3
  <2> DEFINE say == IF FindUser(us, w[3]) # 0 THEN "+OK user deleted" ELSE "-ERR user not found"
  <2>1. HandleUser(m, us, cf, w) = Outcome(m, deleted, cf, say)
    BY <1>2 DEF HandleUser
  <2>2. CASE FindUser(us, w[3]) # 0
    BY <2>1, <2>2 DEF Handles, Ordinarily, Ordinary, Privileged, Changes
  <2>3. CASE FindUser(us, w[3]) = 0
    <3>1. deleted = us
      BY <2>3 DEF UsersDel
    <3> QED BY <2>1, <2>3, <3>1 DEF Handles, Ordinarily, Ordinary, Privileged
  <2> QED BY <2>2, <2>3
<1>3. CASE /\ ~(Word(w, 2) = "SET" /\ Len(w) = 4) /\ ~(Word(w, 2) = "DELETE" /\ Len(w) = 3)
           /\ Word(w, 2) \in {"SET", "DELETE", ""}
  <2>1. HandleUser(m, us, cf, w) = Outcome(m, us, cf, "-ERR usage")
    BY <1>3 DEF HandleUser
  <2> QED BY <2>1 DEF Handles, Ordinarily, Ordinary, Privileged
<1>4. CASE Word(w, 2) \notin {"SET", "DELETE", ""}
  <2>1. HandleUser(m, us, cf, w) = Outcome(m, us, cf, "-ERR unknown USER command")
    BY <1>4 DEF HandleUser
  <2> QED BY <2>1 DEF Handles, Ordinarily, Ordinary, Privileged
<1> QED BY <1>1, <1>2, <1>3, <1>4

LEMMA ConfigOutcome ==
    ASSUME NEW m, NEW us, NEW cf, NEW w, m.authenticated
    PROVE  \E cf2, say : /\ HandleConfig(m, us, cf, w) = Outcome(m, us, cf2, say)
                         /\ Handles(m, us, cf, m, us, cf2, say)
<1>1. CASE Word(w, 2) = "GET" /\ Len(w) = 2
  <2>1. HandleConfig(m, us, cf, w) = Outcome(m, us, cf, "+OK config")
    BY <1>1 DEF HandleConfig
  <2> QED BY <2>1 DEF Handles, Ordinarily, Ordinary, Privileged
<1>2. CASE Word(w, 2) = "SET" /\ Len(w) = 4
  <2>1. CASE w[4] \notin Values
    <3>1. HandleConfig(m, us, cf, w) = Outcome(m, us, cf, "-ERR invalid value")
      BY <1>2, <2>1 DEF HandleConfig
    <3> QED BY <3>1 DEF Handles, Ordinarily, Ordinary, Privileged
  <2>2. CASE w[4] \in Values /\ w[3] \notin Keys
    <3>1. HandleConfig(m, us, cf, w) = Outcome(m, us, cf, "-ERR unknown config key")
      BY <1>2, <2>2 DEF HandleConfig
    <3> QED BY <3>1 DEF Handles, Ordinarily, Ordinary, Privileged
  <2>3. CASE w[4] \in Values /\ w[3] \in Keys
    <3>1. HandleConfig(m, us, cf, w)
            = Outcome(m, us, [cf EXCEPT ![w[3]] = w[4]], "+OK config set")
      BY <1>2, <2>3 DEF HandleConfig
    <3> QED BY <3>1 DEF Handles, Ordinarily, Ordinary, Privileged, Changes
  <2> QED BY <2>1, <2>2, <2>3
<1>3. CASE /\ ~(Word(w, 2) = "GET" /\ Len(w) = 2) /\ ~(Word(w, 2) = "SET" /\ Len(w) = 4)
           /\ Word(w, 2) \in {"GET", "SET", ""}
  <2>1. HandleConfig(m, us, cf, w) = Outcome(m, us, cf, "-ERR usage")
    BY <1>3 DEF HandleConfig
  <2> QED BY <2>1 DEF Handles, Ordinarily, Ordinary, Privileged
<1>4. CASE Word(w, 2) \notin {"GET", "SET", ""}
  <2>1. HandleConfig(m, us, cf, w) = Outcome(m, us, cf, "-ERR unknown CONFIG command")
    BY <1>4 DEF HandleConfig
  <2> QED BY <2>1 DEF Handles, Ordinarily, Ordinary, Privileged
<1> QED BY <1>1, <1>2, <1>3, <1>4

(***************************************************************************)
(* handle_line: only a session that gave the secret gets further than      *)
(* require_auth.                                                           *)
(***************************************************************************)
LEMMA LineOutcome ==
    ASSUME NEW m, NEW us, NEW cf, NEW w, IsSession(m), ~m.locked, ~m.closing
    PROVE  \E m2, us2, cf2, say : /\ HandleLine(m, us, cf, w) = Outcome(m2, us2, cf2, say)
                                  /\ Handles(m, us, cf, m2, us2, cf2, say)
<1> DEFINE cmd == Word(w, 1)
           line == HandleLine(m, us, cf, w)
<1>1. CASE cmd = ""
  <2>1. line = Outcome(m, us, cf, "-ERR empty command")
    BY <1>1 DEF HandleLine
  <2>2. Handles(m, us, cf, m, us, cf, "-ERR empty command")
    BY DEF Handles, Ordinarily, Ordinary, Privileged
  <2> QED BY <2>1, <2>2
<1>2. CASE cmd = "AUTH"
  <2>1. line = HandleAuth(m, us, cf, w)
    BY <1>2 DEF HandleLine
  <2> QED BY <2>1, AuthOutcome
<1>3. CASE cmd = "QUIT"
  <2>1. CASE Len(w) > 1
    <3>1. line = Outcome(m, us, cf, "-ERR usage")
      BY <1>3, <2>1 DEF HandleLine
    <3>2. Handles(m, us, cf, m, us, cf, "-ERR usage")
      BY DEF Handles, Ordinarily, Ordinary, Privileged
    <3> QED BY <3>1, <3>2
  <2>2. CASE ~(Len(w) > 1)
    <3>1. line = Outcome([m EXCEPT !.closing = TRUE], us, cf, "+OK bye")
      BY <1>3, <2>2 DEF HandleLine
    <3>2. Handles(m, us, cf, [m EXCEPT !.closing = TRUE], us, cf, "+OK bye")
      BY DEF Handles, Leaves
    <3> QED BY <3>1, <3>2
  <2> QED BY <2>1, <2>2
<1>4. CASE cmd \notin {"", "AUTH", "QUIT"} /\ ~m.authenticated
  <2>1. RequireAuth(m) = "-ERR auth required"
    BY <1>4 DEF RequireAuth
  <2>2. line = Outcome(m, us, cf, "-ERR auth required")
    BY <1>4, <2>1 DEF HandleLine
  <2>3. Handles(m, us, cf, m, us, cf, "-ERR auth required")
    BY DEF Handles, Ordinarily, Ordinary, Privileged
  <2> QED BY <2>2, <2>3
<1>5. CASE cmd \notin {"", "AUTH", "QUIT"} /\ m.authenticated
  <2>1. RequireAuth(m) = ""
    BY <1>5 DEF RequireAuth
  <2>2. line = CASE cmd = "STATS" -> HandleStats(m, us, cf)
                 [] cmd = "USERS" -> HandleUsers(m, us, cf)
                 [] cmd = "USER" -> HandleUser(m, us, cf, w)
                 [] cmd = "CONFIG" -> HandleConfig(m, us, cf, w)
                 [] OTHER -> Outcome(m, us, cf, "-ERR unknown command")
    BY <1>5, <2>1 DEF HandleLine
  <2>3. CASE cmd = "STATS"
    <3>1. line = Outcome(m, us, cf, "+OK stats")
      BY <2>2, <2>3 DEF HandleStats
    <3>2. Handles(m, us, cf, m, us, cf, "+OK stats")
      BY <1>5 DEF Handles, Ordinarily, Ordinary, Privileged
    <3> QED BY <3>1, <3>2
  <2>4. CASE cmd = "USERS"
    <3>1. line = Outcome(m, us, cf, "+OK users")
      BY <2>2, <2>4 DEF HandleUsers
    <3>2. Handles(m, us, cf, m, us, cf, "+OK users")
      BY <1>5 DEF Handles, Ordinarily, Ordinary, Privileged
    <3> QED BY <3>1, <3>2
  <2>5. CASE cmd = "USER"
    <3>1. line = HandleUser(m, us, cf, w)
      BY <2>2, <2>5
    <3> QED BY <1>5, <3>1, UserOutcome
  <2>6. CASE cmd = "CONFIG"
    <3>1. line = HandleConfig(m, us, cf, w)
      BY <2>2, <2>6
    <3> QED BY <1>5, <3>1, ConfigOutcome
  <2>7. CASE cmd \notin {"STATS", "USERS", "USER", "CONFIG"}
    <3>1. line = Outcome(m, us, cf, "-ERR unknown command")
      BY <2>2, <2>7
    <3>2. Handles(m, us, cf, m, us, cf, "-ERR unknown command")
      BY DEF Handles, Ordinarily, Ordinary, Privileged
    <3> QED BY <3>1, <3>2
  <2> QED BY <2>3, <2>4, <2>5, <2>6, <2>7
<1> QED BY <1>1, <1>2, <1>3, <1>4, <1>5

-----------------------------------------------------------------------------
\* One more answer.

LEMMA OneMore ==
    ASSUME NEW a \in Seq(Answers), NEW say \in Answers
    PROVE  /\ Append(a, say) \in Seq(Answers) /\ Len(a) \in Nat
           /\ Len(Append(a, say)) = Len(a) + 1
           /\ \A i \in 1..Len(a) : Append(a, say)[i] = a[i]
           /\ Append(a, say)[Len(a) + 1] = say
OBVIOUS

\* What an answer does to the wrong secrets in a row.
LEMMA RowOrdinary ==
    ASSUME NEW a \in Seq(Answers), NEW say \in Answers, say \notin Tried
    PROVE  InARow(Append(a, say)) = InARow(a)
<1> DEFINE b == Append(a, say)
           over == {LockedOut, Accepted}
<1>1. /\ Len(a) \in Nat /\ Len(b) = Len(a) + 1
      /\ \A i \in 1..Len(a) : b[i] = a[i]
      /\ b[Len(a) + 1] = say
  BY OneMore
<1>2. say # Invalid /\ say \notin over
  BY DEF Tried
<1> HIDE DEF b, over
<1>3. ASSUME NEW i \in 1..Len(a)
      PROVE  (\A j \in i..Len(b) : b[j] \notin over) <=> (\A j \in i..Len(a) : a[j] \notin over)
  <2>1. ASSUME NEW j \in i..Len(b) PROVE (j \in i..Len(a) /\ b[j] = a[j]) \/ b[j] = say
    BY <1>1, <1>3
  <2>2. ASSUME NEW j \in i..Len(a) PROVE j \in i..Len(b) /\ b[j] = a[j]
    BY <1>1, <1>3
  <2> QED BY <1>2, <2>1, <2>2
<1>4. ASSUME NEW i \in 1..Len(b), i \notin 1..Len(a) PROVE b[i] = say
  BY <1>1, <1>4
<1>5. InARow(b) = {i \in 1..Len(b) : b[i] = Invalid /\ \A j \in i..Len(b) : b[j] \notin over}
  BY DEF InARow, over
<1>6. InARow(a) = {i \in 1..Len(a) : a[i] = Invalid /\ \A j \in i..Len(a) : a[j] \notin over}
  BY DEF InARow, over
<1>7. 1..Len(a) \subseteq 1..Len(b)
  BY <1>1
<1>8. InARow(b) = InARow(a)
  BY <1>1, <1>2, <1>3, <1>4, <1>5, <1>6, <1>7
<1> QED BY <1>8 DEF b

LEMMA RowWrong ==
    ASSUME NEW a \in Seq(Answers)
    PROVE  InARow(Append(a, Invalid)) = InARow(a) \cup {Len(a) + 1}
<1> DEFINE b == Append(a, Invalid)
           over == {LockedOut, Accepted}
<1>1. /\ Len(a) \in Nat /\ Len(b) = Len(a) + 1
      /\ \A i \in 1..Len(a) : b[i] = a[i]
      /\ b[Len(a) + 1] = Invalid
  <2>1. Invalid \in Answers
    BY DEF Answers, Tried
  <2> QED BY <2>1, OneMore
<1>2. Invalid \notin over
  BY DEF Invalid, LockedOut, Accepted, over
<1> HIDE DEF b, over
<1>3. ASSUME NEW i \in 1..Len(a)
      PROVE  (\A j \in i..Len(b) : b[j] \notin over) <=> (\A j \in i..Len(a) : a[j] \notin over)
  <2>1. ASSUME NEW j \in i..Len(b) PROVE (j \in i..Len(a) /\ b[j] = a[j]) \/ b[j] = Invalid
    BY <1>1, <1>3
  <2>2. ASSUME NEW j \in i..Len(a) PROVE j \in i..Len(b) /\ b[j] = a[j]
    BY <1>1, <1>3
  <2> QED BY <1>2, <2>1, <2>2
<1>4. ASSUME NEW i \in 1..Len(b), i \notin 1..Len(a)
      PROVE  i = Len(a) + 1
  BY <1>1, <1>4
<1>5. \A j \in (Len(a) + 1)..Len(b) : b[j] = Invalid
  BY <1>1
<1>6. InARow(b) = {i \in 1..Len(b) : b[i] = Invalid /\ \A j \in i..Len(b) : b[j] \notin over}
  BY DEF InARow, over
<1>7. InARow(a) = {i \in 1..Len(a) : a[i] = Invalid /\ \A j \in i..Len(a) : a[j] \notin over}
  BY DEF InARow, over
<1>8. 1..Len(a) \subseteq 1..Len(b) /\ Len(a) + 1 \in 1..Len(b)
  BY <1>1
<1>9. ASSUME NEW i PROVE i \in InARow(b) <=> i \in InARow(a) \cup {Len(a) + 1}
  <2>1. CASE i \in 1..Len(a)
    <3>1. i # Len(a) + 1
      BY <1>1, <2>1
    <3> QED BY <1>1, <1>3, <1>6, <1>7, <1>8, <2>1, <3>1
  <2>2. CASE i = Len(a) + 1
    BY <1>1, <1>2, <1>5, <1>6, <1>8, <2>2
  <2>3. CASE i \notin 1..Len(a) /\ i # Len(a) + 1
    BY <1>4, <1>6, <1>7, <2>3
  <2> QED BY <2>1, <2>2, <2>3
<1>10. InARow(b) = InARow(a) \cup {Len(a) + 1}
  BY <1>9
<1> QED BY <1>10 DEF b

LEMMA RowRight ==
    ASSUME NEW a \in Seq(Answers)
    PROVE  InARow(Append(a, Accepted)) = {}
<1> DEFINE b == Append(a, Accepted)
<1>1. Accepted \in Answers
  BY DEF Answers, Tried
<1>2. Len(b) = Len(a) + 1 /\ b[Len(a) + 1] = Accepted
  BY <1>1, OneMore
<1>3. Len(b) \in Nat
  BY <1>1, OneMore
<1> HIDE DEF b
<1>4. \A i \in 1..Len(b) : Len(b) \in i..Len(b)
  BY <1>3
<1>5. b[Len(b)] \in {LockedOut, Accepted}
  BY <1>2, Zenon
<1>6. \A i \in 1..Len(b) : \E j \in i..Len(b) : b[j] \in {LockedOut, Accepted}
  BY <1>4, <1>5
<1>7. InARow(b) = {}
  BY <1>6, Zenon DEF InARow
<1> QED BY <1>7 DEF b

Unlocked(a) == \A i \in 1..Len(a) : a[i] # LockedOut

\* The answers that may follow those of a.
MayFollow(a, say) ==
    /\ say = Invalid => \A i, j \in InARow(a) : i = j
    /\ say = LockedOut => \E j, k \in InARow(a) : j < k /\ InARow(a) = {j, k}

(***************************************************************************)
(* ThirdLocks goes on to hold when a wrong secret is not the third in a    *)
(* row and "locked" comes after exactly two.                               *)
(***************************************************************************)
LEMMA ThirdLocksMore ==
    ASSUME NEW a \in Seq(Answers), NEW say \in Answers, ThirdLocks(a),
           Unlocked(a), MayFollow(a, say)
    PROVE  ThirdLocks(Append(a, say))
<1> DEFINE b == Append(a, say)
           n == Len(a)
           WrongA == {i \in 1..Len(a) : a[i] = Invalid}
           WrongB == {i \in 1..Len(b) : b[i] = Invalid}
<1>0. \A i \in 1..n : a[i] # LockedOut
  BY DEF Unlocked
<1>1. n \in Nat /\ Len(b) = n + 1 /\ \A i \in 1..n : b[i] = a[i]
  BY OneMore
<1>2. b[n + 1] = say
  BY OneMore
<1>3. ASSUME NEW i \in WrongA, \A x \in i..n : a[x] # Accepted
      PROVE  i \in InARow(a)
  <2>1. i \in 1..n /\ a[i] = Invalid
    OBVIOUS
  <2>2. \A x \in i..n : x \in 1..n
    BY <1>1, <2>1
  <2>3. \A x \in i..n : a[x] \notin {LockedOut, Accepted}
    BY <1>0, <1>3, <2>2
  <2> QED BY <2>1, <2>3 DEF InARow
<1>4. \A i, j, k \in WrongA : i < j /\ j < k => \E x \in i..k : a[x] = Accepted
  BY DEF ThirdLocks
<1> HIDE DEF b
<1>5. ASSUME NEW i \in WrongB PROVE i \in Int /\ (i \in WrongA \/ (i = n + 1 /\ say = Invalid))
  <2>1. i \in 1..(n + 1) /\ b[i] = Invalid
    BY <1>1
  <2>2. CASE i \in 1..n
    <3>1. a[i] = Invalid
      BY <1>1, <2>1, <2>2
    <3>2. i \in WrongA
      BY <2>2, <3>1
    <3>3. i \in Int
      BY <1>1, <2>2
    <3> QED BY <3>2, <3>3
  <2>3. CASE i = n + 1
    <3>1. say = Invalid
      BY <1>2, <2>1, <2>3
    <3> QED BY <1>1, <2>3, <3>1
  <2> QED BY <1>1, <2>1, <2>2, <2>3
<1>6. ASSUME NEW i \in WrongB, NEW j \in WrongB, NEW k \in WrongB, i < j, j < k
      PROVE  \E x \in i..k : b[x] = Accepted
  <2>1. i \in Int /\ j \in Int /\ k \in Int /\ k <= n + 1 /\ n \in Nat
    BY <1>1, <1>5
  <2>2. i \in WrongA /\ j \in WrongA
    BY <1>5, <1>6, <2>1
  <2>3. CASE k \in WrongA
    <3>1. PICK x \in i..k : a[x] = Accepted
      BY <1>4, <1>6, <2>2, <2>3
    <3>2. x \in 1..n
      BY <2>1, <2>2, <2>3, <3>1
    <3> QED BY <1>1, <3>1, <3>2
  <2>4. CASE k = n + 1 /\ say = Invalid
    <3> SUFFICES ASSUME \A x \in i..k : b[x] # Accepted PROVE FALSE
      OBVIOUS
    <3>1. i \in 1..n /\ j \in 1..n
      BY <2>2
    <3>2. ASSUME NEW x \in i..n PROVE a[x] # Accepted
      <4>1. x \in i..k /\ x \in 1..n
        BY <2>1, <2>4, <3>1, <3>2
      <4> QED BY <1>1, <4>1
    <3>3. ASSUME NEW x \in j..n PROVE a[x] # Accepted
      <4>1. x \in i..n
        BY <1>6, <2>1, <3>1, <3>3
      <4> QED BY <3>2, <4>1
    <3>4. i \in InARow(a) /\ j \in InARow(a)
      BY <1>3, <2>2, <3>2, <3>3
    <3>5. i = j
      BY <2>4, <3>4 DEF MayFollow
    <3> QED BY <1>6, <2>1, <3>5
  <2> QED BY <1>5, <2>3, <2>4
<1>7. ASSUME NEW i \in 1..Len(b), b[i] = LockedOut
      PROVE  /\ i = Len(b)
             /\ \E j, k \in WrongB :
                  j < k /\ \A x \in j..(i - 1) : x \notin {j, k} => b[x] \notin Tried
  <2>1. i = n + 1
    <3>1. CASE i \in 1..n
      BY <1>0, <1>1, <1>7, <3>1
    <3> QED BY <1>1, <3>1
  <2>2. say = LockedOut
    BY <1>2, <1>7, <2>1
  <2>3. PICK j \in InARow(a), k \in InARow(a) : j < k /\ InARow(a) = {j, k}
    BY <2>2 DEF MayFollow
  <2>4. j \in 1..n /\ k \in 1..n /\ a[j] = Invalid /\ a[k] = Invalid
    BY DEF InARow
  <2>5. j \in WrongB /\ k \in WrongB
    <3>1. j \in 1..Len(b) /\ k \in 1..Len(b)
      BY <1>1, <2>4
    <3>2. b[j] = Invalid /\ b[k] = Invalid
      BY <1>1, <2>4
    <3> QED BY <3>1, <3>2
  <2>6. ASSUME NEW x \in j..(i - 1), x \notin {j, k} PROVE b[x] \notin Tried
    <3>1. x \in 1..n /\ x \in j..n
      BY <1>1, <2>1, <2>4, <2>6
    <3>2. \A y \in j..n : a[y] \notin {LockedOut, Accepted}
      BY DEF InARow
    <3>3. a[x] # Invalid
      <4> SUFFICES ASSUME a[x] = Invalid PROVE FALSE
        OBVIOUS
      <4>1. \A y \in x..n : y \in j..n
        BY <1>1, <2>4, <3>1
      <4>2. x \in InARow(a)
        BY <3>1, <3>2, <4>1 DEF InARow
      <4> QED BY <2>3, <2>6, <4>2
    <3>4. a[x] \notin Tried
      BY <3>1, <3>2, <3>3 DEF Tried
    <3> QED BY <1>1, <3>1, <3>4
  <2>7. i = Len(b)
    BY <1>1, <2>1
  <2> QED BY <2>3, <2>5, <2>6, <2>7
<1>8. ThirdLocks(b)
  BY <1>6, <1>7 DEF ThirdLocks
<1> QED BY <1>8 DEF b

-----------------------------------------------------------------------------
\* Changes of a session, field by field.

\* The session m2 has the fields of m that decide what it may do.
Alike(m, m2) ==
    /\ m2.open = m.open /\ m2.interest = m.interest /\ m2.left = m.left
    /\ m2.authenticated = m.authenticated /\ m2.locked = m.locked
    /\ m2.closing = m.closing /\ m2.failures = m.failures /\ m2.answers = m.answers

LEMMA ClosedIs == SessionInv(Closed) /\ Closed.open = FALSE /\ Closed.answers = <<>>
<1>1. Closed.answers = <<>> /\ <<>> \in Seq(Answers) /\ Closed.open = FALSE
  BY DEF Closed
<1>2. IsSession(Closed)
  <2>1. Closed \in [open : BOOLEAN, net : {Closed.net}, fin : BOOLEAN, rst : BOOLEAN,
          interest : {"none", "R", "W"}, line : {Closed.line}, inbuf : {Closed.inbuf}, left : Nat,
          authenticated : BOOLEAN, locked : BOOLEAN, closing : BOOLEAN, failures : Nat,
          asked : {Closed.asked}, sent : {Closed.sent}, served : {Closed.served},
          answers : Seq(Answers), got : {Closed.got}]
    BY DEF Closed
  <2> QED BY <2>1, Zenon DEF IsSession
<1> QED BY <1>1, <1>2 DEF SessionInv

LEMMA AlikeInv ==
    ASSUME NEW m, NEW m2, SessionInv(m), IsSession(m2), Alike(m, m2)
    PROVE  SessionInv(m2)
<1>1. m2.open => Queued(m2)
  BY DEF SessionInv, Alike, Queued
<1>2. m2.open => FailuresExact(m2)
  BY DEF SessionInv, Alike, FailuresExact
<1>3. m2.open => ThirdLocks(m2.answers)
  BY DEF SessionInv, Alike
<1>4. m2.open => \A i \in 1..Len(m2.answers) : m2.answers[i] = LockedOut => m2.closing
  BY DEF SessionInv, Alike
<1> QED BY <1>1, <1>2, <1>3, <1>4 DEF SessionInv

LEMMA QueueFields ==
    ASSUME NEW m, IsSession(m), NEW say \in Answers
    PROVE  /\ IsSession(QueueResponse(m, say))
           /\ QueueResponse(m, say).open = m.open
           /\ QueueResponse(m, say).left = OutLen /\ QueueResponse(m, say).interest = "W"
           /\ QueueResponse(m, say).authenticated = m.authenticated
           /\ QueueResponse(m, say).locked = m.locked
           /\ QueueResponse(m, say).closing = m.closing
           /\ QueueResponse(m, say).failures = m.failures
           /\ QueueResponse(m, say).answers = Append(m.answers, say)
<1>1. m.answers \in Seq(Answers)
  BY DEF IsSession
<1>2. Append(m.answers, say) \in Seq(Answers)
  BY <1>1, OneMore
<1>3. OutLen \in Nat
  BY SizesAssumption
<1>4. IsSession(QueueResponse(m, say))
  BY <1>2, <1>3 DEF IsSession, QueueResponse
<1> QED BY <1>4 DEF IsSession, QueueResponse

\* The same five ways, by the fields that the invariant looks at.
Marks(m, m2, say) ==
    \/ /\ say \in Ordinary
       /\ m2.authenticated = m.authenticated /\ m2.locked = m.locked
       /\ m2.closing = m.closing /\ m2.failures = m.failures
    \/ /\ say = Accepted
       /\ m2.locked = m.locked /\ m2.closing = m.closing /\ m2.failures = 0
    \/ /\ say = Invalid /\ m.failures + 1 < MaxAuthFailures
       /\ m2.authenticated = m.authenticated /\ m2.locked = m.locked
       /\ m2.closing = m.closing /\ m2.failures = m.failures + 1
    \/ /\ say = LockedOut /\ m.failures + 1 >= MaxAuthFailures
       /\ m2.authenticated = m.authenticated /\ m2.locked /\ m2.closing
    \/ /\ say = "+OK bye"
       /\ m2.authenticated = m.authenticated /\ m2.locked = m.locked
       /\ m2.closing /\ m2.failures = m.failures

LEMMA HandlesFields ==
    ASSUME NEW m, IsSession(m), NEW us, NEW cf, NEW m2, NEW us2, NEW cf2, NEW say,
           Handles(m, us, cf, m2, us2, cf2, say)
    PROVE  /\ IsSession(m2) /\ m2.open = m.open /\ m2.answers = m.answers
           /\ say \in Answers /\ Marks(m, m2, say)
<1>1. m.failures \in Nat /\ 0 \in Nat
  BY DEF IsSession
<1>2. m.failures + 1 \in Nat
  BY <1>1
<1>3. CASE Ordinarily(m, us, cf, m2, us2, cf2, say)
  BY <1>3 DEF Ordinarily, Marks, Answers
<1>4. CASE Enters(m, m2, say)
  <2>1. say = Accepted /\ say \in Answers
    BY <1>4 DEF Enters, Answers, Tried, Accepted
  <2>2. m2 = [m EXCEPT !.authenticated = TRUE, !.failures = 0]
    BY <1>4 DEF Enters
  <2>3. /\ IsSession(m2) /\ m2.open = m.open /\ m2.answers = m.answers
        /\ m2.locked = m.locked /\ m2.closing = m.closing /\ m2.failures = 0
    BY <1>1, <2>2 DEF IsSession
  <2> QED BY <2>1, <2>3 DEF Marks
<1>5. CASE Misses(m, m2, say)
  <2>1. say = Invalid /\ say \in Answers /\ m.failures + 1 < MaxAuthFailures
    BY <1>5 DEF Misses, Answers, Tried
  <2>2. m2 = [m EXCEPT !.failures = m.failures + 1]
    BY <1>5 DEF Misses
  <2>3. /\ IsSession(m2) /\ m2.open = m.open /\ m2.answers = m.answers
        /\ m2.authenticated = m.authenticated /\ m2.locked = m.locked
        /\ m2.closing = m.closing /\ m2.failures = m.failures + 1
    BY <1>2, <2>2 DEF IsSession
  <2> QED BY <2>1, <2>3 DEF Marks
<1>6. CASE Locks(m, m2, say)
  <2>1. say = LockedOut /\ say \in Answers /\ m.failures + 1 >= MaxAuthFailures
    BY <1>6 DEF Locks, Answers, Tried
  <2>2. m2 = [m EXCEPT !.failures = m.failures + 1, !.locked = TRUE, !.closing = TRUE]
    BY <1>6 DEF Locks
  <2>3. /\ IsSession(m2) /\ m2.open = m.open /\ m2.answers = m.answers
        /\ m2.authenticated = m.authenticated /\ m2.locked /\ m2.closing
    BY <1>2, <2>2 DEF IsSession
  <2> QED BY <2>1, <2>3 DEF Marks
<1>7. CASE Leaves(m, m2, say)
  <2>1. say = "+OK bye" /\ say \in Answers
    BY <1>7 DEF Leaves, Answers
  <2>2. m2 = [m EXCEPT !.closing = TRUE]
    BY <1>7 DEF Leaves
  <2>3. /\ IsSession(m2) /\ m2.open = m.open /\ m2.answers = m.answers
        /\ m2.authenticated = m.authenticated /\ m2.locked = m.locked
        /\ m2.closing /\ m2.failures = m.failures
    BY <2>2 DEF IsSession
  <2> QED BY <2>1, <2>3 DEF Marks
<1> QED BY <1>3, <1>4, <1>5, <1>6, <1>7 DEF Handles

LEMMA Distinct ==
    /\ Invalid # LockedOut /\ Invalid # Accepted /\ Accepted # LockedOut
    /\ "+OK bye" \notin Tried /\ \A say \in Ordinary : say \notin Tried
BY DEF Invalid, LockedOut, Accepted, Tried, Ordinary, Privileged

(***************************************************************************)
(* handle_line with queue_response, on a session with nothing queued,      *)
(* keeps the invariant.                                                    *)
(***************************************************************************)
LEMMA Respond ==
    ASSUME NEW m, SessionInv(m), m.open, m.left = 0,
           NEW us, NEW cf, NEW m2, NEW us2, NEW cf2, NEW say,
           Handles(m, us, cf, m2, us2, cf2, say)
    PROVE  /\ SessionInv(QueueResponse(m2, say)) /\ QueueResponse(m2, say).open
           /\ QueueResponse(m2, say).answers = Append(m.answers, say)
           /\ say \in Answers
<1> DEFINE v == QueueResponse(m2, say)
           a == m.answers
           b == Append(a, say)
<1>1. IsSession(m) /\ Queued(m) /\ FailuresExact(m) /\ ThirdLocks(a)
  BY DEF SessionInv
<1>2. a \in Seq(Answers) /\ m.failures \in Nat
  BY <1>1 DEF IsSession
<1>3. ~m.closing /\ ~m.locked
  <2>1. ~(m.left > 0)
    OBVIOUS
  <2> QED BY <1>1, <2>1 DEF Queued
<1>4. Unlocked(a)
  BY <1>3 DEF SessionInv, Unlocked
<1>5. /\ IsSession(m2) /\ m2.open = m.open /\ m2.answers = a
      /\ say \in Answers /\ Marks(m, m2, say)
  BY <1>1, HandlesFields
<1>6. /\ IsSession(v) /\ v.open = m.open /\ v.left = OutLen /\ v.interest = "W"
      /\ v.authenticated = m2.authenticated /\ v.locked = m2.locked
      /\ v.closing = m2.closing /\ v.failures = m2.failures /\ v.answers = b
  BY <1>5, QueueFields
<1>7. /\ b \in Seq(Answers) /\ Len(a) \in Nat /\ Len(b) = Len(a) + 1
      /\ \A i \in 1..Len(a) : b[i] = a[i]
  BY <1>2, <1>5, OneMore
<1>8. b[Len(a) + 1] = say
  BY <1>2, <1>5, OneMore
<1> HIDE DEF v, b
<1>9. Len(b) \in Nat /\ Len(b) > 0 /\ Len(b) \in 1..Len(b)
  BY <1>7
<1>10. b[Len(b)] = say
  BY <1>7, <1>8, Zenon
\* The count of failures and what is in a row.
<1>11. MayFollow(a, say) /\ FailuresExact(v)
  <2>1. CASE say \in Ordinary \/ say = "+OK bye"
    <3>1. say \notin Tried /\ v.failures = m.failures /\ v.locked = m.locked
      BY <1>5, <1>6, <2>1, Distinct DEF Marks, Tried
    <3>2. InARow(b) = InARow(a)
      BY <1>2, <1>5, <3>1, RowOrdinary DEF b
    <3>3. say # Invalid /\ say # LockedOut
      BY <3>1 DEF Tried
    <3> QED BY <1>1, <1>6, <3>1, <3>2, <3>3 DEF FailuresExact, MayFollow
  <2>2. CASE say = Accepted
    <3>1. v.failures = 0
      BY <1>5, <1>6, <2>2, Distinct DEF Marks, Tried
    <3>2. InARow(b) = {}
      BY <1>2, <2>2, RowRight DEF b
    <3>3. say # Invalid /\ say # LockedOut
      BY <2>2, Distinct
    <3> QED BY <1>6, <3>1, <3>2, <3>3 DEF FailuresExact, MayFollow
  <2>3. CASE say = Invalid
    <3>1. v.failures = m.failures + 1 /\ m.failures + 1 < MaxAuthFailures
      BY <1>5, <1>6, <2>3, Distinct DEF Marks, Tried
    <3>2. InARow(b) = InARow(a) \cup {Len(a) + 1}
      BY <1>2, <2>3, RowWrong DEF b
    <3>3. say # LockedOut
      BY <2>3, Distinct
    <3>4. CASE m.failures = 0 /\ InARow(a) = {}
      <4>1. v.failures = 1 /\ InARow(b) = {Len(a) + 1}
        BY <3>1, <3>2, <3>4
      <4>2. FailuresExact(v)
        BY <1>6, <4>1 DEF FailuresExact
      <4> QED BY <3>3, <3>4, <4>2 DEF MayFollow
    <3>5. CASE m.failures = 1 /\ \E i \in InARow(a) : InARow(a) = {i}
      <4>1. PICK i \in InARow(a) : InARow(a) = {i}
        BY <3>5
      <4>2. i \in 1..Len(a)
        BY DEF InARow
      <4>3. i < Len(a) + 1 /\ v.failures = 2
        BY <1>7, <3>1, <3>5, <4>2
      <4>4. InARow(b) = {i, Len(a) + 1}
        BY <3>2, <4>1
      <4>5. FailuresExact(v)
        BY <1>6, <4>3, <4>4 DEF FailuresExact
      <4> QED BY <3>3, <4>1, <4>5 DEF MayFollow
    <3>6. m.failures # 2
      BY <1>2, <3>1 DEF MaxAuthFailures
    <3> QED BY <1>1, <1>3, <3>4, <3>5, <3>6 DEF FailuresExact
  <2>4. CASE say = LockedOut
    <3>1. v.locked /\ m.failures + 1 >= MaxAuthFailures
      BY <1>5, <1>6, <2>4, Distinct DEF Marks, Tried
    <3>2. m.failures # 0 /\ m.failures # 1
      BY <1>2, <3>1 DEF MaxAuthFailures
    <3>3. \E i, j \in InARow(a) : i < j /\ InARow(a) = {i, j}
      BY <1>1, <1>3, <3>2 DEF FailuresExact
    <3>4. say # Invalid
      BY <2>4, Distinct
    <3> QED BY <3>1, <3>3, <3>4 DEF FailuresExact, MayFollow
  <2> QED BY <1>5, <2>1, <2>2, <2>3, <2>4 DEF Answers, Tried
<1>12. ThirdLocks(b)
  BY <1>1, <1>2, <1>4, <1>5, <1>11, ThirdLocksMore DEF b
<1>13. \A i \in 1..Len(b) : b[i] = LockedOut => v.closing
  <2>1. ASSUME NEW i \in 1..Len(b), b[i] = LockedOut PROVE v.closing
    <3>1. i \notin 1..Len(a)
      BY <1>4, <1>7, <2>1 DEF Unlocked
    <3>2. i = Len(a) + 1
      BY <1>7, <3>1
    <3>3. say = LockedOut
      BY <1>8, <2>1, <3>2
    <3> QED BY <1>5, <1>6, <3>3, Distinct DEF Marks, Tried
  <2> QED BY <2>1
<1>14. Queued(v)
  <2>1. v.left > 0
    BY <1>6, SizesAssumption
  <2>2. v.closing => say \in {"+OK bye", LockedOut}
    BY <1>3, <1>5, <1>6 DEF Marks
  <2>3. v.locked => v.closing
    BY <1>3, <1>5, <1>6 DEF Marks
  <2>4. v.authenticated => \E i \in 1..Len(b) : b[i] = Accepted
    <3>1. CASE say = Accepted
      BY <1>9, <1>10, <3>1
    <3>2. CASE say # Accepted /\ v.authenticated
      <4>1. m.authenticated
        BY <1>5, <1>6, <3>2 DEF Marks
      <4>2. PICK i \in 1..Len(a) : a[i] = Accepted
        BY <1>1, <4>1 DEF Queued
      <4>3. i \in 1..Len(b) /\ b[i] = Accepted
        BY <1>7, <4>2
      <4> QED BY <4>3
    <3> QED BY <3>1, <3>2
  <2>5. b # <<>>
    BY <1>9
  <2> QED BY <1>6, <1>10, <2>1, <2>2, <2>3, <2>4, <2>5 DEF Queued
<1>15. SessionInv(v)
  BY <1>6, <1>11, <1>12, <1>13, <1>14 DEF SessionInv
<1> QED BY <1>5, <1>6, <1>15 DEF v, b

-----------------------------------------------------------------------------
\* The input.

\* What mng_process_input does for session m: nothing yet, or one answer.
Served(m, us, cf, out) ==
    /\ SessionInv(out.m) /\ out.m.open
    /\ \/ out.m.answers = m.answers /\ out.users = us /\ out.config = cf
       \/ \E say \in Answers :
            /\ out.m.answers = Append(m.answers, say)
            /\ say \in Privileged => m.authenticated
            /\ out.users # us \/ out.config # cf => say \in Changes

LEMMA ProcessInputServes ==
    ASSUME NEW m, SessionInv(m), m.open, m.left = 0, NEW us, NEW cf
    PROVE  Served(m, us, cf, ProcessInput(m, us, cf))
<1> DEFINE stop  == Stop(m)
           words == m.line \o NoCR(SubSeq(m.inbuf, 1, stop - 1))
           rest  == Taken(m, stop)
           lined == [rest EXCEPT !.served = @ \o Append(words, LF)]
           out   == HandleLine(lined, us, cf, words)
           more  == [m EXCEPT !.line = @ \o NoCR(m.inbuf), !.inbuf = <<>>]
           done  == ProcessInput(m, us, cf)
<1>1. IsSession(m)
  BY DEF SessionInv
<1>2. IsSession(more) /\ Alike(m, more)
  BY <1>1 DEF IsSession, Alike
<1>3. IsSession(rest) /\ Alike(m, rest)
  <2> HIDE DEF stop
  <2> QED BY <1>1 DEF IsSession, Alike, Taken
<1>4. IsSession(lined) /\ Alike(m, lined)
  <2> HIDE DEF rest, words
  <2> QED BY <1>3 DEF IsSession, Alike
<1>5. SessionInv(more) /\ SessionInv(rest) /\ SessionInv(lined)
  BY <1>2, <1>3, <1>4, AlikeInv
<1>0. done = CASE stop = 0 -> Outcome(more, us, cf, "")
               [] stop # 0 /\ m.inbuf[stop] = LF ->
                    [out EXCEPT !.m = QueueResponse(out.m, out.say)]
               [] OTHER -> Outcome(QueueResponse(rest, "-ERR line too long"), us, cf, "")
  BY Zenon DEF ProcessInput
<1> HIDE DEF stop, rest, lined, words, more, out, done
<1>6. CASE stop = 0
  <2>1. done = Outcome(more, us, cf, "")
    BY <1>0, <1>6, Zenon
  <2>2. done.m = more /\ done.users = us /\ done.config = cf
    BY <2>1 DEF Outcome
  <2>3. more.open /\ more.answers = m.answers
    BY <1>2 DEF Alike
  <2>4. Served(m, us, cf, done)
    BY <1>5, <2>2, <2>3 DEF Served
  <2> QED BY <2>4 DEF done
<1>7. CASE stop # 0 /\ m.inbuf[stop] = LF
  <2>1. done = [out EXCEPT !.m = QueueResponse(out.m, out.say)]
    BY <1>0, <1>7, Zenon
  <2>2. lined.open /\ lined.left = 0 /\ lined.answers = m.answers
          /\ lined.authenticated = m.authenticated
    BY <1>4 DEF Alike
  <2>3. ~lined.locked /\ ~lined.closing
    <3>1. Queued(lined)
      BY <1>5, <2>2 DEF SessionInv
    <3>2. ~(lined.left > 0)
      BY <2>2
    <3> QED BY <3>1, <3>2 DEF Queued
  <2>4. PICK m2, us2, cf2, say : /\ out = Outcome(m2, us2, cf2, say)
                                 /\ Handles(lined, us, cf, m2, us2, cf2, say)
    BY <1>4, <2>3, LineOutcome DEF out
  <2>5. done.m = QueueResponse(m2, say) /\ done.users = us2 /\ done.config = cf2
    BY <2>1, <2>4 DEF Outcome
  <2>6. /\ SessionInv(QueueResponse(m2, say)) /\ QueueResponse(m2, say).open
        /\ QueueResponse(m2, say).answers = Append(lined.answers, say) /\ say \in Answers
    BY <1>5, <2>2, <2>4, Respond
  <2>7. /\ say \in Privileged => m.authenticated
        /\ us2 # us \/ cf2 # cf => say \in Changes
    <3>1. CASE Ordinarily(lined, us, cf, m2, us2, cf2, say)
      BY <2>2, <3>1 DEF Ordinarily
    <3>2. CASE us2 = us /\ cf2 = cf /\ say \notin Privileged
      BY <3>2
    <3>3. CASE us2 = us /\ cf2 = cf /\ say \in Tried \cup {"+OK bye"}
      BY <3>2, <3>3 DEF Tried, Invalid, LockedOut, Accepted, Privileged
    <3> QED BY <2>4, <3>1, <3>3 DEF Handles, Enters, Misses, Locks, Leaves, Tried
  <2>8. Served(m, us, cf, done)
    BY <2>2, <2>5, <2>6, <2>7 DEF Served
  <2> QED BY <2>8 DEF done
<1>8. CASE stop # 0 /\ m.inbuf[stop] # LF
  <2> DEFINE say == "-ERR line too long"
  <2>1. done = Outcome(QueueResponse(rest, say), us, cf, "")
    BY <1>0, <1>8, Zenon
  <2>2. done.m = QueueResponse(rest, say) /\ done.users = us /\ done.config = cf
    BY <2>1 DEF Outcome
  <2>3. rest.open /\ rest.left = 0 /\ rest.answers = m.answers
    BY <1>3 DEF Alike
  <2>4. say \in Ordinary /\ say \notin Privileged
    BY DEF Ordinary, Privileged
  <2>5. Handles(rest, us, cf, rest, us, cf, say)
    BY <2>4 DEF Handles, Ordinarily
  <2> HIDE DEF say
  <2>6. /\ SessionInv(QueueResponse(rest, say)) /\ QueueResponse(rest, say).open
        /\ QueueResponse(rest, say).answers = Append(rest.answers, say) /\ say \in Answers
    BY <1>5, <2>3, <2>5, Respond
  <2>7. Served(m, us, cf, done)
    BY <2>2, <2>3, <2>4, <2>6 DEF Served
  <2> QED BY <2>7 DEF done
<1> QED BY <1>6, <1>7, <1>8

-----------------------------------------------------------------------------
(***************************************************************************)
(* The steps of the service and of its peers, as the proofs tell them      *)
(* apart: a session begins; a step that answers nothing; mng_process_input *)
(* runs; a session ends for a reason of its own; the process is killed.    *)
(***************************************************************************)
Quiet(s) ==
    /\ ses[s].open
    /\ \E m : /\ ses' = [ses EXCEPT ![s] = m]
              /\ SessionInv(m) /\ m.open /\ m.answers = ses[s].answers
    /\ UNCHANGED <<users, config, active, metric, alive>>

Answering(s) ==
    ses[s].open /\ \E out : Served(ses[s], users, config, out) /\ Becomes(s, out)

Ending(s) == alive /\ ses[s].open /\ OwnReason(s) /\ Close(s)

ServiceStep ==
    \E s \in Sessions :
        PassiveAccept(s) \/ Quiet(s) \/ Answering(s) \/ Ending(s) \/ WriteKilled(s)

LEMMA ServedAlike ==
    ASSUME NEW m, NEW m2, NEW us, NEW cf, NEW out, Served(m2, us, cf, out),
           m2.answers = m.answers, m2.authenticated = m.authenticated
    PROVE  Served(m, us, cf, out)
BY DEF Served

LEMMA QuietAlike ==
    ASSUME NEW s \in Sessions, ServiceInv, ses[s].open, NEW m, IsSession(m), Alike(ses[s], m),
           ses' = [ses EXCEPT ![s] = m],
           UNCHANGED <<users, config, active, metric, alive>>
    PROVE  Quiet(s)
<1>1. SessionInv(ses[s])
  BY DEF ServiceInv
<1>2. SessionInv(m)
  BY <1>1, AlikeInv
<1>3. m.open /\ m.answers = ses[s].answers
  BY DEF Alike
<1> QED BY <1>2, <1>3 DEF Quiet

\* mng_read.
LEMMA ReadIs ==
    ASSUME NEW s \in Sessions, ServiceInv, Read(s)
    PROVE  Answering(s) \/ Ending(s)
<1> DEFINE m == ses[s]
<1>1. SessionInv(m) /\ IsSession(m) /\ alive /\ m.open /\ m.interest = "R"
  BY DEF ServiceInv, SessionInv, Read
<1>2. m.left = 0
  <2>1. m.left \in Nat
    BY <1>1 DEF IsSession
  <2>2. ~(m.left > 0)
    BY <1>1 DEF SessionInv, Queued
  <2> QED BY <2>1, <2>2
<1>3. CASE Ended(m) /\ Close(s)
  <2>1. m.net # <<>> \/ m.fin \/ m.rst
    BY DEF Read
  <2>2. OwnReason(s)
    BY <1>2, <1>3, <2>1 DEF Ended, OwnReason
  <2> QED BY <1>1, <1>3, <2>2 DEF Ending
<1>4. CASE \E n \in Recv(m) : Becomes(s, ProcessInput(Received(m, n), users, config))
  <2>1. PICK n \in Recv(m) : Becomes(s, ProcessInput(Received(m, n), users, config))
    BY <1>4
  <2> DEFINE m2 == Received(m, n)
  <2>2. IsSession(m2) /\ Alike(m, m2)
    BY <1>1 DEF Received, IsSession, Alike
  <2>3. SessionInv(m2)
    BY <1>1, <2>2, AlikeInv
  <2>4. m2.open /\ m2.left = 0 /\ m2.answers = m.answers /\ m2.authenticated = m.authenticated
    BY <1>1, <1>2, <2>2 DEF Alike
  <2> HIDE DEF m2
  <2>5. Served(m2, users, config, ProcessInput(m2, users, config))
    BY <2>3, <2>4, ProcessInputServes
  <2>6. Served(m, users, config, ProcessInput(m2, users, config))
    BY <2>4, <2>5, ServedAlike
  <2> QED BY <1>1, <2>1, <2>6 DEF Answering, m2
<1> QED BY <1>3, <1>4 DEF Read

\* mng_write, in its four outcomes.
LEMMA WriteAllIs ==
    ASSUME NEW s \in Sessions, ServiceInv, WriteAll(s)
    PROVE  Answering(s) \/ Ending(s)
<1> DEFINE m == ses[s]
           m2 == Sent(m)
<1>1. SessionInv(m) /\ IsSession(m) /\ alive /\ m.open /\ m.interest = "W"
  BY DEF ServiceInv, SessionInv, WriteAll
<1>2. Queued(m) /\ FailuresExact(m) /\ ThirdLocks(m.answers)
  BY <1>1 DEF SessionInv
<1>3. m.left > 0
  BY <1>1, <1>2 DEF Queued
<1>4. CASE m.closing
  <2>1. OwnReason(s)
    BY <1>2, <1>3, <1>4 DEF Queued, OwnReason
  <2>2. Close(s)
    BY <1>4 DEF WriteAll
  <2> QED BY <1>1, <2>1, <2>2 DEF Ending
<1>5. CASE ~m.closing
  <2>1. Becomes(s, ProcessInput(m2, users, config))
    BY <1>5 DEF WriteAll
  <2>2. /\ IsSession(m2) /\ m2.open = m.open /\ m2.left = 0 /\ m2.interest = "R"
        /\ m2.authenticated = m.authenticated /\ m2.locked = m.locked
        /\ m2.closing = m.closing /\ m2.failures = m.failures /\ m2.answers = m.answers
    BY <1>1 DEF Sent, IsSession
  <2> HIDE DEF m2
  <2>3. Queued(m2)
    <3>1. ~(m2.left > 0)
      BY <2>2
    <3> QED BY <1>2, <1>5, <2>2, <3>1 DEF Queued
  <2>4. FailuresExact(m2)
    BY <1>2, <2>2 DEF FailuresExact
  <2>5. SessionInv(m2)
    BY <1>1, <1>2, <2>2, <2>3, <2>4 DEF SessionInv
  <2>6. Served(m2, users, config, ProcessInput(m2, users, config))
    BY <1>1, <2>2, <2>5, ProcessInputServes
  <2>7. Served(m, users, config, ProcessInput(m2, users, config))
    BY <2>2, <2>6, ServedAlike
  <2> QED BY <1>1, <2>1, <2>7 DEF Answering
<1> QED BY <1>4, <1>5

LEMMA WritePartIs ==
    ASSUME NEW s \in Sessions, ServiceInv, WritePart(s)
    PROVE  Quiet(s)
<1> DEFINE m == ses[s]
<1>1. SessionInv(m) /\ IsSession(m) /\ m.open /\ m.interest = "W"
  BY DEF ServiceInv, SessionInv, WritePart
<1>2. PICK n \in 1..(m.left - 1) : ses' = [ses EXCEPT ![s].left = m.left - n]
  BY DEF WritePart
<1>3. m.left \in Nat
  BY <1>1 DEF IsSession
<1>4. m.left - n \in Nat /\ m.left - n > 0 /\ m.left > 0
  BY <1>3
<1> DEFINE left == m.left - n
           m2 == [m EXCEPT !.left = left]
<1> HIDE DEF left
<1>5. ses' = [ses EXCEPT ![s] = m2]
  BY <1>2 DEF left
<1>6. /\ IsSession(m2) /\ m2.open = m.open /\ m2.left = left /\ m2.interest = "W"
      /\ m2.authenticated = m.authenticated /\ m2.locked = m.locked
      /\ m2.closing = m.closing /\ m2.failures = m.failures /\ m2.answers = m.answers
  BY <1>1, <1>4 DEF IsSession, left
<1> HIDE DEF m2
<1>7. Queued(m2)
  <2>1. m2.left > 0
    BY <1>4, <1>6 DEF left
  <2>2. Queued(m)
    BY <1>1 DEF SessionInv
  <2> QED BY <1>4, <1>6, <2>1, <2>2 DEF Queued
<1>8. FailuresExact(m2)
  BY <1>1, <1>6 DEF SessionInv, FailuresExact
<1>9. SessionInv(m2)
  BY <1>1, <1>6, <1>7, <1>8 DEF SessionInv
<1> QED BY <1>1, <1>5, <1>6, <1>9 DEF Quiet, WritePart

\* The peers.
LEMMA AskedIs ==
    ASSUME NEW s \in Sessions, ServiceInv, ses[s].open, NEW req,
           ses' = [ses EXCEPT ![s] = Asked(ses[s], req)],
           UNCHANGED <<users, config, active, metric, alive>>
    PROVE  Quiet(s)
<1> DEFINE m == ses[s]
           m2 == Asked(m, req)
<1>1. IsSession(m)
  BY DEF ServiceInv, SessionInv
<1>2. IsSession(m2) /\ Alike(m, m2)
  BY <1>1 DEF Asked, IsSession, Alike
<1> QED BY <1>2, QuietAlike

LEMMA FinIs ==
    ASSUME NEW s \in Sessions, ServiceInv, ses[s].open,
           ses' = [ses EXCEPT ![s].fin = TRUE],
           UNCHANGED <<users, config, active, metric, alive>>
    PROVE  Quiet(s)
<1> DEFINE m == ses[s]
           m2 == [m EXCEPT !.fin = TRUE]
<1>1. IsSession(m)
  BY DEF ServiceInv, SessionInv
<1>2. IsSession(m2) /\ Alike(m, m2)
  BY <1>1 DEF IsSession, Alike
<1>3. ses' = [ses EXCEPT ![s] = m2]
  OBVIOUS
<1> QED BY <1>2, <1>3, QuietAlike

LEMMA ResetIs ==
    ASSUME NEW s \in Sessions, ServiceInv, ClientResets(s)
    PROVE  Quiet(s)
<1> DEFINE m == ses[s]
           m2 == [m EXCEPT !.rst = TRUE, !.net = <<>>]
<1>1. IsSession(m) /\ s \in DOMAIN ses
  BY DEF ServiceInv, SessionInv
<1>2. IsSession(m2) /\ Alike(m, m2)
  BY <1>1 DEF IsSession, Alike
<1>3. ses' = [ses EXCEPT ![s] = m2]
  BY <1>1 DEF ClientResets
<1>4. m.open /\ UNCHANGED <<users, config, active, metric, alive>>
  BY DEF ClientResets
<1> QED BY <1>2, <1>3, <1>4, QuietAlike

\* Every step of the service with any peers is one of the five.
LEMMA NextIs ==
    ASSUME ServiceInv, Next
    PROVE  ServiceStep
<1>1. PICK s \in Sessions :
        \/ PassiveAccept(s) \/ Read(s)
        \/ WriteAll(s) \/ WritePart(s) \/ WriteFails(s) \/ WriteKilled(s)
        \/ ClientEnds(s) \/ ClientResets(s)
        \/ \E req \in Requests : ClientSends(s, req)
  BY DEF Next
<1>2. CASE Read(s)
  BY <1>2, ReadIs DEF ServiceStep
<1>3. CASE WriteAll(s)
  BY <1>3, WriteAllIs DEF ServiceStep
<1>4. CASE WritePart(s)
  BY <1>4, WritePartIs DEF ServiceStep
<1>5. CASE WriteFails(s)
  BY <1>5 DEF ServiceStep, Ending, WriteFails, OwnReason
<1>6. CASE ClientEnds(s)
  <2>1. Quiet(s)
    BY <1>6, FinIs DEF ClientEnds
  <2> QED BY <2>1 DEF ServiceStep
<1>7. CASE ClientResets(s)
  BY <1>7, ResetIs DEF ServiceStep
<1>8. CASE \E req \in Requests : ClientSends(s, req)
  <2>1. PICK req \in Requests : ClientSends(s, req)
    BY <1>8
  <2>2. Quiet(s)
    BY <2>1, AskedIs DEF ClientSends
  <2> QED BY <2>2 DEF ServiceStep
<1> QED BY <1>1, <1>2, <1>3, <1>4, <1>5, <1>6, <1>7, <1>8 DEF ServiceStep

\* close in the client.
LEMMA HangsIs ==
    ASSUME NEW s \in Sessions, ServiceInv, Hangs(s)
    PROVE  ServiceStep \/ UNCHANGED vars
<1>1. CASE Connected(s)
  <2>1. ses[s].open /\ ses' = [ses EXCEPT ![s].fin = TRUE]
          /\ UNCHANGED <<users, config, active, metric, alive>>
    BY <1>1 DEF Hangs, Connected
  <2>2. Quiet(s)
    BY <2>1, FinIs
  <2> QED BY <2>2 DEF ServiceStep
<1>2. CASE ~Connected(s)
  BY <1>2 DEF Hangs, vars
<1> QED BY <1>1, <1>2

\* And so is every step of the service with its client, or it leaves the service alone.
LEMMA CNextIs ==
    ASSUME ServiceInv, CNext
    PROVE  ServiceStep \/ UNCHANGED vars
<1>1. PICK s \in Sessions :
        \/ Start(s) \/ ConnectFails(s) \/ SendAuth(s) \/ AuthTooLong(s) \/ ReadAuth(s)
        \/ SendCommand(s) \/ ReadReply(s) \/ ExchangeFails(s) \/ Interrupted(s) \/ Reset(s)
        \/ OtherConnects(s) \/ OtherActs(s)
        \/ Serves(s) \/ ServesPart(s)
  BY DEF CNext
<1>2. CASE Start(s) \/ ConnectFails(s) \/ OtherConnects(s)
  <2>1. PassiveAccept(s) \/ UNCHANGED serverVars
    BY <1>2 DEF Start, ConnectFails, OtherConnects
  <2> QED BY <2>1 DEF ServiceStep, serverVars, vars
<1>3. CASE SendAuth(s) \/ SendCommand(s)
  <2>1. PICK words, wait : Sends(s, words, wait)
    BY <1>3 DEF SendAuth, SendCommand
  <2>2. ses[s].open /\ ses' = [ses EXCEPT ![s] = Asked(ses[s], words)]
          /\ UNCHANGED <<users, config, active, metric, alive>>
    BY <2>1 DEF Sends, Connected
  <2>3. Quiet(s)
    BY <2>2, AskedIs
  <2> QED BY <2>3 DEF ServiceStep
<1>4. CASE AuthTooLong(s) \/ ReadReply(s) \/ ExchangeFails(s) \/ Interrupted(s)
  <2>1. Hangs(s)
    BY <1>4 DEF AuthTooLong, ReadReply, ExchangeFails, Interrupted
  <2> QED BY <2>1, HangsIs
<1>5. CASE ReadAuth(s)
  <2>1. Hangs(s) \/ UNCHANGED <<serverVars, log>>
    BY <1>5 DEF ReadAuth
  <2>2. CASE UNCHANGED <<serverVars, log>>
    BY <2>2 DEF serverVars, vars
  <2> QED BY <2>1, <2>2, HangsIs
<1>6. CASE Reset(s)
  BY <1>6, ResetIs DEF Reset, ServiceStep
<1>7. CASE OtherActs(s)
  <2>1. CASE ClientEnds(s)
    <3>1. Quiet(s)
      BY <2>1, FinIs DEF ClientEnds
    <3> QED BY <3>1 DEF ServiceStep
  <2>2. CASE \E req : ClientSends(s, req)
    <3>1. PICK req : ClientSends(s, req)
      BY <2>2
    <3>2. Quiet(s)
      BY <3>1, AskedIs DEF ClientSends
    <3> QED BY <3>2 DEF ServiceStep
  <2> QED BY <1>7, <2>1, <2>2 DEF OtherActs
<1>8. CASE Serves(s)
  <2>1. Read(s) \/ WriteAll(s) \/ WriteFails(s) \/ WriteKilled(s)
    BY <1>8 DEF Serves
  <2>2. CASE Read(s)
    BY <2>2, ReadIs DEF ServiceStep
  <2>3. CASE WriteAll(s)
    BY <2>3, WriteAllIs DEF ServiceStep
  <2>4. CASE WriteFails(s)
    BY <2>4 DEF ServiceStep, Ending, WriteFails, OwnReason
  <2> QED BY <2>1, <2>2, <2>3, <2>4 DEF ServiceStep
<1>9. CASE ServesPart(s)
  BY <1>9, WritePartIs DEF ServesPart, ServiceStep
<1> QED BY <1>1, <1>2, <1>3, <1>4, <1>5, <1>6, <1>7, <1>8, <1>9

-----------------------------------------------------------------------------
\* The five steps keep the invariant.

\* A step that puts x in the place of session s.
LEMMA Replaced ==
    ASSUME ServiceInv, NEW s \in Sessions, NEW x, SessionInv(x), ses' = [ses EXCEPT ![s] = x]
    PROVE  /\ ses' = [t \in Sessions |-> ses'[t]]
           /\ \A t \in Sessions : SessionInv(ses'[t])
           /\ ses'[s] = x /\ \A t \in Sessions \ {s} : ses'[t] = ses[t]
<1>1. ses = [t \in Sessions |-> ses[t]] /\ \A t \in Sessions : SessionInv(ses[t])
  BY DEF ServiceInv
<1>2. ses' = [t \in Sessions |-> IF t = s THEN x ELSE ses[t]]
  BY <1>1
<1> QED BY <1>1, <1>2

LEMMA OpenFinite == IsFiniteSet(Open) /\ Cardinality(Open) \in Nat
<1>1. Open \subseteq Sessions
  BY DEF Open
<1> QED BY <1>1, SessionsAssumption, FS_Subset, FS_CardinalityType

LEMMA SameOpen ==
    ASSUME ServiceInv, NEW s \in Sessions, ses[s].open, NEW x, SessionInv(x), x.open,
           ses' = [ses EXCEPT ![s] = x], UNCHANGED <<active, metric, alive>>
    PROVE  ServiceInv'
<1>1. /\ ses' = [t \in Sessions |-> ses'[t]]
      /\ \A t \in Sessions : SessionInv(ses'[t])
      /\ ses'[s] = x /\ \A t \in Sessions \ {s} : ses'[t] = ses[t]
  BY Replaced
<1>2. Open' = Open
  BY <1>1 DEF Open
<1>3. active' \in Nat /\ metric' \in Nat /\ CountsExact'
  BY <1>2 DEF ServiceInv, CountsExact
<1> QED BY <1>1, <1>3 DEF ServiceInv

LEMMA AcceptKeeps ==
    ASSUME ServiceInv, NEW s \in Sessions, PassiveAccept(s)
    PROVE  ServiceInv'
<1> DEFINE x == [Closed EXCEPT !.open = TRUE, !.interest = "R"]
<1>1. /\ x.open /\ x.left = 0 /\ x.interest = "R" /\ x.answers = <<>> /\ x.failures = 0
      /\ ~x.closing /\ ~x.locked /\ ~x.authenticated
  BY DEF Closed
<1>2. IsSession(x)
  <2>1. IsSession(Closed)
    BY ClosedIs DEF SessionInv
  <2> QED BY <2>1 DEF IsSession
<1>3. SessionInv(x)
  <2> HIDE DEF x
  <2>1. Len(x.answers) = 0 /\ 1..Len(x.answers) = {}
    BY <1>1
  <2>2. InARow(x.answers) = {}
    BY <2>1 DEF InARow
  <2>3. FailuresExact(x)
    BY <1>1, <2>2 DEF FailuresExact
  <2>4. ThirdLocks(x.answers)
    BY <2>1 DEF ThirdLocks
  <2>5. Queued(x)
    BY <1>1 DEF Queued
  <2> QED BY <1>2, <2>1, <2>3, <2>4, <2>5 DEF SessionInv
<1> HIDE DEF x
<1>4. ses' = [ses EXCEPT ![s] = x]
  BY DEF PassiveAccept, x
<1>5. /\ ses' = [t \in Sessions |-> ses'[t]]
      /\ \A t \in Sessions : SessionInv(ses'[t])
      /\ ses'[s] = x /\ \A t \in Sessions \ {s} : ses'[t] = ses[t]
  BY <1>3, <1>4, Replaced
<1>6. s \notin Open /\ Open' = Open \cup {s}
  BY <1>1, <1>5 DEF Open, PassiveAccept
<1>7. Cardinality(Open') = Cardinality(Open) + 1
  BY <1>6, OpenFinite, FS_AddElement
<1>8. active' \in Nat /\ metric' \in Nat /\ CountsExact'
  BY <1>7, OpenFinite DEF ServiceInv, CountsExact, PassiveAccept
<1> QED BY <1>5, <1>8 DEF ServiceInv

LEMMA EndingKeeps ==
    ASSUME ServiceInv, NEW s \in Sessions, Ending(s)
    PROVE  ServiceInv'
<1>1. ses' = [ses EXCEPT ![s] = Closed] /\ alive /\ ses[s].open
  BY DEF Ending, Close
<1>2. /\ ses' = [t \in Sessions |-> ses'[t]]
      /\ \A t \in Sessions : SessionInv(ses'[t])
      /\ ses'[s] = Closed /\ \A t \in Sessions \ {s} : ses'[t] = ses[t]
  BY <1>1, ClosedIs, Replaced
<1>3. s \in Open /\ Open' = Open \ {s}
  BY <1>1, <1>2, ClosedIs DEF Open
<1>4. Cardinality(Open') = Cardinality(Open) - 1
  BY <1>3, OpenFinite, FS_RemoveElement
<1>5. Cardinality(Open) > 0
  <2>1. Cardinality(Open) # 0
    BY <1>3, OpenFinite, FS_EmptySet
  <2> QED BY <2>1, OpenFinite
<1>6. active = Cardinality(Open) /\ metric = Cardinality(Open)
  BY <1>1 DEF ServiceInv, CountsExact
<1>7. active' = active - 1 /\ metric' = metric - 1
  BY <1>5, <1>6 DEF Ending, Close
<1>8. active' \in Nat /\ metric' \in Nat /\ CountsExact'
  BY <1>4, <1>5, <1>6, <1>7, OpenFinite DEF CountsExact
<1> QED BY <1>2, <1>8 DEF ServiceInv

LEMMA StepKeeps ==
    ASSUME ServiceInv, ServiceStep
    PROVE  ServiceInv'
<1>1. PICK s \in Sessions :
        PassiveAccept(s) \/ Quiet(s) \/ Answering(s) \/ Ending(s) \/ WriteKilled(s)
  BY DEF ServiceStep
<1>2. CASE PassiveAccept(s)
  BY <1>2, AcceptKeeps
<1>3. CASE Quiet(s)
  <2>1. PICK m : ses' = [ses EXCEPT ![s] = m] /\ SessionInv(m) /\ m.open
    BY <1>3 DEF Quiet
  <2>2. ses[s].open /\ UNCHANGED <<active, metric, alive>>
    BY <1>3 DEF Quiet
  <2> QED BY <2>1, <2>2, SameOpen
<1>4. CASE Answering(s)
  <2>1. PICK out : Served(ses[s], users, config, out) /\ Becomes(s, out)
    BY <1>4 DEF Answering
  <2>2. SessionInv(out.m) /\ out.m.open /\ ses[s].open
    BY <1>4, <2>1 DEF Served, Answering
  <2>3. ses' = [ses EXCEPT ![s] = out.m] /\ UNCHANGED <<active, metric, alive>>
    BY <2>1 DEF Becomes
  <2> QED BY <2>2, <2>3, SameOpen
<1>5. CASE Ending(s)
  BY <1>5, EndingKeeps
<1>6. CASE WriteKilled(s)
  <2>1. ses' = [x \in Sessions |-> Closed] /\ alive' = FALSE /\ UNCHANGED <<active, metric>>
    BY <1>6 DEF WriteKilled
  <2>2. ses' = [t \in Sessions |-> ses'[t]] /\ \A t \in Sessions : SessionInv(ses'[t])
    BY <2>1, ClosedIs
  <2>3. active' \in Nat /\ metric' \in Nat /\ CountsExact'
    BY <2>1 DEF ServiceInv, CountsExact
  <2> QED BY <2>2, <2>3 DEF ServiceInv
<1> QED BY <1>1, <1>2, <1>3, <1>4, <1>5, <1>6

LEMMA InitHolds ==
    ASSUME Init
    PROVE  ServiceInv
<1>1. ses = [s \in Sessions |-> Closed] /\ active = 0 /\ metric = 0
  BY DEF Init
<1>2. ses = [s \in Sessions |-> ses[s]] /\ \A s \in Sessions : SessionInv(ses[s])
  BY <1>1, ClosedIs
<1>3. Open = {}
  BY <1>1, ClosedIs DEF Open
<1>4. CountsExact
  BY <1>1, <1>3, FS_EmptySet DEF CountsExact
<1> QED BY <1>1, <1>2, <1>4 DEF ServiceInv

LEMMA StutterKeeps ==
    ASSUME ServiceInv, UNCHANGED vars
    PROVE  ServiceInv'
<1>1. ses' = ses /\ active' = active /\ metric' = metric /\ alive' = alive
  BY DEF vars
<1>2. Open' = Open
  BY <1>1 DEF Open
<1>3. CountsExact'
  BY <1>1, <1>2 DEF ServiceInv, CountsExact
<1> QED BY <1>1, <1>3 DEF ServiceInv

-----------------------------------------------------------------------------
\* What the steps may do.

LEMMA StepAuthorised ==
    ASSUME ServiceInv, ServiceStep
    PROVE  Authorised
<1>1. PICK s \in Sessions :
        PassiveAccept(s) \/ Quiet(s) \/ Answering(s) \/ Ending(s) \/ WriteKilled(s)
  BY DEF ServiceStep
<1>2. \A t \in Open : t \in Sessions /\ ses[t].answers \in Seq(Answers) /\ SessionInv(ses[t])
  BY DEF Open, ServiceInv, SessionInv, IsSession
<1>3. ASSUME NEW t \in Open, ses'[t].answers = ses[t].answers \/ ses'[t].answers = <<>>
      PROVE  ~Answered(t)
  <2>1. Len(ses[t].answers) \in Nat
    BY <1>2
  <2>2. CASE ses'[t].answers = ses[t].answers
    BY <2>1, <2>2 DEF Answered
  <2>3. CASE ses'[t].answers = <<>>
    BY <2>1, <2>3 DEF Answered
  <2> QED BY <1>3, <2>2, <2>3
<1>4. ses = [t \in Sessions |-> ses[t]]
  BY DEF ServiceInv
<1>5. CASE PassiveAccept(s)
  <2>1. \A t \in Open : ses'[t] = ses[t]
    BY <1>2, <1>4, <1>5 DEF PassiveAccept, Open
  <2>2. \A t \in Open : ~Answered(t)
    BY <1>3, <2>1
  <2>3. users' = users /\ config' = config
    BY <1>5 DEF PassiveAccept
  <2> QED BY <2>2, <2>3 DEF Authorised
<1>6. CASE Quiet(s)
  <2>1. PICK m : ses' = [ses EXCEPT ![s] = m] /\ m.answers = ses[s].answers
    BY <1>6 DEF Quiet
  <2>2. \A t \in Open : ses'[t].answers = ses[t].answers
    BY <1>2, <1>4, <2>1
  <2>3. \A t \in Open : ~Answered(t)
    BY <1>3, <2>2
  <2>4. users' = users /\ config' = config
    BY <1>6 DEF Quiet
  <2> QED BY <2>3, <2>4 DEF Authorised
<1>7. CASE Answering(s)
  <2>1. PICK out : Served(ses[s], users, config, out) /\ Becomes(s, out)
    BY <1>7 DEF Answering
  <2>2. ses' = [ses EXCEPT ![s] = out.m] /\ users' = out.users /\ config' = out.config
    BY <2>1 DEF Becomes
  <2>3. s \in Open
    BY <1>7 DEF Answering, Open
  <2>4. ses'[s] = out.m /\ \A t \in Open : t # s => ses'[t] = ses[t]
    BY <1>2, <1>4, <2>2
  <2>5. \A t \in Open : t # s => ~Answered(t)
    BY <1>3, <2>4
  <2>6. CASE out.m.answers = ses[s].answers /\ out.users = users /\ out.config = config
    <3>1. ~Answered(s)
      BY <1>3, <2>3, <2>4, <2>6
    <3> QED BY <2>2, <2>5, <2>6, <3>1 DEF Authorised
  <2>7. CASE \E say \in Answers :
               /\ out.m.answers = Append(ses[s].answers, say)
               /\ say \in Privileged => ses[s].authenticated
               /\ out.users # users \/ out.config # config => say \in Changes
    <3>1. PICK say \in Answers :
               /\ out.m.answers = Append(ses[s].answers, say)
               /\ say \in Privileged => ses[s].authenticated
               /\ out.users # users \/ out.config # config => say \in Changes
      BY <2>7
    <3>2. ses[s].answers \in Seq(Answers)
      BY <1>2, <2>3
    <3>3. Answered(s)
      BY <2>4, <3>1, <3>2, OneMore DEF Answered
    <3>4. Last(s) = say
      BY <2>4, <3>1, <3>2, OneMore DEF Last
    <3>5. say \in Privileged =>
            \E i \in 1..Len(ses[s].answers) : ses[s].answers[i] = Accepted
      <4>1. Queued(ses[s])
        BY <1>2, <2>3 DEF SessionInv, Open
      <4> QED BY <3>1, <4>1 DEF Queued
    <3>6. \A t \in Open : Answered(t) /\ Last(t) \in Privileged =>
            \E i \in 1..Len(ses[t].answers) : ses[t].answers[i] = Accepted
      BY <2>5, <3>4, <3>5
    <3>7. users' # users \/ config' # config => Answered(s) /\ Last(s) \in Changes
      BY <2>2, <3>1, <3>3, <3>4
    <3> QED BY <2>3, <3>6, <3>7 DEF Authorised, Changes
  <2> QED BY <2>1, <2>6, <2>7 DEF Served
<1>8. CASE Ending(s)
  <2>1. ses' = [ses EXCEPT ![s] = Closed] /\ users' = users /\ config' = config
    BY <1>8 DEF Ending, Close
  <2>2. \A t \in Open : ses'[t] = Closed \/ ses'[t] = ses[t]
    BY <1>2, <1>4, <2>1
  <2>3. \A t \in Open : ~Answered(t)
    BY <1>3, <2>2, ClosedIs
  <2> QED BY <2>1, <2>3 DEF Authorised
<1>9. CASE WriteKilled(s)
  <2>1. ses' = [x \in Sessions |-> Closed] /\ users' = users /\ config' = config
    BY <1>9 DEF WriteKilled
  <2>2. \A t \in Open : ~Answered(t)
    BY <1>2, <1>3, <2>1, ClosedIs
  <2> QED BY <2>1, <2>2 DEF Authorised
<1> QED BY <1>1, <1>5, <1>6, <1>7, <1>8, <1>9

LEMMA StepJustified ==
    ASSUME ServiceInv, ServiceStep
    PROVE  Justified
<1>1. PICK s \in Sessions :
        PassiveAccept(s) \/ Quiet(s) \/ Answering(s) \/ Ending(s) \/ WriteKilled(s)
  BY DEF ServiceStep
<1>2. ses = [t \in Sessions |-> ses[t]]
  BY DEF ServiceInv
<1>3. ASSUME NEW x, ses' = [ses EXCEPT ![s] = x], x.open PROVE Justified
  BY <1>2, <1>3 DEF Justified, Open
<1>4. CASE PassiveAccept(s)
  <2>1. [Closed EXCEPT !.open = TRUE, !.interest = "R"].open
    BY DEF Closed
  <2> QED BY <1>3, <1>4, <2>1 DEF PassiveAccept
<1>5. CASE Quiet(s)
  BY <1>3, <1>5 DEF Quiet
<1>6. CASE Answering(s)
  BY <1>3, <1>6 DEF Answering, Served, Becomes
<1>7. CASE Ending(s)
  <2>1. \A t \in Open : t # s => ses'[t] = ses[t]
    BY <1>2, <1>7 DEF Ending, Close, Open
  <2> QED BY <1>7, <2>1 DEF Ending, Justified, Open
<1>8. CASE WriteKilled(s)
  BY <1>8 DEF WriteKilled, Justified
<1> QED BY <1>1, <1>4, <1>5, <1>6, <1>7, <1>8

-----------------------------------------------------------------------------
\* A step of either specification keeps the invariant, and does what is allowed.

LEMMA NextAllowed ==
    ASSUME ServiceInv, [Next]_vars
    PROVE  ServiceInv' /\ [Authorised]_vars /\ [Justified]_vars
<1>1. CASE Next
  BY <1>1, NextIs, StepKeeps, StepAuthorised, StepJustified
<1>2. CASE UNCHANGED vars
  BY <1>2, StutterKeeps
<1> QED BY <1>1, <1>2

LEMMA CNextAllowed ==
    ASSUME ServiceInv, [CNext]_allVars
    PROVE  ServiceInv' /\ [Authorised]_vars /\ [Justified]_vars
<1>1. ServiceStep \/ UNCHANGED vars
  <2>1. CASE CNext
    BY <2>1, CNextIs
  <2>2. CASE UNCHANGED allVars
    BY <2>2 DEF allVars, vars
  <2> QED BY <2>1, <2>2
<1>2. CASE ServiceStep
  BY <1>2, StepKeeps, StepAuthorised, StepJustified
<1>3. CASE UNCHANGED vars
  BY <1>3, StutterKeeps
<1> QED BY <1>1, <1>2, <1>3

LEMMA InvGives ==
    ASSUME ServiceInv
    PROVE  CountsExact /\ LocksOut
<1>1. \A s \in Open : ses[s].open /\ SessionInv(ses[s])
  BY DEF Open, ServiceInv
<1> QED BY <1>1 DEF ServiceInv, SessionInv, LocksOut

(***************************************************************************)
(* The inductive invariant of the management service, with any peers and   *)
(* with its client.                                                        *)
(***************************************************************************)
THEOREM ServiceInvariant == (Spec => []ServiceInv) /\ (CSpec => []ServiceInv)
<1>1. Init => ServiceInv
  BY InitHolds
<1>2. CInit => ServiceInv
  BY InitHolds DEF CInit
<1>3. ServiceInv /\ [Next]_vars => ServiceInv'
  BY NextAllowed
<1>4. ServiceInv /\ [CNext]_allVars => ServiceInv'
  BY CNextAllowed
<1>5. Spec => []ServiceInv
  BY <1>1, <1>3, PTL DEF Spec
<1>6. CSpec => []ServiceInv
  BY <1>2, <1>4, PTL DEF CSpec
<1> QED BY <1>5, <1>6

(***************************************************************************)
(* g_active_sessions, for which the shutdown waits, and the metric are the *)
(* number of open sessions: mng_close runs once for every mng_passive_accept *)
(* that succeeded.                                                         *)
(***************************************************************************)
THEOREM SessionsCounted == (Spec => []CountsExact) /\ (CSpec => []CountsExact)
<1>1. ServiceInv => CountsExact
  BY InvGives
<1>2. Spec => []CountsExact
  BY <1>1, ServiceInvariant, PTL
<1>3. CSpec => []CountsExact
  BY <1>1, ServiceInvariant, PTL
<1> QED BY <1>2, <1>3

(***************************************************************************)
(* The third wrong secret in a row locks a session, which then answers     *)
(* nothing more; a right one in between starts the count again.            *)
(***************************************************************************)
THEOREM ThirdFailureLocks == (Spec => []LocksOut) /\ (CSpec => []LocksOut)
<1>1. ServiceInv => LocksOut
  BY InvGives
<1>2. Spec => []LocksOut
  BY <1>1, ServiceInvariant, PTL
<1>3. CSpec => []LocksOut
  BY <1>1, ServiceInvariant, PTL
<1> QED BY <1>2, <1>3

(***************************************************************************)
(* Nothing protected is answered, and no store changes, but for a session  *)
(* that was told "authenticated" before.                                   *)
(***************************************************************************)
THEOREM SecretFirst == (Spec => OnlyAuthorised) /\ (CSpec => OnlyAuthorised)
<1>1. ServiceInv /\ [Next]_vars => [Authorised]_vars
  BY NextAllowed
<1>2. ServiceInv /\ [CNext]_allVars => [Authorised]_vars
  BY CNextAllowed
<1>3. Spec => OnlyAuthorised
  BY <1>1, ServiceInvariant, PTL DEF Spec, OnlyAuthorised
<1>4. CSpec => OnlyAuthorised
  BY <1>2, ServiceInvariant, PTL DEF CSpec, OnlyAuthorised
<1> QED BY <1>3, <1>4

(***************************************************************************)
(* While the process runs a session ends only for a reason of its own      *)
(* connection, with nothing left unanswered after a FIN.                   *)
(***************************************************************************)
THEOREM SessionsEndForAReason == (Spec => EndsForAReason) /\ (CSpec => EndsForAReason)
<1>1. ServiceInv /\ [Next]_vars => [Justified]_vars
  BY NextAllowed
<1>2. ServiceInv /\ [CNext]_allVars => [Justified]_vars
  BY CNextAllowed
<1>3. Spec => EndsForAReason
  BY <1>1, ServiceInvariant, PTL DEF Spec, EndsForAReason
<1>4. CSpec => EndsForAReason
  BY <1>2, ServiceInvariant, PTL DEF CSpec, EndsForAReason
<1> QED BY <1>3, <1>4

\* A nonempty set of natural numbers has a least element.
LEMMA Least ==
  ASSUME NEW S, S \subseteq Nat, S # {}
  PROVE  \E p \in S : \A q \in S : p <= q
<1>1. \E p \in S : \A q \in S : ~(<<q, p>> \in OpToRel(<, Nat))
  BY NatLessThanWellFounded, WFMin
<1>2. PICK p \in S : \A q \in S : ~(<<q, p>> \in OpToRel(<, Nat))
  BY <1>1
<1>3. \A q \in S : ~(q < p)
  BY <1>2 DEF OpToRel
<1> QED
  BY <1>3

\* g[i] is what the loop keeps of the first i bytes of b.
Loop(g, b) ==
    \A i \in 0..Len(b) :
        g[i] = IF i = 0 THEN <<>> ELSE IF b[i] = CR THEN g[i - 1] ELSE Append(g[i - 1], b[i])

\* The loop can be run.
LEMMA LoopRuns ==
  ASSUME NEW S, NEW b \in Seq(S)
  PROVE  \E g \in [0..Len(b) -> Seq(S)] : Loop(g, b)
<1> DEFINE Runs(g, n) ==
              \A i \in 0..n : g[i] = IF i = 0 THEN <<>>
                                     ELSE IF b[i] = CR THEN g[i - 1] ELSE Append(g[i - 1], b[i])
           Stuck == {n \in 0..Len(b) : ~\E g \in [0..n -> Seq(S)] : Runs(g, n)}
<1>1. Len(b) \in Nat /\ \A i \in 1..Len(b) : b[i] \in S
  OBVIOUS
<1>2. SUFFICES ASSUME Stuck # {} PROVE FALSE
  <2>1. ASSUME Stuck = {} PROVE \E g \in [0..Len(b) -> Seq(S)] : Loop(g, b)
    <3>1. Len(b) \in 0..Len(b)
      BY <1>1
    <3>2. \E g \in [0..Len(b) -> Seq(S)] : Runs(g, Len(b))
      BY <2>1, <3>1, Zenon
    <3> QED BY <3>2, Zenon DEF Loop
  <2> QED BY <2>1, Zenon
<1>3. PICK n \in Stuck : \A m \in Stuck : n <= m
  <2>1. Stuck \subseteq Nat
    BY <1>1
  <2> HIDE DEF Stuck
  <2> QED
    BY <1>2, <2>1, Least
<1>4. n \in 0..Len(b) /\ ~\E g \in [0..n -> Seq(S)] : Runs(g, n)
  BY <1>3
<1>5. CASE n = 0
  <2> DEFINE g == [i \in 0..0 |-> <<>>]
  <2>1. g \in [0..0 -> Seq(S)] /\ Runs(g, 0)
    OBVIOUS
  <2> QED
    BY <1>4, <1>5, <2>1
<1>6. CASE n # 0
  <2>1. n - 1 \in 0..Len(b) /\ n \in 1..Len(b) /\ ~(n <= n - 1)
    BY <1>1, <1>4, <1>6
  <2>2. n - 1 \notin Stuck
    BY <1>3, <2>1
  <2>3. PICK g \in [0..(n - 1) -> Seq(S)] : Runs(g, n - 1)
    BY <2>1, <2>2
  <2> DEFINE last == IF b[n] = CR THEN g[n - 1] ELSE Append(g[n - 1], b[n])
             h == [i \in 0..n |-> IF i = n THEN last ELSE g[i]]
  <2>4. g[n - 1] \in Seq(S) /\ b[n] \in S
    BY <1>1, <2>1, <2>3
  <2>5. last \in Seq(S)
    BY <2>4
  <2> HIDE DEF last
  <2>6. h \in [0..n -> Seq(S)]
    BY <2>1, <2>3, <2>5
  <2>7. ASSUME NEW i \in 0..n
        PROVE  h[i] = IF i = 0 THEN <<>>
                      ELSE IF b[i] = CR THEN h[i - 1] ELSE Append(h[i - 1], b[i])
    <3>1. CASE i = n
      <4>1. h[i] = last /\ h[i - 1] = g[n - 1]
        BY <2>1, <3>1
      <4> QED
        BY <1>6, <3>1, <4>1 DEF last
    <3>2. CASE i # n
      <4>1. i \in 0..(n - 1) /\ h[i] = g[i] /\ (i # 0 => h[i - 1] = g[i - 1])
        BY <2>1, <3>2
      <4> QED
        BY <2>3, <4>1
    <3> QED
      BY <3>1, <3>2
  <2> QED
    BY <1>4, <2>6, <2>7
<1> QED
  BY <1>5, <1>6

\* NoCR is the end of such a run.
LEMMA NoCRIs ==
  ASSUME NEW S, NEW b \in Seq(S)
  PROVE  \E g \in [0..Len(b) -> Seq(S)] : Loop(g, b) /\ NoCR(b) = g[Len(b)]
<1> DEFINE F(g) == [i \in 0..Len(b) |-> IF i = 0 THEN <<>>
                      ELSE IF b[i] = CR THEN g[i - 1] ELSE Append(g[i - 1], b[i])]
           k == CHOOSE g : g = F(g)
<1>1. PICK g \in [0..Len(b) -> Seq(S)] : Loop(g, b)
  BY LoopRuns
<1>2. g = F(g)
  BY <1>1 DEF Loop
<1>3. k = F(k)
  BY <1>2
<1>4. NoCR(b) = k[Len(b)]
  BY DEF NoCR
<1> HIDE DEF k
<1>5. Loop(k, b)
  BY <1>3 DEF Loop
<1> DEFINE Off == {n \in 0..Len(b) : k[n] # g[n]}
<1>6. Off = {}
  <2>1. SUFFICES ASSUME Off # {} PROVE FALSE
    OBVIOUS
  <2>2. PICK n \in Off : \A m \in Off : n <= m
    <3>1. Off \subseteq Nat
      OBVIOUS
    <3> HIDE DEF Off
    <3> QED
      BY <2>1, <3>1, Least
  <2>3. n # 0 => n - 1 \in 0..Len(b) /\ k[n - 1] = g[n - 1]
    BY <2>2
  <2> QED
    BY <1>1, <1>5, <2>2, <2>3 DEF Loop
<1>7. NoCR(b) = g[Len(b)]
  BY <1>4, <1>6
<1> QED
  BY <1>1, <1>7

LEMMA NoCREmpty == NoCR(<<>>) = <<>>
<1>1. <<>> \in Seq({}) /\ Len(<<>>) = 0
  OBVIOUS
<1>2. PICK g \in [0..Len(<<>>) -> Seq({})] : Loop(g, <<>>) /\ NoCR(<<>>) = g[Len(<<>>)]
  BY <1>1, NoCRIs
<1> QED
  BY <1>1, <1>2 DEF Loop

\* NoCR byte by byte.
LEMMA NoCRAppend ==
  ASSUME NEW S, NEW b \in Seq(S), NEW e \in S
  PROVE  /\ NoCR(<<>>) = <<>>
         /\ NoCR(b) \in Seq(S)
         /\ NoCR(Append(b, e)) = IF e = CR THEN NoCR(b) ELSE Append(NoCR(b), e)
<1> DEFINE c == Append(b, e)
<1>1. <<>> \in Seq(S) /\ c \in Seq(S) /\ Len(<<>>) = 0 /\ Len(b) \in Nat /\ Len(c) = Len(b) + 1
      /\ c[Len(b) + 1] = e /\ \A i \in 1..Len(b) : c[i] = b[i]
  OBVIOUS
<1>2. NoCR(<<>>) = <<>>
  BY NoCREmpty
<1>3. PICK g \in [0..Len(b) -> Seq(S)] : Loop(g, b) /\ NoCR(b) = g[Len(b)]
  BY NoCRIs
<1> HIDE DEF c
<1>4. PICK h \in [0..Len(c) -> Seq(S)] : Loop(h, c) /\ NoCR(c) = h[Len(c)]
  BY <1>1, NoCRIs
<1> DEFINE Off == {n \in 0..Len(b) : h[n] # g[n]}
<1>5. Off = {}
  <2>1. SUFFICES ASSUME Off # {} PROVE FALSE
    OBVIOUS
  <2>2. PICK n \in Off : \A m \in Off : n <= m
    <3>1. Off \subseteq Nat
      OBVIOUS
    <3> HIDE DEF Off
    <3> QED
      BY <2>1, <3>1, Least
  <2>3. n \in 0..Len(c) /\ (n # 0 => n - 1 \in 0..Len(b) /\ h[n - 1] = g[n - 1] /\ c[n] = b[n])
    BY <1>1, <2>2
  <2> QED
    BY <1>3, <1>4, <2>2, <2>3 DEF Loop
<1>6. h[Len(b)] = g[Len(b)]
  BY <1>1, <1>5
<1>7. h[Len(c)] = IF c[Len(c)] = CR THEN h[Len(c) - 1] ELSE Append(h[Len(c) - 1], c[Len(c)])
  <2>1. Len(c) \in 0..Len(c) /\ Len(c) # 0
    BY <1>1
  <2> HIDE DEF Off
  <2> QED
    BY <1>4, <2>1 DEF Loop
<1>8. Len(c) - 1 = Len(b) /\ c[Len(c)] = e
  BY <1>1
<1>9. NoCR(b) \in Seq(S)
  BY <1>1, <1>3
<1> QED
  BY <1>2, <1>3, <1>4, <1>6, <1>7, <1>8, <1>9 DEF c

\* No CR is left, and every other byte stays.
LEMMA NoCRWords ==
  ASSUME NEW S, NEW b \in Seq(S)
  PROVE  /\ NoCR(b) \in Seq(S) /\ NoCR(b) \in Seq(S \ {CR})
         /\ CR \notin S => NoCR(b) = b
<1> DEFINE Right(s) == NoCR(s) \in Seq(S \ {CR}) /\ (CR \notin S => NoCR(s) = s)
           Wrong == {n \in Nat : \E s \in Seq(S) : Len(s) = n /\ ~Right(s)}
<1>1. Wrong = {}
  <2>1. SUFFICES ASSUME Wrong # {} PROVE FALSE
    OBVIOUS
  <2>2. PICK n \in Wrong : \A m \in Wrong : n <= m
    <3>1. Wrong \subseteq Nat
      OBVIOUS
    <3> HIDE DEF Wrong
    <3> QED
      BY <2>1, <3>1, Least
  <2>3. PICK s \in Seq(S) : Len(s) = n /\ ~Right(s)
    BY <2>2
  <2>4. CASE s = <<>>
    <3>1. NoCR(<<>>) = <<>>
      BY NoCREmpty
    <3> QED
      BY <2>3, <2>4, <3>1
  <2>5. CASE s # <<>>
    <3>1. PICK t \in Seq(S), e \in S : s = Append(t, e)
      BY <2>5, SequenceEmptyOrAppend
    <3>2. Len(t) \in Nat /\ ~(n <= Len(t))
      BY <2>3, <3>1
    <3>3. Len(t) \notin Wrong
      BY <2>2, <3>2
    <3>4. Right(t)
      BY <3>2, <3>3
    <3>5. NoCR(s) = IF e = CR THEN NoCR(t) ELSE Append(NoCR(t), e)
      BY <3>1, NoCRAppend
    <3>6. NoCR(t) \in Seq(S \ {CR}) /\ (e # CR => e \in S \ {CR})
      BY <3>4
    <3>7. NoCR(s) \in Seq(S \ {CR})
      BY <3>5, <3>6
    <3>8. CR \notin S => NoCR(s) = s
      BY <3>1, <3>4, <3>5
    <3> QED
      BY <2>3, <3>7, <3>8
  <2> QED
    BY <2>4, <2>5
<1>2. Len(b) \in Nat
  OBVIOUS
<1>3. Right(b)
  BY <1>1, <1>2
<1>4. NoCR(b) \in Seq(S)
  <2>1. PICK g \in [0..Len(b) -> Seq(S)] : NoCR(b) = g[Len(b)]
    BY NoCRIs
  <2> QED
    BY <1>2, <2>1
<1> QED
  BY <1>3, <1>4

AppendsAfter(x, y, e) == x \o Append(y, e) = Append(x \o y, e)

LEMMA AppendAfter ==
  ASSUME NEW S, NEW x \in Seq(S), NEW y \in Seq(S), NEW e \in S
  PROVE  AppendsAfter(x, y, e)
BY DEF AppendsAfter

\* The loop may be interrupted anywhere.
LEMMA NoCRConcat ==
  ASSUME NEW S, NEW a \in Seq(S), NEW b \in Seq(S)
  PROVE  NoCR(a \o b) = NoCR(a) \o NoCR(b)
<1> DEFINE Right(s) == NoCR(a \o s) = NoCR(a) \o NoCR(s)
           Wrong == {n \in Nat : \E s \in Seq(S) : Len(s) = n /\ ~Right(s)}
<1>0. NoCR(a) \in Seq(S)
  BY NoCRWords
<1>1. Wrong = {}
  <2>1. SUFFICES ASSUME Wrong # {} PROVE FALSE
    OBVIOUS
  <2>2. PICK n \in Wrong : \A m \in Wrong : n <= m
    <3>1. Wrong \subseteq Nat
      OBVIOUS
    <3> HIDE DEF Wrong
    <3> QED
      BY <2>1, <3>1, Least
  <2>3. PICK s \in Seq(S) : Len(s) = n /\ ~Right(s)
    BY <2>2
  <2>4. CASE s = <<>>
    <3>1. NoCR(<<>>) = <<>>
      BY NoCREmpty
    <3>2. a \o <<>> = a /\ NoCR(a) \o <<>> = NoCR(a)
      BY <1>0, ConcatEmptySeq
    <3> QED
      BY <2>3, <2>4, <3>1, <3>2
  <2>5. CASE s # <<>>
    <3>1. PICK t \in Seq(S), e \in S : s = Append(t, e)
      BY <2>5, SequenceEmptyOrAppend
    <3>2. Len(t) \in Nat /\ ~(n <= Len(t))
      BY <2>3, <3>1
    <3>3. Len(t) \notin Wrong
      BY <2>2, <3>2
    <3>4. Right(t)
      BY <3>2, <3>3
    <3>5. NoCR(s) = IF e = CR THEN NoCR(t) ELSE Append(NoCR(t), e)
      BY <3>1, NoCRAppend
    <3>6. a \o s = Append(a \o t, e) /\ a \o t \in Seq(S)
      BY <3>1
    <3>7. NoCR(a \o s) = IF e = CR THEN NoCR(a \o t) ELSE Append(NoCR(a \o t), e)
      <4>1. PICK z \in Seq(S) : z = a \o t
        BY <3>6, Zenon
      <4>2. NoCR(Append(z, e)) = IF e = CR THEN NoCR(z) ELSE Append(NoCR(z), e)
        BY NoCRAppend
      <4> QED BY <3>6, <4>1, <4>2, Zenon
    <3>8. NoCR(t) \in Seq(S)
      BY NoCRWords
    <3>9. NoCR(a) \o Append(NoCR(t), e) = Append(NoCR(a) \o NoCR(t), e)
      <4>1. PICK x \in Seq(S), y \in Seq(S) : x = NoCR(a) /\ y = NoCR(t)
        BY <1>0, <3>8, Zenon
      <4>2. AppendsAfter(x, y, e)
        BY AppendAfter
      <4> QED BY <4>1, <4>2, Zenon DEF AppendsAfter
    <3> QED
      BY <2>3, <3>4, <3>5, <3>7, <3>9
  <2> QED
    BY <2>4, <2>5
<1>2. Len(b) \in Nat
  OBVIOUS
<1> QED
  BY <1>1, <1>2

-----------------------------------------------------------------------------
\* Where mng_process_input stops.

LEMMA ByteFacts ==
    /\ LF \in Byte /\ CR \in Byte /\ Text \subseteq Byte /\ LF # CR
    /\ LF \notin Text /\ CR \notin Text /\ Text \cup {CR} \subseteq Byte
    /\ \A c \in Byte : c # LF => c \in Text \cup {CR}
    /\ (Text \cup {CR}) \ {CR} = Text
    /\ Byte \ {CR} \subseteq Byte
<1>1. LF # CR
  BY DEF LF, CR
<1> QED
  BY <1>1, RequestsAssumption DEF Byte

\* The first byte of a piece of the input, and what follows it.
LEMMA Pieces ==
  ASSUME NEW S, NEW b \in Seq(S), NEW k \in 1..Len(b)
  PROVE  LET p == SubSeq(b, 1, k - 1)
             r == SubSeq(b, k + 1, Len(b))
         IN  /\ p \in Seq(S) /\ r \in Seq(S) /\ Len(p) = k - 1
             /\ \A i \in 1..(k - 1) : p[i] = b[i]
             /\ b = Append(p, b[k]) \o r /\ Append(p, b[k]) \in Seq(S)
             /\ SubSeq(b, 1, k) = Append(p, b[k]) /\ Len(r) <= Len(b)
<1> DEFINE p == SubSeq(b, 1, k - 1)
           r == SubSeq(b, k + 1, Len(b))
<1>1. Len(b) \in Nat /\ \A i \in 1..Len(b) : b[i] \in S
  OBVIOUS
<1>2. p \in Seq(S) /\ Len(p) = k - 1 /\ \A i \in 1..(k - 1) : p[i] = b[i]
  <2>1. \A i \in 1..(k - 1) : b[i] \in S
    BY <1>1
  <2> QED
    BY <1>1, <2>1, SubSeqProperties
<1>3. r \in Seq(S) /\ Len(r) = Len(b) - k /\ \A i \in 1..(Len(b) - k) : r[i] = b[k + i]
  <2>1. \A i \in (k + 1)..Len(b) : b[i] \in S
    BY <1>1
  <2> QED
    BY <1>1, <2>1, SubSeqProperties
<1>4. SubSeq(b, 1, k) = p \o <<b[k]>>
  <2>1. 1 \in 1..Len(b) /\ k \in 1..Len(b)
    BY <1>1
  <2> QED
    BY <2>1, SubSeqRecursiveSecond
<1> HIDE DEF p, r
<1>5. Append(p, b[k]) = p \o <<b[k]>> /\ Append(p, b[k]) \in Seq(S)
  BY <1>1, <1>2
<1>6. SubSeq(b, 1, k) \o SubSeq(b, k + 1, Len(b)) = SubSeq(b, 1, Len(b))
  BY <1>1, ConcatAdjacentSubSeq
<1>7. SubSeq(b, 1, Len(b)) = b
  BY SubSeqFull
<1>8. b = Append(p, b[k]) \o r /\ SubSeq(b, 1, k) = Append(p, b[k])
  BY <1>4, <1>5, <1>6, <1>7 DEF r
<1>9. Len(r) <= Len(b)
  BY <1>1, <1>3
<1> QED
  BY <1>2, <1>3, <1>5, <1>8, <1>9 DEF p, r

\* The loop, with n bytes in the line, stops at the i-th byte of b.
Halts(b, n, i) ==
    b[i] = LF \/ (b[i] # CR /\ n + Len(NoCR(SubSeq(b, 1, i - 1))) + 1 >= LineSize)

\* As long as nothing stops the loop the line has room.
LEMMA Fitting ==
  ASSUME NEW b \in Seq(Byte), NEW l \in Nat, l < LineSize,
         NEW n \in 0..Len(b), \A i \in 1..n : ~Halts(b, l, i)
  PROVE  l + Len(NoCR(SubSeq(b, 1, n))) < LineSize
<1> DEFINE Room(k) == l + Len(NoCR(SubSeq(b, 1, k))) < LineSize
           Tight == {k \in 0..n : ~Room(k)}
<1>1. Len(b) \in Nat /\ LineSize \in Nat /\ n \in Nat /\ n <= Len(b)
  BY SizesAssumption
<1>2. SUFFICES ASSUME Tight # {} PROVE FALSE
  <2>1. n \in 0..n
    BY <1>1
  <2> QED
    BY <2>1
<1>3. PICK k \in Tight : \A j \in Tight : k <= j
  <2>1. Tight \subseteq Nat
    BY <1>1
  <2> HIDE DEF Tight
  <2> QED
    BY <1>2, <2>1, Least
<1>4. k \in 0..n /\ ~Room(k)
  BY <1>3
<1>5. CASE k = 0
  <2>1. SubSeq(b, 1, 0) = <<>>
    BY SubSeqEmpty
  <2>2. NoCR(SubSeq(b, 1, 0)) = <<>>
    BY <2>1, NoCREmpty, Zenon
  <2>3. Len(NoCR(SubSeq(b, 1, 0))) = 0
    BY <2>2
  <2> QED
    BY <1>1, <1>4, <1>5, <2>3
<1>6. CASE k # 0
  <2> DEFINE p == SubSeq(b, 1, k - 1)
  <2>1. k \in 1..Len(b) /\ k - 1 \in 0..n /\ k \in 1..n /\ ~(k <= k - 1)
    BY <1>1, <1>4, <1>6
  <2>2. k - 1 \notin Tight
    BY <1>3, <2>1
  <2>3. l + Len(NoCR(p)) < LineSize
    BY <2>1, <2>2
  <2>4. p \in Seq(Byte) /\ SubSeq(b, 1, k) = Append(p, b[k]) /\ b[k] \in Byte
    <3>1. b[k] \in Byte
      BY <2>1
    <3> QED
      BY <2>1, <3>1, Pieces
  <2>5. b[k] = CR \/ ~(l + Len(NoCR(p)) + 1 >= LineSize)
    BY <2>1 DEF Halts
  <2>6. ~(l + Len(NoCR(SubSeq(b, 1, k))) < LineSize)
    BY <1>4
  <2> HIDE DEF p
  <2>7. NoCR(p) \in Seq(Byte)
        /\ NoCR(SubSeq(b, 1, k)) = IF b[k] = CR THEN NoCR(p) ELSE Append(NoCR(p), b[k])
    <3>1. NoCR(p) \in Seq(Byte)
      BY <2>4, NoCRWords
    <3>2. NoCR(Append(p, b[k])) = IF b[k] = CR THEN NoCR(p) ELSE Append(NoCR(p), b[k])
      BY <2>4, NoCRAppend
    <3> QED BY <2>4, <3>1, <3>2, Zenon
  <2>8. Len(NoCR(p)) \in Nat /\ Len(Append(NoCR(p), b[k])) = Len(NoCR(p)) + 1
    BY <2>4, <2>7
  <2>9. CASE b[k] = CR
    <3>1. NoCR(SubSeq(b, 1, k)) = NoCR(p)
      BY <2>7, <2>9
    <3> QED
      BY <2>3, <2>6, <3>1, Zenon
  <2>10. CASE b[k] # CR
    <3>1. NoCR(SubSeq(b, 1, k)) = Append(NoCR(p), b[k])
      BY <2>7, <2>10
    <3>2. Len(NoCR(SubSeq(b, 1, k))) = Len(NoCR(p)) + 1
      BY <2>8, <3>1, Zenon
    <3> QED
      BY <1>1, <2>5, <2>6, <2>8, <2>10, <3>2
  <2> QED
    BY <2>9, <2>10
<1> QED
  BY <1>4, <1>5, <1>6

LEMMA StopIs ==
  ASSUME NEW m, NEW b \in Seq(Byte), m.inbuf = b, m.line \in Seq(Text), Len(m.line) < LineSize
  PROVE  /\ Stop(m) \in 0..Len(b)
         /\ Stop(m) = 0 =>
              (\A i \in 1..Len(b) : b[i] # LF) /\ Len(m.line) + Len(NoCR(b)) < LineSize
         /\ Stop(m) # 0 =>
              /\ Stop(m) \in 1..Len(b) /\ Halts(b, Len(m.line), Stop(m))
              /\ \A i \in 1..(Stop(m) - 1) : b[i] # LF
              /\ Len(m.line) + Len(NoCR(SubSeq(b, 1, Stop(m) - 1))) < LineSize
<1> DEFINE l == Len(m.line)
           hits == {i \in 1..Len(m.inbuf) : Stops(m, i)}
<1>1. Len(b) \in Nat /\ l \in Nat /\ l < LineSize
  OBVIOUS
<1>2. \A i : i \in hits <=> i \in 1..Len(b) /\ Halts(b, l, i)
  BY DEF Stops, Halts
<1>3. Stop(m) = IF hits = {} THEN 0 ELSE CHOOSE i \in hits : \A j \in hits : i <= j
  BY Zenon DEF Stop
<1> HIDE DEF hits
<1>4. CASE hits = {}
  <2>1. Stop(m) = 0
    BY <1>3, <1>4
  <2>2. \A i \in 1..Len(b) : ~Halts(b, l, i)
    BY <1>2, <1>4
  <2>3. \A i \in 1..Len(b) : b[i] # LF
    BY <2>2 DEF Halts
  <2>4. SubSeq(b, 1, Len(b)) = b /\ Len(b) \in 0..Len(b)
    BY <1>1, SubSeqFull
  <2> HIDE DEF l
  <2>5. l + Len(NoCR(SubSeq(b, 1, Len(b)))) < LineSize
    BY <1>1, <2>2, <2>4, Fitting
  <2> QED
    <3>1. l + Len(NoCR(b)) < LineSize
      BY <2>4, <2>5, Zenon
    <3>2. 0 \in 0..Len(b)
      BY <1>1
    <3> QED
      BY <2>1, <2>3, <3>1, <3>2, Zenon DEF l
<1>5. CASE hits # {}
  <2> DEFINE k == Stop(m)
  <2>1. \E p \in hits : \A q \in hits : p <= q
    <3>1. hits \subseteq Nat
      BY <1>1, <1>2
    <3> QED
      BY <1>5, <3>1, Least
  <2>2. k \in hits /\ \A q \in hits : k <= q
    BY <1>3, <1>5, <2>1
  <2>3. k \in 1..Len(b) /\ Halts(b, l, k)
    BY <1>2, <2>2
  <2> HIDE DEF k, l
  <2>4. k - 1 \in 0..Len(b) /\ k # 0 /\ k \in 0..Len(b) /\ k \in Nat
    BY <1>1, <2>3
  <2>5. \A i \in 1..(k - 1) : i \in 1..Len(b) /\ ~(k <= i)
    BY <1>1, <2>3
  <2>6. \A i \in 1..(k - 1) : ~Halts(b, l, i)
    BY <1>2, <2>2, <2>5
  <2>7. \A i \in 1..(k - 1) : b[i] # LF
    BY <2>6 DEF Halts
  <2>8. l + Len(NoCR(SubSeq(b, 1, k - 1))) < LineSize
    BY <1>1, <2>4, <2>6, Fitting
  <2> QED
    BY <2>3, <2>4, <2>7, <2>8 DEF k, l
<1> QED
  BY <1>4, <1>5

-----------------------------------------------------------------------------
\* The pieces of the stream.

\* What a line is made of.
LEMMA WordsOf ==
  ASSUME NEW b \in Seq(Byte), \A i \in 1..Len(b) : b[i] # LF
  PROVE  NoCR(b) \in Seq(Text)
<1>1. \A i \in 1..Len(b) : b[i] \in Text \cup {CR}
  BY ByteFacts, ElementOfSeq
<1>2. b \in Seq(Text \cup {CR})
  BY <1>1
<1>3. NoCR(b) \in Seq((Text \cup {CR}) \ {CR})
  BY <1>2, NoCRWords
<1> QED
  BY <1>3, ByteFacts

LEMMA Joins == \A a, b \in Seq(Byte) : a \o b \in Seq(Byte)
BY ConcatProperties

Associates(a, b, c) == (a \o b) \o c = a \o (b \o c)

LEMMA Assoc == \A a, b, c \in Seq(Byte) : Associates(a, b, c)
<1> SUFFICES ASSUME NEW a \in Seq(Byte), NEW b \in Seq(Byte), NEW c \in Seq(Byte)
             PROVE  Associates(a, b, c)
  OBVIOUS
<1> QED
  BY ConcatAssociative DEF Associates

LEMMA AppendJoins ==
  \A a, b \in Seq(Byte) : \A e \in Byte :
    Append(a \o b, e) = a \o Append(b, e) /\ Append(b, e) \in Seq(Byte)
<1> SUFFICES ASSUME NEW a \in Seq(Byte), NEW b \in Seq(Byte), NEW e \in Byte
             PROVE  Append(a \o b, e) = a \o Append(b, e) /\ Append(b, e) \in Seq(Byte)
  OBVIOUS
<1> QED
  OBVIOUS

Regroups(s, l, n, r, c) ==
    /\ Append(l \o n, c) \in Seq(Byte)
    /\ (s \o l) \o (Append(n, c) \o r) = (s \o Append(l \o n, c)) \o r

LEMMA Regrouped == \A s, l, n, r \in Seq(Byte) : \A c \in Byte : Regroups(s, l, n, r, c)
<1> SUFFICES ASSUME NEW s \in Seq(Byte), NEW l \in Seq(Byte), NEW n \in Seq(Byte),
                    NEW r \in Seq(Byte), NEW c \in Byte
             PROVE  Regroups(s, l, n, r, c)
  OBVIOUS
<1>1. Append(n, c) \in Seq(Byte) /\ Append(l \o n, c) = l \o Append(n, c)
  BY AppendJoins, Zenon
<1>2. PICK a \in Seq(Byte) : a = Append(n, c)
  BY <1>1, Zenon
<1>3. (s \o l) \o (a \o r) = ((s \o l) \o a) \o r
  <2>1. s \o l \in Seq(Byte)
    BY Joins, Zenon
  <2>2. Associates(s \o l, a, r)
    BY <2>1, Assoc, Zenon
  <2> QED
    BY <2>2, Zenon DEF Associates
<1>4. (s \o l) \o a = s \o (l \o a)
  <2>1. Associates(s, l, a)
    BY Assoc, Zenon
  <2> QED
    BY <2>1, Zenon DEF Associates
<1>5. l \o a \in Seq(Byte)
  BY Joins, Zenon
<1> QED
  BY <1>1, <1>2, <1>3, <1>4, <1>5, Zenon DEF Regroups

LEMMA LineTaken ==
  ASSUME NEW served \in Seq(Byte), NEW line \in Seq(Text), NEW b \in Seq(Byte),
         NEW k \in 1..Len(b), \A i \in 1..(k - 1) : b[i] # LF, b[k] # CR
  PROVE  LET words == line \o NoCR(SubSeq(b, 1, k - 1))
             rest  == SubSeq(b, k + 1, Len(b))
         IN  /\ words \in Seq(Text) /\ rest \in Seq(Byte) /\ Len(rest) <= Len(b)
             /\ Append(words, b[k]) \in Seq(Byte)
             /\ served \o line \o NoCR(b) = (served \o Append(words, b[k])) \o NoCR(rest)
<1> DEFINE p == SubSeq(b, 1, k - 1)
           rest == SubSeq(b, k + 1, Len(b))
           n == NoCR(p)
           r == NoCR(rest)
           c == b[k]
<1>1. /\ p \in Seq(Byte) /\ rest \in Seq(Byte) /\ Len(p) = k - 1 /\ Len(rest) <= Len(b)
      /\ \A i \in 1..(k - 1) : p[i] = b[i]
      /\ b = Append(p, c) \o rest /\ Append(p, c) \in Seq(Byte)
  BY Pieces
<1>2. c \in Byte
  BY ElementOfSeq
<1>3. n \in Seq(Text)
  <2>1. \A i \in 1..Len(p) : p[i] # LF
    BY <1>1
  <2> HIDE DEF p
  <2> QED
    BY <1>1, <2>1, WordsOf
<1>4. r \in Seq(Byte)
  BY <1>1, NoCRWords
<1>5. NoCR(b) = NoCR(Append(p, c)) \o r
  <2>1. NoCR(Append(p, c) \o rest) = NoCR(Append(p, c)) \o r
    <3> HIDE DEF p, rest, c
    <3> QED
      BY <1>1, NoCRConcat DEF r
  <2> QED
    BY <1>1, <2>1
<1>6. NoCR(Append(p, c)) = Append(n, c)
  <2> HIDE DEF p, c
  <2>1. NoCR(Append(p, c)) = IF c = CR THEN NoCR(p) ELSE Append(NoCR(p), c)
    BY <1>1, <1>2, NoCRAppend
  <2> QED
    BY <2>1 DEF n, c
<1>7. line \in Seq(Byte) /\ n \in Seq(Byte)
  BY <1>3, ByteFacts, SeqMonotonic
<1> DEFINE words == line \o n
<1>8. words \in Seq(Text)
  <2> HIDE DEF n
  <2> QED
    BY <1>3, ConcatProperties
<1> HIDE DEF n, r, c, p, rest
<1>9. /\ Append(words, c) \in Seq(Byte)
      /\ (served \o line) \o (Append(n, c) \o r) = (served \o Append(words, c)) \o r
  <2> HIDE DEF words
  <2>1. Regroups(served, line, n, r, c)
    BY <1>2, <1>4, <1>7, Regrouped, Zenon
  <2> QED
    BY <2>1, Zenon DEF Regroups, words
<1>12. served \o line \o NoCR(b) = (served \o Append(words, c)) \o r
  <2> HIDE DEF words
  <2> QED
    BY <1>5, <1>6, <1>9
<1> QED
  BY <1>1, <1>8, <1>9, <1>12 DEF n, r, c, p, rest

\* The occurrences of x in a longer sequence.
EndsIn(a, b, x) ==
    /\ Len(a) < Len(b) /\ \A i \in 1..Len(a) : b[i] = a[i]
    /\ b[Len(b)] = x /\ \A i \in (Len(a) + 1)..(Len(b) - 1) : b[i] # x

CountsOne(a, b, x) ==
    /\ Places(b, x) = Places(a, x) \cup {Len(b)}
    /\ Cardinality(Places(a, x)) \in Nat
    /\ Cardinality(Places(b, x)) = Cardinality(Places(a, x)) + 1

LEMMA OneMorePlace ==
  ASSUME NEW S, NEW a \in Seq(S), NEW b \in Seq(S), NEW x, EndsIn(a, b, x)
  PROVE  CountsOne(a, b, x)
<1>1. Len(a) \in Nat /\ Len(b) \in Nat
  OBVIOUS
<1>0. /\ Len(a) < Len(b) /\ \A i \in 1..Len(a) : b[i] = a[i]
      /\ b[Len(b)] = x /\ \A i \in (Len(a) + 1)..(Len(b) - 1) : b[i] # x
  BY DEF EndsIn
<1>2. Places(b, x) = Places(a, x) \cup {Len(b)}
  <2>1. \A i \in 1..Len(b) : i \in 1..Len(a) \/ i \in (Len(a) + 1)..(Len(b) - 1) \/ i = Len(b)
    BY <1>1
  <2>2. 1..Len(a) \subseteq 1..Len(b) /\ Len(b) \in 1..Len(b)
    BY <1>0, <1>1
  <2> QED
    BY <1>0, <2>1, <2>2 DEF Places
<1>3. Len(b) \notin Places(a, x)
  BY <1>0, <1>1 DEF Places
<1>4. IsFiniteSet(Places(a, x))
  <2>1. IsFiniteSet(1..Len(a))
    BY <1>1, FS_Interval
  <2>2. Places(a, x) \subseteq 1..Len(a)
    BY DEF Places
  <2> QED
    BY <2>1, <2>2, FS_Subset
<1> QED
  BY <1>2, <1>3, <1>4, FS_AddElement, FS_CardinalityType DEF CountsOne

LEMMA PlacesCounted ==
  ASSUME NEW S, NEW a \in Seq(S), NEW x
  PROVE  Cardinality(Places(a, x)) \in Nat
<1>1. IsFiniteSet(1..Len(a))
  BY FS_Interval
<1>2. Places(a, x) \subseteq 1..Len(a)
  BY DEF Places
<1> QED
  BY <1>1, <1>2, FS_Subset, FS_CardinalityType

LEMMA NoMorePlace ==
  ASSUME NEW S, NEW a \in Seq(S), NEW e \in S, NEW x, e # x
  PROVE  Places(Append(a, e), x) = Places(a, x)
<1>1. /\ Len(a) \in Nat /\ Len(Append(a, e)) = Len(a) + 1
      /\ \A i \in 1..Len(a) : Append(a, e)[i] = a[i]
      /\ Append(a, e)[Len(a) + 1] = e
  BY AppendProperties
<1>2. \A i \in 1..(Len(a) + 1) : i \in 1..Len(a) \/ i = Len(a) + 1
  BY <1>1
<1>3. 1..Len(a) \subseteq 1..(Len(a) + 1)
  BY <1>1
<1> QED
  BY <1>1, <1>2, <1>3 DEF Places

-----------------------------------------------------------------------------
\* The streams of one session.

Streams(m) == Typed(m) /\ SentLines(m) /\ InOrder(m) /\ OneEach(m)

\* The input of m2 is that of m.
SameInput(m, m2) ==
    /\ m2.net = m.net /\ m2.inbuf = m.inbuf /\ m2.line = m.line /\ m2.rst = m.rst
    /\ m2.sent = m.sent /\ m2.served = m.served /\ m2.asked = m.asked

\* What is said of the secret and of the responses.
SameCounts(m, m2) ==
    /\ m2.failures = m.failures /\ m2.locked = m.locked
    /\ m2.answers = m.answers /\ m2.got = m.got

\* A new session.
LEMMA StreamsNew ==
  ASSUME NEW m, m.net = <<>>, m.inbuf = <<>>, m.line = <<>>, m.rst = FALSE, m.sent = <<>>,
         m.served = <<>>, m.asked = <<>>, m.failures = 0, m.locked = FALSE,
         m.answers = <<>>, m.got = 0, m.left = 0
  PROVE  Streams(m)
<1>1. Len(<<>>) = 0 /\ <<>> \in Seq(Byte) /\ <<>> \in Seq(Text) /\ <<>> \in Seq(Seq(Text \cup {CR}))
  OBVIOUS
<1>2. Typed(m)
  BY <1>1, SizesAssumption DEF Typed, MaxAuthFailures
<1>3. SentLines(m)
  BY DEF SentLines
<1>4. \A x : Places(<<>>, x) = {}
  BY <1>1 DEF Places
<1>5. InOrder(m)
  <2>1. ~TooLong(m)
    BY <1>4 DEF TooLong
  <2>2. <<>> \o <<>> = <<>>
    BY <1>1, ConcatEmptySeq
  <2>3. Seen(m) \o NoCR(m.net) = m.sent
    BY <2>2, NoCREmpty, Zenon DEF Seen
  <2> QED
    BY <2>1, <2>3 DEF InOrder
<1>6. OneEach(m)
  <2>1. Cardinality({}) = 0
    BY FS_EmptySet
  <2>2. Cardinality(Places(m.served, LF)) = 0 /\ Cardinality(Places(m.answers, LineTooLong)) = 0
    BY <1>4, <2>1
  <2> QED
    BY <1>1, <2>2 DEF OneEach
<1> QED
  BY <1>2, <1>3, <1>5, <1>6 DEF Streams

\* Input that is not touched.
LEMMA InputKept ==
  ASSUME NEW m, NEW m2, SameInput(m, m2), m2.answers = m.answers
  PROVE  /\ SentLines(m) => SentLines(m2)
         /\ InOrder(m) => InOrder(m2)
<1>1. SentLines(m) => SentLines(m2)
  BY DEF SentLines, SameInput
<1>2. Seen(m2) = Seen(m) /\ TooLong(m2) = TooLong(m)
  BY DEF Seen, TooLong, SameInput
<1>3. InOrder(m) => InOrder(m2)
  BY <1>2 DEF InOrder, SameInput
<1> QED
  BY <1>1, <1>3

LEMMA StreamsKept ==
  ASSUME NEW m, NEW m2, Streams(m), SameInput(m, m2), SameCounts(m, m2),
         m2.left > 0 <=> m.left > 0, m2.left <= OutLen
  PROVE  Streams(m2)
<1>1. Typed(m2)
  BY DEF Streams, Typed, SameInput, SameCounts
<1>2. SentLines(m2) /\ InOrder(m2)
  BY InputKept DEF Streams, SameCounts
<1>3. OneEach(m2)
  BY DEF Streams, OneEach, SameInput, SameCounts
<1> QED
  BY <1>1, <1>2, <1>3 DEF Streams

Prefix(a, b) == Len(a) <= Len(a \o b) /\ a = SubSeq(a \o b, 1, Len(a))

LEMMA PrefixOfConcat == \A a, b \in Seq(Byte) : Prefix(a, b)
<1> SUFFICES ASSUME NEW a \in Seq(Byte), NEW b \in Seq(Byte) PROVE Prefix(a, b)
  OBVIOUS
<1>1. Len(a) \in Nat /\ Len(a) <= Len(a \o b)
  OBVIOUS
<1>2. CASE a = <<>>
  BY <1>1, <1>2, SubSeqEmpty DEF Prefix
<1>3. CASE a # <<>>
  <2>1. Len(a) \in 1..Len(a) /\ 1 \in 1..Len(a)
    BY <1>3
  <2>2. SubSeq(a \o b, 1, Len(a)) = SubSeq(a, 1, Len(a))
    BY <2>1, SubSeqOfConcat1
  <2> QED
    BY <1>1, <2>2, SubSeqFull DEF Prefix
<1> QED
  BY <1>2, <1>3

LEMMA SeenBytes ==
  ASSUME NEW m, Typed(m)
  PROVE  Seen(m) \in Seq(Byte) /\ NoCR(m.net) \in Seq(Byte) /\ NoCR(m.inbuf) \in Seq(Byte)
<1>1. m.net \in Seq(Byte) /\ m.inbuf \in Seq(Byte) /\ m.line \in Seq(Text) /\ m.served \in Seq(Byte)
  BY DEF Typed
<1>2. NoCR(m.net) \in Seq(Byte) /\ NoCR(m.inbuf) \in Seq(Byte)
  BY <1>1, NoCRWords
<1>3. m.line \in Seq(Byte)
  BY <1>1, ByteFacts, SeqMonotonic
<1>4. m.served \o m.line \in Seq(Byte)
  BY <1>1, <1>3, Joins, Zenon
<1>5. Seen(m) \in Seq(Byte)
  BY <1>2, <1>4, Joins, Zenon DEF Seen
<1> QED
  BY <1>2, <1>5

\* The peer reset: what was seen is a beginning of what was sent.
LEMMA StreamsReset ==
  ASSUME NEW m, NEW m2, Streams(m), SameCounts(m, m2), m2.left = m.left,
         m2.inbuf = m.inbuf, m2.line = m.line, m2.sent = m.sent, m2.served = m.served,
         m2.asked = m.asked, m2.net = <<>>, m2.rst = TRUE, m.rst = FALSE
  PROVE  Streams(m2)
<1>1. Typed(m2) /\ SentLines(m2) /\ OneEach(m2)
  BY DEF Streams, Typed, SentLines, OneEach, SameCounts
<1>2. Seen(m2) = Seen(m) /\ TooLong(m2) = TooLong(m)
  BY DEF Seen, TooLong, SameCounts
<1>3. CASE TooLong(m)
  BY <1>1, <1>2, <1>3 DEF Streams, InOrder
<1>4. CASE ~TooLong(m)
  <2>1. Seen(m) \o NoCR(m.net) = m.sent
    BY <1>4 DEF Streams, InOrder
  <2>2. Seen(m) \in Seq(Byte) /\ NoCR(m.net) \in Seq(Byte)
    BY SeenBytes DEF Streams
  <2>3. Len(Seen(m)) <= Len(m.sent) /\ Seen(m) = SubSeq(m.sent, 1, Len(Seen(m)))
    <3>1. Prefix(Seen(m), NoCR(m.net))
      BY <2>2, PrefixOfConcat, Zenon
    <3> QED
      BY <2>1, <3>1, Zenon DEF Prefix
  <2> QED
    BY <1>1, <1>2, <1>4, <2>3 DEF Streams, InOrder
<1> QED
  BY <1>3, <1>4

\* A line more among what was sent.
Runs(sent, asked) ==
    /\ sent # <<>> => sent[Len(sent)] = LF
    /\ \A i, j \in 1..Len(sent) :
         i <= j /\ (\A x \in i..j : sent[x] # LF) =>
            \E k \in 1..Len(asked) : Len(NoCR(asked[k])) >= j - i + 1

LEMMA RunsMore ==
  ASSUME NEW sent \in Seq(Byte), NEW S, NEW asked \in Seq(S), NEW req \in S,
         NEW n \in Seq(Byte), NoCR(req) = n, Runs(sent, asked)
  PROVE  Runs(sent \o Append(n, LF), Append(asked, req))
<1> DEFINE t == sent \o Append(n, LF)
           all == Append(asked, req)
<1>1. /\ Len(sent) \in Nat /\ Len(n) \in Nat /\ Len(asked) \in Nat
      /\ Len(t) = Len(sent) + Len(n) + 1
      /\ \A i \in 1..Len(sent) : t[i] = sent[i]
      /\ t[Len(t)] = LF
  <2>1. LF \in Byte
    BY ByteFacts
  <2>2. Append(n, LF) \in Seq(Byte) /\ Len(Append(n, LF)) = Len(n) + 1
        /\ Append(n, LF)[Len(n) + 1] = LF
    BY <2>1, AppendProperties
  <2>3. PICK e \in Seq(Byte) : e = Append(n, LF)
    BY <2>2
  <2>4. Len(e) = Len(n) + 1 /\ e[Len(n) + 1] = LF
    BY <2>2, <2>3
  <2>5. /\ Len(sent \o e) = Len(sent) + Len(e) /\ Len(sent) \in Nat /\ Len(n) \in Nat
        /\ \A i \in 1..(Len(sent) + Len(e)) :
              (sent \o e)[i] = IF i <= Len(sent) THEN sent[i] ELSE e[i - Len(sent)]
    BY ConcatProperties
  <2>6. Len(asked) \in Nat
    BY LenProperties
  <2>7. PICK c : c = sent \o e
    OBVIOUS
  <2>8. /\ Len(c) = Len(sent) + Len(n) + 1
        /\ \A i \in 1..Len(sent) : c[i] = sent[i]
        /\ c[Len(c)] = LF
    BY <2>4, <2>5, <2>7
  <2> QED
    BY <2>3, <2>5, <2>6, <2>7, <2>8
<1>2. /\ Len(all) = Len(asked) + 1 /\ all[Len(asked) + 1] = req
      /\ \A k \in 1..Len(asked) : all[k] = asked[k]
  BY AppendProperties
<1> HIDE DEF t, all
<1>3. ASSUME NEW i \in 1..Len(t), NEW j \in 1..Len(t), i <= j, \A x \in i..j : t[x] # LF
      PROVE  \E k \in 1..Len(all) : Len(NoCR(all[k])) >= j - i + 1
  <2>1. j # Len(t)
    <3>1. j \in i..j
      BY <1>3
    <3> QED
      BY <1>1, <1>3, <3>1
  <2>2. CASE j <= Len(sent)
    <3>1. i \in 1..Len(sent) /\ j \in 1..Len(sent)
      BY <1>1, <1>3, <2>2
    <3>2. \A x \in i..j : x \in 1..Len(sent)
      BY <1>1, <1>3, <3>1
    <3>3. \A x \in i..j : sent[x] # LF
      BY <1>1, <1>3, <3>2
    <3>4. PICK k \in 1..Len(asked) : Len(NoCR(asked[k])) >= j - i + 1
      BY <1>3, <3>1, <3>3 DEF Runs
    <3>5. k \in 1..Len(all) /\ all[k] = asked[k]
      BY <1>1, <1>2
    <3> QED
      BY <3>4, <3>5
  <2>3. CASE j > Len(sent)
    <3>1. i > Len(sent)
      <4>1. SUFFICES ASSUME i <= Len(sent) PROVE FALSE
        BY <1>1, <1>3
      <4>2. Len(sent) \in i..j /\ Len(sent) \in 1..Len(sent)
        BY <1>1, <1>3, <2>3, <4>1
      <4>3. sent # <<>>
        BY <4>2
      <4>4. sent[Len(sent)] = LF
        BY <4>3 DEF Runs
      <4>5. t[Len(sent)] = LF
        BY <1>1, <4>2, <4>4
      <4> QED
        BY <1>3, <4>2, <4>5
    <3>2. Len(n) >= j - i + 1
      BY <1>1, <1>3, <2>1, <2>3, <3>1
    <3>3. Len(asked) + 1 \in 1..Len(all) /\ NoCR(all[Len(asked) + 1]) = n
      BY <1>1, <1>2
    <3> QED
      BY <3>2, <3>3
  <2> QED
    BY <1>1, <1>3, <2>2, <2>3
<1>4. Runs(t, all)
  BY <1>1, <1>3 DEF Runs
<1> QED
  BY <1>4 DEF t, all

LEMMA StreamsAsked ==
  ASSUME NEW m, NEW m2, Streams(m), SameCounts(m, m2), m2.left = m.left, m.rst = FALSE,
         m2.rst = FALSE, m2.inbuf = m.inbuf, m2.line = m.line, m2.served = m.served,
         NEW req \in Seq(Text \cup {CR}),
         m2.net = m.net \o Append(req, LF), m2.sent = m.sent \o Append(NoCR(req), LF),
         m2.asked = Append(m.asked, req)
  PROVE  Streams(m2)
<1> DEFINE S == Seq(Text \cup {CR})
<1>1. Typed(m) /\ SentLines(m) /\ InOrder(m) /\ OneEach(m)
  BY DEF Streams
<1>2. /\ m.net \in Seq(Byte) /\ m.sent \in Seq(Byte) /\ m.asked \in Seq(S)
  BY <1>1 DEF Typed
<1>3. req \in Seq(Byte) /\ LF \in Byte /\ LF # CR
  BY ByteFacts, SeqMonotonic
<1>4. NoCR(req) \in Seq(Byte)
  BY <1>3, NoCRWords
<1>5. Append(req, LF) \in Seq(Byte) /\ Append(NoCR(req), LF) \in Seq(Byte)
  BY <1>3, <1>4, AppendProperties
<1>6. NoCR(Append(req, LF)) = Append(NoCR(req), LF)
  <2>1. NoCR(Append(req, LF)) = IF LF = CR THEN NoCR(req) ELSE Append(NoCR(req), LF)
    BY <1>3, NoCRAppend
  <2> QED
    BY <1>3, <2>1
<1>7. NoCR(m2.net) = NoCR(m.net) \o Append(NoCR(req), LF)
  <2>1. PICK q \in Seq(Byte) : q = Append(req, LF)
    BY <1>5
  <2>2. NoCR(m.net \o q) = NoCR(m.net) \o NoCR(q)
    BY <1>2, NoCRConcat
  <2> QED
    BY <1>6, <2>1, <2>2, Zenon
<1>8. m2.net \in Seq(Byte) /\ m2.sent \in Seq(Byte)
  BY <1>2, <1>5, Joins, Zenon
<1>9. m2.asked \in Seq(S) /\ Len(m2.asked) = Len(m.asked) + 1 /\ Len(m.asked) \in Nat
        /\ \A i \in 1..Len(m.asked) : m2.asked[i] = m.asked[i]
  <2> HIDE DEF S
  <2>1. req \in S
    BY DEF S
  <2> QED
    BY <1>2, <2>1, AppendProperties
<1>10. Typed(m2)
  BY <1>1, <1>8, <1>9 DEF Typed, SameCounts
<1>11. SentLines(m2)
  <2>1. Runs(m.sent, m.asked)
    BY <1>1 DEF SentLines, Runs
  <2>2. PICK n \in Seq(Byte) : n = NoCR(req)
    BY <1>4
  <2>3. Runs(m.sent \o Append(n, LF), Append(m.asked, req))
    <3> HIDE DEF S
    <3>1. req \in S
      BY DEF S
    <3> QED
      BY <1>2, <2>1, <2>2, <3>1, RunsMore
  <2> QED
    BY <2>2, <2>3 DEF SentLines, Runs
<1>12. OneEach(m2)
  BY <1>1 DEF OneEach, SameCounts
<1>13. Seen(m2) = Seen(m) /\ TooLong(m2) = TooLong(m)
  BY DEF Seen, TooLong, SameCounts
<1>14. InOrder(m2)
  <2>1. CASE TooLong(m)
    <3>1. PICK i \in 1..Len(m.asked) : Len(NoCR(m.asked[i])) >= LineSize
      BY <1>1, <2>1 DEF InOrder
    <3>2. i \in 1..Len(m2.asked) /\ m2.asked[i] = m.asked[i]
      BY <1>9, <3>1
    <3> QED
      BY <1>13, <2>1, <3>1, <3>2 DEF InOrder
  <2>2. CASE ~TooLong(m)
    <3>1. Seen(m) \o NoCR(m.net) = m.sent
      BY <1>1, <2>2 DEF InOrder
    <3>2. Seen(m) \in Seq(Byte) /\ NoCR(m.net) \in Seq(Byte)
      BY <1>1, SeenBytes
    <3>3. PICK e \in Seq(Byte) : e = Append(NoCR(req), LF)
      BY <1>5
    <3>4. Seen(m) \o (NoCR(m.net) \o e) = (Seen(m) \o NoCR(m.net)) \o e
      BY <3>2, Assoc, Zenon DEF Associates
    <3>5. Seen(m2) \o NoCR(m2.net) = m2.sent
      BY <1>7, <1>13, <3>1, <3>3, <3>4, Zenon
    <3> QED
      BY <1>13, <2>2, <3>5 DEF InOrder
  <2> QED
    BY <2>1, <2>2
<1> QED
  BY <1>10, <1>11, <1>12, <1>14 DEF Streams

\* recv: n bytes come in.
LEMMA StreamsReceived ==
  ASSUME NEW m, NEW m2, Streams(m), SameCounts(m, m2), m2.left = m.left, m2.rst = m.rst,
         m2.line = m.line, m2.served = m.served, m2.sent = m.sent, m2.asked = m.asked,
         NEW n \in 1..Len(m.net), m.rst = FALSE, m.inbuf = <<>>, n <= InSize,
         m2.inbuf = m.inbuf \o SubSeq(m.net, 1, n),
         m2.net = SubSeq(m.net, n + 1, Len(m.net))
  PROVE  Streams(m2)
<1>1. Typed(m) /\ SentLines(m) /\ InOrder(m) /\ OneEach(m)
  BY DEF Streams
<1>2. m.net \in Seq(Byte) /\ Len(m.net) \in Nat
  BY <1>1 DEF Typed
<1>3. PICK net \in Seq(Byte) : net = m.net
  BY <1>2
<1>4. /\ SubSeq(net, 1, n) \in Seq(Byte) /\ Len(SubSeq(net, 1, n)) = n
      /\ SubSeq(net, n + 1, Len(net)) \in Seq(Byte)
  <2>1. n \in 1..Len(net) /\ Len(net) \in Nat
    BY <1>2, <1>3
  <2>2. \A i \in 1..Len(net) : net[i] \in Byte
    BY ElementOfSeq
  <2>3. \A i \in 1..n : net[i] \in Byte
    BY <2>1, <2>2
  <2>4. \A i \in (n + 1)..Len(net) : net[i] \in Byte
    BY <2>1, <2>2
  <2>5. SubSeq(net, 1, n) \in Seq(Byte) /\ Len(SubSeq(net, 1, n)) = n
    BY <2>1, <2>3, SubSeqProperties
  <2>6. SubSeq(net, n + 1, Len(net)) \in Seq(Byte)
    BY <2>1, <2>4, SubSeqProperties
  <2> QED
    BY <2>5, <2>6
<1>5. SubSeq(net, 1, n) \o SubSeq(net, n + 1, Len(net)) = net
  <2>1. n \in 1..Len(net) /\ Len(net) \in Nat
    BY <1>2, <1>3
  <2>2. 1 \in 1..(Len(net) + 1) /\ n \in (1 - 1)..Len(net) /\ Len(net) \in n..Len(net)
    BY <2>1
  <2>3. SubSeq(net, 1, n) \o SubSeq(net, n + 1, Len(net)) = SubSeq(net, 1, Len(net))
    BY <2>2, ConcatAdjacentSubSeq
  <2> QED
    BY <2>3, SubSeqFull
<1>6. PICK x \in Seq(Byte) : x = SubSeq(net, 1, n)
  BY <1>4
<1>7. PICK y \in Seq(Byte) : y = SubSeq(net, n + 1, Len(net))
  BY <1>4
<1>8. m2.inbuf = x /\ m2.net = y /\ m.net = x \o y /\ Len(x) = n
  <2>1. <<>> \o x = x
    BY ConcatEmptySeq
  <2> QED
    BY <1>3, <1>4, <1>5, <1>6, <1>7, <2>1
<1>9. Typed(m2)
  BY <1>1, <1>8, SizesAssumption DEF Typed, SameCounts
<1>10. SentLines(m2) /\ OneEach(m2)
  BY <1>1 DEF SentLines, OneEach, SameCounts
<1>11. TooLong(m2) = TooLong(m)
  BY DEF TooLong, SameCounts
<1>12. Seen(m2) = Seen(m) \o NoCR(x)
  <2>1. NoCR(m.inbuf) = <<>>
    BY NoCREmpty
  <2>2. Seen(m) = m.served \o m.line
    <3>1. m.served \in Seq(Byte) /\ m.line \in Seq(Byte)
      BY <1>1, ByteFacts, SeqMonotonic DEF Typed
    <3>2. m.served \o m.line \in Seq(Byte)
      BY <3>1, Joins, Zenon
    <3>3. PICK q \in Seq(Byte) : q = m.served \o m.line
      BY <3>2
    <3>4. q \o <<>> = q
      BY ConcatEmptySeq
    <3> QED
      BY <2>1, <3>3, <3>4, Zenon DEF Seen
  <2> QED
    BY <1>8, <2>2, Zenon DEF Seen
<1>13. InOrder(m2)
  <2>1. CASE TooLong(m)
    BY <1>1, <1>11, <2>1 DEF InOrder
  <2>2. CASE ~TooLong(m)
    <3>1. Seen(m) \o NoCR(m.net) = m.sent
      BY <1>1, <2>2 DEF InOrder
    <3>2. Seen(m) \in Seq(Byte) /\ NoCR(x) \in Seq(Byte) /\ NoCR(y) \in Seq(Byte)
      BY <1>1, SeenBytes, NoCRWords
    <3>3. NoCR(m.net) = NoCR(x) \o NoCR(y)
      <4>1. NoCR(x \o y) = NoCR(x) \o NoCR(y)
        BY NoCRConcat
      <4> QED
        BY <1>8, <4>1
    <3>4. (Seen(m) \o NoCR(x)) \o NoCR(y) = Seen(m) \o (NoCR(x) \o NoCR(y))
      <4>1. Associates(Seen(m), NoCR(x), NoCR(y))
        BY <3>2, Assoc, Zenon
      <4> QED
        BY <4>1, Zenon DEF Associates
    <3>5. Seen(m2) \o NoCR(m2.net) = m2.sent
      BY <1>8, <1>12, <3>1, <3>3, <3>4, Zenon
    <3> QED
      BY <1>11, <2>2, <3>5 DEF InOrder
  <2> QED
    BY <2>1, <2>2
<1> QED
  BY <1>9, <1>10, <1>13 DEF Streams

\* The response is sent.
LEMMA StreamsSent ==
  ASSUME NEW m, NEW m2, Streams(m), SameInput(m, m2), m2.failures = m.failures,
         m2.locked = m.locked, m2.answers = m.answers, m2.got = m.got + 1, m.left > 0, m2.left = 0
  PROVE  Streams(m2)
<1>1. Typed(m2)
  BY SizesAssumption DEF Streams, Typed, SameInput
<1>2. SentLines(m2) /\ InOrder(m2)
  BY InputKept DEF Streams
<1>3. OneEach(m2)
  BY DEF Streams, Typed, OneEach, SameInput
<1> QED
  BY <1>1, <1>2, <1>3 DEF Streams

\* in_buf is read to its end.
LEMMA StreamsGathered ==
  ASSUME NEW m, NEW m2, Streams(m), SameCounts(m, m2), m2.left = m.left, m2.rst = m.rst,
         m2.net = m.net, m2.served = m.served, m2.sent = m.sent, m2.asked = m.asked,
         Stop(m) = 0, m2.line = m.line \o NoCR(m.inbuf), m2.inbuf = <<>>
  PROVE  Streams(m2)
<1>1. Typed(m) /\ SentLines(m) /\ InOrder(m) /\ OneEach(m)
  BY DEF Streams
<1>2. /\ m.inbuf \in Seq(Byte) /\ m.line \in Seq(Text) /\ Len(m.line) < LineSize
      /\ m.served \in Seq(Byte)
  BY <1>1 DEF Typed
<1>3. PICK b \in Seq(Byte) : b = m.inbuf
  BY <1>2
<1>4. (\A i \in 1..Len(b) : b[i] # LF) /\ Len(m.line) + Len(NoCR(b)) < LineSize
  BY <1>2, <1>3, StopIs
<1>5. NoCR(b) \in Seq(Text)
  BY <1>4, WordsOf
<1>6. PICK n \in Seq(Text) : n = NoCR(b)
  BY <1>5
<1>7. m2.line = m.line \o n /\ m2.line \in Seq(Text) /\ Len(m2.line) < LineSize
  <2>1. PICK l \in Seq(Text) : l = m.line
    BY <1>2
  <2>2. l \o n \in Seq(Text) /\ Len(l \o n) = Len(l) + Len(n)
    BY ConcatProperties
  <2> QED
    BY <1>3, <1>4, <1>6, <2>1, <2>2
<1>8. Typed(m2)
  <2>1. <<>> \in Seq(Byte) /\ Len(<<>>) <= InSize
    BY SizesAssumption
  <2> QED
    BY <1>1, <1>7, <2>1 DEF Typed, SameCounts
<1>9. SentLines(m2) /\ OneEach(m2)
  BY <1>1 DEF SentLines, OneEach, SameCounts
<1>10. TooLong(m2) = TooLong(m)
  BY DEF TooLong, SameCounts
<1>11. Seen(m2) = Seen(m)
  <2>1. m.line \in Seq(Byte) /\ n \in Seq(Byte)
    BY <1>2, ByteFacts, SeqMonotonic
  <2>2. (m.served \o m.line) \o n = m.served \o (m.line \o n)
    BY <1>2, <2>1, Assoc, Zenon DEF Associates
  <2>3. m.line \o n \in Seq(Byte)
    BY <2>1, Joins, Zenon
  <2>4. m.served \o (m.line \o n) \in Seq(Byte)
    BY <1>2, <2>3, Joins, Zenon
  <2>5. PICK q \in Seq(Byte) : q = m.served \o (m.line \o n)
    BY <2>4
  <2>6. q \o <<>> = q
    BY ConcatEmptySeq
  <2>7. Seen(m2) = q \o <<>>
    BY <1>7, <2>5, NoCREmpty, Zenon DEF Seen
  <2> QED
    BY <1>3, <1>6, <2>2, <2>5, <2>6, <2>7, Zenon DEF Seen
<1>12. InOrder(m2)
  BY <1>1, <1>10, <1>11 DEF InOrder
<1> QED
  BY <1>8, <1>9, <1>12 DEF Streams

\* A line more among those handled.
LEMMA ServedMore ==
  ASSUME NEW served \in Seq(Byte), NEW words \in Seq(Text)
  PROVE  /\ served \o Append(words, LF) \in Seq(Byte)
         /\ Cardinality(Places(served, LF)) \in Nat
         /\ Cardinality(Places(served \o Append(words, LF), LF))
              = Cardinality(Places(served, LF)) + 1
<1>1. LF \in Byte /\ LF \notin Text /\ Text \subseteq Byte
  BY ByteFacts
<1>2. words \in Seq(Byte)
  BY <1>1, SeqMonotonic
<1>3. /\ Append(words, LF) \in Seq(Byte) /\ Len(Append(words, LF)) = Len(words) + 1
      /\ Append(words, LF)[Len(words) + 1] = LF
      /\ \A i \in 1..Len(words) : Append(words, LF)[i] = words[i]
  BY <1>1, <1>2, AppendProperties
<1>4. \A i \in 1..Len(words) : words[i] \in Text
  BY ElementOfSeq
<1>5. PICK e \in Seq(Byte) : e = Append(words, LF)
  BY <1>3
<1>6. /\ Len(e) = Len(words) + 1 /\ e[Len(words) + 1] = LF /\ Len(words) \in Nat
      /\ \A i \in 1..Len(words) : e[i] # LF
  BY <1>1, <1>3, <1>4, <1>5
<1>7. /\ served \o e \in Seq(Byte)
      /\ Len(served \o e) = Len(served) + Len(e) /\ Len(served) \in Nat
      /\ \A i \in 1..(Len(served) + Len(e)) :
            (served \o e)[i] = IF i <= Len(served) THEN served[i] ELSE e[i - Len(served)]
  BY ConcatProperties
<1>8. PICK b \in Seq(Byte) : b = served \o e
  BY <1>7
<1>9. /\ Len(b) = Len(served) + Len(words) + 1
      /\ \A i \in 1..Len(served) : b[i] = served[i]
      /\ b[Len(b)] = LF
      /\ \A i \in (Len(served) + 1)..(Len(b) - 1) : b[i] = e[i - Len(served)]
  BY <1>6, <1>7, <1>8
<1>10. \A i \in (Len(served) + 1)..(Len(b) - 1) : i - Len(served) \in 1..Len(words)
  BY <1>6, <1>7, <1>9
<1>11. \A i \in (Len(served) + 1)..(Len(b) - 1) : b[i] # LF
  BY <1>6, <1>9, <1>10
<1>12. Len(served) < Len(b)
  BY <1>6, <1>7, <1>9
<1>13. /\ Cardinality(Places(served, LF)) \in Nat
       /\ Cardinality(Places(b, LF)) = Cardinality(Places(served, LF)) + 1
  <2>1. EndsIn(served, b, LF)
    BY <1>9, <1>11, <1>12 DEF EndsIn
  <2>2. CountsOne(served, b, LF)
    BY <2>1, OneMorePlace
  <2> QED
    BY <2>2 DEF CountsOne
<1> QED
  BY <1>5, <1>7, <1>8, <1>13

\* A piece without an LF of what was seen was sent in one request.
Inside(seen, sent, served, words, c, r) ==
    /\ c # LF /\ seen = (served \o Append(words, c)) \o r
    /\ Len(seen) <= Len(sent) /\ \A x \in 1..Len(seen) : sent[x] = seen[x]

LEMMA RunInside ==
  ASSUME NEW sent \in Seq(Byte), NEW asked, Runs(sent, asked),
         NEW served \in Seq(Byte), NEW words \in Seq(Text), NEW c \in Byte,
         NEW r \in Seq(Byte), NEW seen \in Seq(Byte), Inside(seen, sent, served, words, c, r)
  PROVE  \E k \in 1..Len(asked) : Len(NoCR(asked[k])) >= Len(words) + 1
<1>0. /\ c # LF /\ seen = (served \o Append(words, c)) \o r
      /\ Len(seen) <= Len(sent) /\ \A x \in 1..Len(seen) : sent[x] = seen[x]
  BY DEF Inside
<1>1. LF \notin Text /\ Text \subseteq Byte
  BY ByteFacts
<1>2. words \in Seq(Byte)
  BY <1>1, SeqMonotonic
<1>3. /\ Append(words, c) \in Seq(Byte) /\ Len(Append(words, c)) = Len(words) + 1
      /\ Append(words, c)[Len(words) + 1] = c
      /\ \A i \in 1..Len(words) : Append(words, c)[i] = words[i]
  BY <1>2, AppendProperties
<1>4. \A i \in 1..Len(words) : words[i] \in Text
  BY ElementOfSeq
<1>5. PICK e \in Seq(Byte) : e = Append(words, c)
  BY <1>3
<1>6. Len(e) = Len(words) + 1 /\ Len(words) \in Nat /\ \A i \in 1..Len(e) : e[i] # LF
  <2>0. Len(words) \in Nat
    BY <1>2, LenProperties
  <2>1. \A i \in 1..(Len(words) + 1) : i \in 1..Len(words) \/ i = Len(words) + 1
    BY <2>0
  <2> QED
    BY <1>0, <1>1, <1>3, <1>4, <1>5, <2>0, <2>1
<1>7. /\ served \o e \in Seq(Byte)
      /\ Len(served \o e) = Len(served) + Len(e) /\ Len(served) \in Nat
      /\ \A i \in 1..(Len(served) + Len(e)) :
            (served \o e)[i] = IF i <= Len(served) THEN served[i] ELSE e[i - Len(served)]
  BY ConcatProperties
<1>8. PICK q \in Seq(Byte) : q = served \o e
  BY <1>7
<1>9. /\ Len(q \o r) = Len(q) + Len(r) /\ Len(r) \in Nat
      /\ \A i \in 1..(Len(q) + Len(r)) : (q \o r)[i] = IF i <= Len(q) THEN q[i] ELSE r[i - Len(q)]
  BY ConcatProperties
<1>10. seen = q \o r
  BY <1>0, <1>5, <1>8
<1> DEFINE i == Len(served) + 1
           j == Len(served) + Len(e)
<1>11. /\ i \in 1..Len(sent) /\ j \in 1..Len(sent) /\ i <= j /\ j - i + 1 = Len(words) + 1
       /\ Len(seen) = Len(served) + Len(e) + Len(r)
  <2>1. Len(seen) = Len(served) + Len(e) + Len(r) /\ Len(sent) \in Nat
    BY <1>7, <1>8, <1>9, <1>10
  <2> QED
    BY <1>0, <1>6, <1>7, <1>9, <2>1
<1>12. \A x \in i..j : /\ x \in 1..Len(seen) /\ x \in 1..(Len(q) + Len(r)) /\ x <= Len(q)
                       /\ x \in 1..(Len(served) + Len(e)) /\ ~(x <= Len(served))
                       /\ x - Len(served) \in 1..Len(e)
  BY <1>6, <1>7, <1>8, <1>9, <1>11
<1> HIDE DEF i, j
<1>13. \A x \in i..j : sent[x] = e[x - Len(served)]
  BY <1>0, <1>7, <1>8, <1>9, <1>10, <1>12
<1>14. \A x \in i..j : sent[x] # LF
  BY <1>6, <1>12, <1>13
<1>15. \E k \in 1..Len(asked) : Len(NoCR(asked[k])) >= j - i + 1
  BY <1>11, <1>14 DEF Runs
<1> QED
  BY <1>11, <1>15

\* The session m2 is m without the bytes up to where the loop stopped.
TakenFrom(m, m2) ==
    /\ Stop(m) # 0 /\ m.left = 0 /\ m2.left = OutLen /\ m2.got = m.got
    /\ m2.net = m.net /\ m2.rst = m.rst /\ m2.sent = m.sent /\ m2.asked = m.asked
    /\ m2.line = <<>> /\ m2.inbuf = SubSeq(m.inbuf, Stop(m) + 1, Len(m.inbuf))
    /\ m2.failures <= IF m2.locked THEN MaxAuthFailures ELSE MaxAuthFailures - 1

LineWords(m) == m.line \o NoCR(SubSeq(m.inbuf, 1, Stop(m) - 1))

LEMMA StopTakes ==
  ASSUME NEW m, NEW m2, Typed(m), TakenFrom(m, m2)
  PROVE  /\ Stop(m) \in 1..Len(m.inbuf) /\ m.inbuf[Stop(m)] \in Byte /\ m.inbuf[Stop(m)] # CR
         /\ LineWords(m) \in Seq(Text)
         /\ m.inbuf[Stop(m)] # LF => Len(LineWords(m)) + 1 >= LineSize
         /\ m2.inbuf \in Seq(Byte) /\ Len(m2.inbuf) <= InSize
         /\ m.served \o Append(LineWords(m), m.inbuf[Stop(m)]) \in Seq(Byte)
         /\ Seen(m) = (m.served \o Append(LineWords(m), m.inbuf[Stop(m)])) \o NoCR(m2.inbuf)
<1>1. /\ m.inbuf \in Seq(Byte) /\ m.line \in Seq(Text) /\ Len(m.line) < LineSize
      /\ m.served \in Seq(Byte) /\ Len(m.inbuf) <= InSize
  BY DEF Typed
<1>2. PICK b \in Seq(Byte) : b = m.inbuf
  BY <1>1
<1>3. PICK line \in Seq(Text) : line = m.line
  BY <1>1
<1>4. PICK served \in Seq(Byte) : served = m.served
  BY <1>1
<1>5. PICK k : k = Stop(m)
  OBVIOUS
<1>6. k # 0
  BY <1>5 DEF TakenFrom
<1>7. /\ k \in 1..Len(b) /\ Halts(b, Len(line), k) /\ \A i \in 1..(k - 1) : b[i] # LF
  BY <1>1, <1>2, <1>3, <1>5, <1>6, StopIs
<1>8. b[k] # CR /\ b[k] \in Byte
  BY <1>7, ByteFacts, ElementOfSeq DEF Halts
<1> DEFINE words == line \o NoCR(SubSeq(b, 1, k - 1))
           rest == SubSeq(b, k + 1, Len(b))
<1>9. /\ words \in Seq(Text) /\ rest \in Seq(Byte) /\ Len(rest) <= Len(b)
      /\ Append(words, b[k]) \in Seq(Byte)
      /\ served \o line \o NoCR(b) = (served \o Append(words, b[k])) \o NoCR(rest)
  BY <1>7, <1>8, LineTaken
<1>10. LineWords(m) = words /\ m2.inbuf = rest
  BY <1>2, <1>3, <1>5, Zenon DEF LineWords, TakenFrom
<1>11. b[k] # LF => Len(words) + 1 >= LineSize
  <2>1. SUFFICES ASSUME b[k] # LF PROVE Len(words) + 1 >= LineSize
    OBVIOUS
  <2>2. PICK p \in Seq(Byte) : p = SubSeq(b, 1, k - 1)
    BY <1>7, Pieces
  <2>3. Len(line) + Len(NoCR(p)) + 1 >= LineSize
    BY <1>7, <2>1, <2>2 DEF Halts
  <2>4. NoCR(p) \in Seq(Byte) /\ line \in Seq(Byte)
    BY NoCRWords, ByteFacts, SeqMonotonic
  <2>5. PICK n \in Seq(Byte) : n = NoCR(p)
    BY <2>4
  <2>6. PICK l \in Seq(Byte) : l = line
    BY <2>4
  <2>7. Len(l \o n) = Len(l) + Len(n)
    BY ConcatProperties
  <2>8. words = l \o n
    BY <2>2, <2>5, <2>6
  <2> HIDE DEF words
  <2> QED
    BY <2>3, <2>5, <2>6, <2>7, <2>8
<1>12. served \o Append(words, b[k]) \in Seq(Byte)
  <2> HIDE DEF words
  <2> QED
    BY <1>9, Joins, Zenon
<1>13. Seen(m) = served \o line \o NoCR(b)
  BY <1>2, <1>3, <1>4, Zenon DEF Seen
<1>14. Len(rest) <= InSize
  <2> HIDE DEF rest
  <2>1. Len(rest) \in Nat /\ Len(b) \in Nat /\ InSize \in Nat
    BY <1>9, LenProperties, SizesAssumption
  <2> QED
    BY <1>1, <1>2, <1>9, <2>1
<1> HIDE DEF words, rest
<1> QED
  BY <1>2, <1>4, <1>5, <1>7, <1>8, <1>9, <1>10, <1>11, <1>12, <1>13, <1>14, Zenon

\* A line is handled and answered.
LEMMA StreamsServed ==
  ASSUME NEW m, NEW m2, Streams(m), TakenFrom(m, m2), m.inbuf[Stop(m)] = LF,
         m2.served = m.served \o Append(LineWords(m), LF),
         m.answers \in Seq(Answers), NEW say \in Answers, say # LineTooLong,
         m2.answers = Append(m.answers, say)
  PROVE  Streams(m2)
<1>1. Typed(m) /\ SentLines(m) /\ InOrder(m) /\ OneEach(m)
  BY DEF Streams
<1>2. /\ LineWords(m) \in Seq(Text) /\ m2.inbuf \in Seq(Byte) /\ Len(m2.inbuf) <= InSize
      /\ m2.served \in Seq(Byte)
      /\ Seen(m) = m2.served \o NoCR(m2.inbuf)
  BY <1>1, StopTakes
<1>3. Typed(m2)
  <2>1. <<>> \in Seq(Text) /\ Len(<<>>) < LineSize /\ OutLen <= OutLen
    BY SizesAssumption
  <2> QED
    BY <1>1, <1>2, <2>1 DEF Typed, TakenFrom
<1>4. SentLines(m2)
  <2>1. m2.sent = m.sent /\ m2.asked = m.asked
    BY DEF TakenFrom
  <2> QED
    BY <1>1, <2>1 DEF SentLines
<1>5. Seen(m2) = Seen(m)
  <2>1. PICK q \in Seq(Byte) : q = m2.served
    BY <1>2
  <2>2. q \o <<>> = q
    BY ConcatEmptySeq
  <2>3. m2.line = <<>>
    BY DEF TakenFrom
  <2> QED
    BY <1>2, <2>1, <2>2, <2>3, Zenon DEF Seen
<1>6. Places(m2.answers, LineTooLong) = Places(m.answers, LineTooLong)
  BY NoMorePlace
<1>7. InOrder(m2)
  <2>1. TooLong(m2) = TooLong(m)
    BY <1>6 DEF TooLong
  <2> QED
    BY <1>1, <1>5, <2>1 DEF InOrder, TakenFrom
<1>8. OneEach(m2)
  <2>1. PICK served \in Seq(Byte) : served = m.served
    BY <1>1 DEF Typed
  <2>2. PICK words \in Seq(Text) : words = LineWords(m)
    BY <1>2
  <2>3. /\ Cardinality(Places(served, LF)) \in Nat
        /\ Cardinality(Places(served \o Append(words, LF), LF)) = Cardinality(Places(served, LF)) + 1
    BY ServedMore
  <2>4. /\ Cardinality(Places(m.served, LF)) \in Nat
        /\ Cardinality(Places(m2.served, LF)) = Cardinality(Places(m.served, LF)) + 1
    BY <2>1, <2>2, <2>3, Zenon
  <2>5. Len(m2.answers) = Len(m.answers) + 1 /\ Len(m.answers) \in Nat
    BY AppendProperties, LenProperties
  <2>6. m.got + 0 = Len(m.answers)
    BY <1>1 DEF OneEach, TakenFrom
  <2>7. m2.left > 0 /\ m.left = 0 /\ m2.got = m.got /\ m.got \in Nat
    BY <1>1, SizesAssumption DEF TakenFrom, Typed
  <2> DEFINE x == Cardinality(Places(m.served, LF))
             y == Cardinality(Places(m.answers, LineTooLong))
             x2 == Cardinality(Places(m2.served, LF))
             y2 == Cardinality(Places(m2.answers, LineTooLong))
  <2>8. x + y = Len(m.answers)
    BY <1>1 DEF OneEach
  <2>9. x2 = x + 1 /\ y2 = y /\ x \in Nat
    BY <1>6, <2>4, Zenon
  <2>9a. y \in Nat
    BY PlacesCounted
  <2> HIDE DEF x, y, x2, y2
  <2>10. x2 + y2 = Len(m2.answers) /\ m2.got + 1 = Len(m2.answers)
    BY <2>5, <2>6, <2>7, <2>8, <2>9, <2>9a
  <2> QED
    BY <2>7, <2>10 DEF OneEach, x2, y2
<1> QED
  BY <1>3, <1>4, <1>7, <1>8 DEF Streams

\* The line has no room for the byte.
LEMMA StreamsTooLong ==
  ASSUME NEW m, NEW m2, Streams(m), TakenFrom(m, m2), m.inbuf[Stop(m)] # LF, m.rst \in BOOLEAN,
         m2.served = m.served, m.answers \in Seq(Answers), LineTooLong \in Answers,
         m2.answers = Append(m.answers, LineTooLong)
  PROVE  Streams(m2)
<1> DEFINE c == m.inbuf[Stop(m)]
           words == LineWords(m)
<1>1. Typed(m) /\ SentLines(m) /\ InOrder(m) /\ OneEach(m)
  BY DEF Streams
<1>2. /\ words \in Seq(Text) /\ m2.inbuf \in Seq(Byte) /\ Len(m2.inbuf) <= InSize
      /\ Seen(m) = (m.served \o Append(words, c)) \o NoCR(m2.inbuf)
      /\ Len(words) + 1 >= LineSize /\ c \in Byte /\ c # LF
  BY <1>1, StopTakes
<1>3. Typed(m2)
  <2>1. <<>> \in Seq(Text) /\ Len(<<>>) < LineSize /\ OutLen <= OutLen
    BY SizesAssumption
  <2> QED
    BY <1>1, <1>2, <2>1 DEF Typed, TakenFrom
<1>4. SentLines(m2)
  <2>1. m2.sent = m.sent /\ m2.asked = m.asked
    BY DEF TakenFrom
  <2> QED
    BY <1>1, <2>1 DEF SentLines
<1>5. /\ Len(m2.answers) = Len(m.answers) + 1 /\ Len(m.answers) \in Nat
      /\ CountsOne(m.answers, m2.answers, LineTooLong)
  <2>1. PICK a \in Seq(Answers) : a = m.answers
    OBVIOUS
  <2>2. /\ Append(a, LineTooLong) \in Seq(Answers) /\ Len(Append(a, LineTooLong)) = Len(a) + 1
        /\ \A i \in 1..Len(a) : Append(a, LineTooLong)[i] = a[i]
        /\ Append(a, LineTooLong)[Len(a) + 1] = LineTooLong
    BY AppendProperties
  <2>3. PICK b \in Seq(Answers) : b = Append(a, LineTooLong)
    BY <2>2
  <2>4. Len(a) \in Nat /\ Len(b) = Len(a) + 1
    BY <2>2, <2>3, LenProperties
  <2>5. EndsIn(a, b, LineTooLong)
    BY <2>2, <2>3, <2>4 DEF EndsIn
  <2>6. CountsOne(a, b, LineTooLong)
    BY <2>5, OneMorePlace
  <2> QED
    BY <2>1, <2>3, <2>4, <2>6, Zenon
<1>6. TooLong(m2)
  BY <1>5 DEF TooLong, CountsOne
<1>7. \E i \in 1..Len(m.asked) : Len(NoCR(m.asked[i])) >= LineSize
  <2>1. CASE TooLong(m)
    BY <1>1, <2>1 DEF InOrder
  <2>2. CASE ~TooLong(m)
    <3>1. Seen(m) \in Seq(Byte) /\ NoCR(m.net) \in Seq(Byte) /\ m.sent \in Seq(Byte)
      BY <1>1, SeenBytes DEF Typed
    <3>2. PICK seen \in Seq(Byte) : seen = Seen(m)
      BY <3>1
    <3>3. PICK sent \in Seq(Byte) : sent = m.sent
      BY <3>1
    <3>4. Len(seen) <= Len(sent) /\ seen = SubSeq(sent, 1, Len(seen))
      <4>1. CASE m.rst
        BY <1>1, <2>2, <3>2, <3>3, <4>1 DEF InOrder
      <4>2. CASE ~m.rst
        <5>1. Seen(m) \o NoCR(m.net) = m.sent
          BY <1>1, <2>2, <4>2 DEF InOrder
        <5>2. Prefix(Seen(m), NoCR(m.net))
          BY <3>1, PrefixOfConcat, Zenon
        <5> QED
          BY <3>2, <3>3, <5>1, <5>2, Zenon DEF Prefix
      <4> QED
        BY <4>1, <4>2
    <3>5. \A x \in 1..Len(seen) : sent[x] = seen[x]
      <4>1. Len(seen) \in Nat /\ Len(sent) \in Nat /\ \A i \in 1..Len(sent) : sent[i] \in Byte
        BY LenProperties, ElementOfSeq
      <4>2. \A i \in 1..Len(seen) : sent[i] \in Byte
        BY <3>4, <4>1
      <4>3. PICK q : q = SubSeq(sent, 1, Len(seen))
        OBVIOUS
      <4>4. \A i \in 1..Len(seen) : q[i] = sent[i]
        BY <4>1, <4>2, <4>3, SubSeqProperties
      <4> QED
        BY <3>4, <4>3, <4>4
    <3>6. PICK served \in Seq(Byte) : served = m.served
      BY <1>1 DEF Typed
    <3>7. PICK w \in Seq(Text) : w = words
      BY <1>2
    <3>8. PICK r \in Seq(Byte) : r = NoCR(m2.inbuf)
      BY <1>2, NoCRWords
    <3>9. seen = (served \o Append(w, c)) \o r
      BY <1>2, <3>2, <3>6, <3>7, <3>8, Zenon
    <3>10. Runs(sent, m.asked)
      BY <1>1, <3>3 DEF Runs, SentLines
    <3> HIDE DEF c, words
    <3>11. PICK k \in 1..Len(m.asked) : Len(NoCR(m.asked[k])) >= Len(w) + 1
      <4>1. Inside(seen, sent, served, w, c, r)
        BY <1>2, <3>4, <3>5, <3>9, Zenon DEF Inside
      <4> QED
        BY <1>2, <3>10, <4>1, RunInside
    <3>12. Len(NoCR(m.asked[k])) \in Nat /\ Len(w) \in Nat
      <4>1. m.asked[k] \in Seq(Text \cup {CR})
        BY <1>1 DEF Typed
      <4>2. NoCR(m.asked[k]) \in Seq(Text \cup {CR})
        BY <4>1, NoCRWords
      <4> QED
        BY <4>2, LenProperties
    <3>13. Len(w) + 1 >= LineSize /\ LineSize \in Nat
      BY <1>2, <3>7, SizesAssumption
    <3>14. Len(NoCR(m.asked[k])) >= LineSize
      BY <3>11, <3>12, <3>13
    <3> QED
      BY <3>14
  <2> QED
    BY <2>1, <2>2
<1>8. InOrder(m2)
  BY <1>6, <1>7 DEF InOrder, TakenFrom
<1>9. OneEach(m2)
  <2>1. m.got + 0 = Len(m.answers)
    BY <1>1 DEF OneEach, TakenFrom
  <2>2. m2.left > 0 /\ m.left = 0 /\ m2.got = m.got /\ m.got \in Nat
    BY <1>1, SizesAssumption DEF TakenFrom, Typed
  <2> DEFINE x == Cardinality(Places(m.served, LF))
             y == Cardinality(Places(m.answers, LineTooLong))
             y2 == Cardinality(Places(m2.answers, LineTooLong))
  <2>3. x + y = Len(m.answers)
    BY <1>1 DEF OneEach
  <2>4. y2 = y + 1 /\ y \in Nat
    BY <1>5 DEF CountsOne
  <2>5. x \in Nat
    <3>1. m.served \in Seq(Byte)
      BY <1>1 DEF Typed
    <3> QED
      BY <3>1, PlacesCounted
  <2> HIDE DEF x, y, y2
  <2>6. x + y2 = Len(m2.answers) /\ m2.got + 1 = Len(m2.answers)
    BY <1>5, <2>1, <2>2, <2>3, <2>4, <2>5
  <2> QED
    BY <2>2, <2>6 DEF OneEach, x, y2
<1> QED
  BY <1>3, <1>4, <1>8, <1>9 DEF Streams

-----------------------------------------------------------------------------
\* What a line does to the stores.

UserCalls == {"+OK user set", "-ERR user limit reached", "+OK user deleted", "-ERR user not found"}

UserEffect(us, w, us2, say) ==
    \/ /\ Len(w) = 4 /\ us2 = UsersAdd(us, w[3], w[4])
       /\ say = IF CanAdd(us, w[3]) THEN "+OK user set" ELSE "-ERR user limit reached"
    \/ /\ Len(w) = 3 /\ us2 = UsersDel(us, w[3])
       /\ say = IF FindUser(us, w[3]) # 0 THEN "+OK user deleted" ELSE "-ERR user not found"
    \/ us2 = us /\ say \notin UserCalls

ConfigEffect(cf, cf2) ==
    cf2 = cf \/ \E k \in Keys, v \in Values : cf2 = [cf EXCEPT ![k] = v]

Does(us, cf, w, out) ==
    /\ UserEffect(us, w, out.users, out.say) /\ ConfigEffect(cf, out.config)
    /\ out.say # LineTooLong

LEMMA OutcomeDoes ==
    ASSUME NEW m, NEW us, NEW cf, NEW w, NEW us2, NEW cf2, NEW say,
           UserEffect(us, w, us2, say), ConfigEffect(cf, cf2), say # LineTooLong
    PROVE  Does(us, cf, w, Outcome(m, us2, cf2, say))
BY DEF Does, Outcome

LEMMA PlainDoes ==
    ASSUME NEW m, NEW us, NEW cf, NEW w, NEW say, say \notin UserCalls, say # LineTooLong
    PROVE  Does(us, cf, w, Outcome(m, us, cf, say))
BY DEF Does, Outcome, UserEffect, ConfigEffect

LEMMA AuthDoes ==
    ASSUME NEW m, NEW us, NEW cf, NEW w
    PROVE  Does(us, cf, w, HandleAuth(m, us, cf, w))
<1>1. CASE Len(w) # 2
  <2>1. HandleAuth(m, us, cf, w) = Outcome(m, us, cf, "-ERR usage")
    BY <1>1 DEF HandleAuth
  <2> QED BY <2>1, PlainDoes DEF UserCalls, LineTooLong
<1>2. CASE Len(w) = 2 /\ Secret = ""
  <2>1. HandleAuth(m, us, cf, w) = Outcome(m, us, cf, "-ERR auth required")
    BY <1>2 DEF HandleAuth
  <2> QED BY <2>1, PlainDoes DEF UserCalls, LineTooLong
<1>3. CASE Len(w) = 2 /\ Secret # "" /\ w[2] = Secret
  <2> DEFINE in == [m EXCEPT !.authenticated = TRUE, !.failures = 0]
  <2>1. HandleAuth(m, us, cf, w) = Outcome(in, us, cf, "+OK authenticated")
    BY <1>3 DEF HandleAuth
  <2> HIDE DEF in
  <2> QED BY <2>1, PlainDoes DEF UserCalls, LineTooLong
<1>4. CASE Len(w) = 2 /\ Secret # "" /\ w[2] # Secret
  <2> DEFINE n == m.failures + 1
             lock == n >= MaxAuthFailures
             other == [m EXCEPT !.failures = n, !.locked = @ \/ lock, !.closing = @ \/ lock]
             say == IF lock THEN "-ERR locked" ELSE "-ERR invalid credentials"
  <2>1. HandleAuth(m, us, cf, w) = Outcome(other, us, cf, say)
    BY <1>4 DEF HandleAuth
  <2> HIDE DEF other, lock
  <2>2. say \notin UserCalls /\ say # LineTooLong
    BY DEF UserCalls, LineTooLong
  <2> HIDE DEF say
  <2> QED BY <2>1, <2>2, PlainDoes
<1> QED BY <1>1, <1>2, <1>3, <1>4

LEMMA UserDoes ==
    ASSUME NEW m, NEW us, NEW cf, NEW w
    PROVE  Does(us, cf, w, HandleUser(m, us, cf, w))
<1>1. CASE Word(w, 2) = "SET" /\ Len(w) = 4
  <2> DEFINE say == IF CanAdd(us, w[3]) THEN "+OK user set" ELSE "-ERR user limit reached"
  <2>1. HandleUser(m, us, cf, w) = Outcome(m, UsersAdd(us, w[3], w[4]), cf, say)
    BY <1>1 DEF HandleUser
  <2>2. say # LineTooLong
    BY DEF LineTooLong
  <2>3. UserEffect(us, w, UsersAdd(us, w[3], w[4]), say)
    BY <1>1, Zenon DEF UserEffect
  <2>4. ConfigEffect(cf, cf)
    BY DEF ConfigEffect
  <2> HIDE DEF say
  <2> QED BY <2>1, <2>2, <2>3, <2>4, OutcomeDoes
<1>2. CASE Word(w, 2) = "DELETE" /\ Len(w) = 3
  <2> DEFINE say == IF FindUser(us, w[3]) # 0 THEN "+OK user deleted" ELSE "-ERR user not found"
  <2>1. HandleUser(m, us, cf, w) = Outcome(m, UsersDel(us, w[3]), cf, say)
    BY <1>2 DEF HandleUser
  <2>2. say # LineTooLong
    BY DEF LineTooLong
  <2>3. UserEffect(us, w, UsersDel(us, w[3]), say)
    BY <1>2, Zenon DEF UserEffect
  <2>4. ConfigEffect(cf, cf)
    BY DEF ConfigEffect
  <2> HIDE DEF say
  <2> QED BY <2>1, <2>2, <2>3, <2>4, OutcomeDoes
<1>3. CASE /\ ~(Word(w, 2) = "SET" /\ Len(w) = 4) /\ ~(Word(w, 2) = "DELETE" /\ Len(w) = 3)
           /\ Word(w, 2) \in {"SET", "DELETE", ""}
  <2>1. HandleUser(m, us, cf, w) = Outcome(m, us, cf, "-ERR usage")
    BY <1>3 DEF HandleUser
  <2> QED BY <2>1, PlainDoes DEF UserCalls, LineTooLong
<1>4. CASE Word(w, 2) \notin {"SET", "DELETE", ""}
  <2>1. HandleUser(m, us, cf, w) = Outcome(m, us, cf, "-ERR unknown USER command")
    BY <1>4 DEF HandleUser
  <2> QED BY <2>1, PlainDoes DEF UserCalls, LineTooLong
<1> QED BY <1>1, <1>2, <1>3, <1>4

LEMMA ConfigDoes ==
    ASSUME NEW m, NEW us, NEW cf, NEW w
    PROVE  Does(us, cf, w, HandleConfig(m, us, cf, w))
<1>1. CASE Word(w, 2) = "GET" /\ Len(w) = 2
  <2>1. HandleConfig(m, us, cf, w) = Outcome(m, us, cf, "+OK config")
    BY <1>1 DEF HandleConfig
  <2> QED BY <2>1, PlainDoes DEF UserCalls, LineTooLong
<1>2. CASE Word(w, 2) = "SET" /\ Len(w) = 4
  <2>1. CASE w[4] \notin Values
    <3>1. HandleConfig(m, us, cf, w) = Outcome(m, us, cf, "-ERR invalid value")
      BY <1>2, <2>1 DEF HandleConfig
    <3> QED BY <3>1, PlainDoes DEF UserCalls, LineTooLong
  <2>2. CASE w[4] \in Values /\ w[3] \notin Keys
    <3>1. HandleConfig(m, us, cf, w) = Outcome(m, us, cf, "-ERR unknown config key")
      BY <1>2, <2>2 DEF HandleConfig
    <3> QED BY <3>1, PlainDoes DEF UserCalls, LineTooLong
  <2>3. CASE w[4] \in Values /\ w[3] \in Keys
    <3>1. HandleConfig(m, us, cf, w)
            = Outcome(m, us, [cf EXCEPT ![w[3]] = w[4]], "+OK config set")
      BY <1>2, <2>3 DEF HandleConfig
    <3>2. "+OK config set" \notin UserCalls /\ "+OK config set" # LineTooLong
      BY DEF UserCalls, LineTooLong
    <3>3. ConfigEffect(cf, [cf EXCEPT ![w[3]] = w[4]])
      BY <2>3, Zenon DEF ConfigEffect
    <3>4. UserEffect(us, w, us, "+OK config set")
      BY <3>2, Zenon DEF UserEffect
    <3> QED BY <3>1, <3>2, <3>3, <3>4, OutcomeDoes, Zenon
  <2> QED BY <2>1, <2>2, <2>3
<1>3. CASE /\ ~(Word(w, 2) = "GET" /\ Len(w) = 2) /\ ~(Word(w, 2) = "SET" /\ Len(w) = 4)
           /\ Word(w, 2) \in {"GET", "SET", ""}
  <2>1. HandleConfig(m, us, cf, w) = Outcome(m, us, cf, "-ERR usage")
    BY <1>3 DEF HandleConfig
  <2> QED BY <2>1, PlainDoes DEF UserCalls, LineTooLong
<1>4. CASE Word(w, 2) \notin {"GET", "SET", ""}
  <2>1. HandleConfig(m, us, cf, w) = Outcome(m, us, cf, "-ERR unknown CONFIG command")
    BY <1>4 DEF HandleConfig
  <2> QED BY <2>1, PlainDoes DEF UserCalls, LineTooLong
<1> QED BY <1>1, <1>2, <1>3, <1>4

LEMMA LineDoes ==
    ASSUME NEW m, NEW us, NEW cf, NEW w, IsSession(m), ~m.locked
    PROVE  Does(us, cf, w, HandleLine(m, us, cf, w))
<1> DEFINE cmd == Word(w, 1)
           line == HandleLine(m, us, cf, w)
<1>1. CASE cmd = ""
  <2>1. line = Outcome(m, us, cf, "-ERR empty command")
    BY <1>1 DEF HandleLine
  <2> QED BY <2>1, PlainDoes DEF UserCalls, LineTooLong
<1>2. CASE cmd = "AUTH"
  <2>1. line = HandleAuth(m, us, cf, w)
    BY <1>2 DEF HandleLine
  <2> QED BY <2>1, AuthDoes
<1>3. CASE cmd = "QUIT"
  <2>1. CASE Len(w) > 1
    <3>1. line = Outcome(m, us, cf, "-ERR usage")
      BY <1>3, <2>1 DEF HandleLine
    <3> QED BY <3>1, PlainDoes DEF UserCalls, LineTooLong
  <2>2. CASE ~(Len(w) > 1)
    <3> DEFINE m2 == [m EXCEPT !.closing = TRUE]
    <3>1. line = Outcome(m2, us, cf, "+OK bye")
      BY <1>3, <2>2 DEF HandleLine
    <3> HIDE DEF m2
    <3> QED BY <3>1, PlainDoes DEF UserCalls, LineTooLong
  <2> QED BY <2>1, <2>2
<1>4. CASE cmd \notin {"", "AUTH", "QUIT"} /\ ~m.authenticated
  <2>1. RequireAuth(m) = "-ERR auth required"
    BY <1>4 DEF RequireAuth
  <2>2. line = Outcome(m, us, cf, "-ERR auth required")
    BY <1>4, <2>1 DEF HandleLine
  <2> QED BY <2>2, PlainDoes DEF UserCalls, LineTooLong
<1>5. CASE cmd \notin {"", "AUTH", "QUIT"} /\ m.authenticated
  <2>1. RequireAuth(m) = ""
    BY <1>5 DEF RequireAuth
  <2>2. line = CASE cmd = "STATS" -> HandleStats(m, us, cf)
                 [] cmd = "USERS" -> HandleUsers(m, us, cf)
                 [] cmd = "USER" -> HandleUser(m, us, cf, w)
                 [] cmd = "CONFIG" -> HandleConfig(m, us, cf, w)
                 [] OTHER -> Outcome(m, us, cf, "-ERR unknown command")
    BY <1>5, <2>1 DEF HandleLine
  <2>3. CASE cmd = "STATS"
    <3>1. line = Outcome(m, us, cf, "+OK stats")
      BY <2>2, <2>3 DEF HandleStats
    <3> QED BY <3>1, PlainDoes DEF UserCalls, LineTooLong
  <2>4. CASE cmd = "USERS"
    <3>1. line = Outcome(m, us, cf, "+OK users")
      BY <2>2, <2>4 DEF HandleUsers
    <3> QED BY <3>1, PlainDoes DEF UserCalls, LineTooLong
  <2>5. CASE cmd = "USER"
    <3>1. line = HandleUser(m, us, cf, w)
      BY <2>2, <2>5
    <3> QED BY <3>1, UserDoes
  <2>6. CASE cmd = "CONFIG"
    <3>1. line = HandleConfig(m, us, cf, w)
      BY <2>2, <2>6
    <3> QED BY <3>1, ConfigDoes
  <2>7. CASE cmd \notin {"STATS", "USERS", "USER", "CONFIG"}
    <3>1. line = Outcome(m, us, cf, "-ERR unknown command")
      BY <2>2, <2>7
    <3> QED BY <3>1, PlainDoes DEF UserCalls, LineTooLong
  <2> QED BY <2>3, <2>4, <2>5, <2>6, <2>7
<1> QED BY <1>1, <1>2, <1>3, <1>4, <1>5

\* What a line may be told: AUTH no success but its own, and a session without
\* the secret no success of the commands that need it.
Guarded == {"STATS", "USERS", "USER", "CONFIG"}

Replies(authenticated, w, say) ==
    /\ Word(w, 1) = "AUTH" /\ IsOK(say) => say = Accepted
    /\ Word(w, 1) \in Guarded /\ ~authenticated => ~IsOK(say)

LEMMA LineReplies ==
    ASSUME NEW m, NEW us, NEW cf, NEW w, IsSession(m), ~m.locked
    PROVE  Replies(m.authenticated, w, HandleLine(m, us, cf, w).say)
<1> DEFINE cmd == Word(w, 1)
           line == HandleLine(m, us, cf, w)
<1>1. CASE cmd = "AUTH"
  <2>1. line = HandleAuth(m, us, cf, w)
    BY <1>1 DEF HandleLine
  <2>2. IsOK(line.say) => line.say = Accepted
    <3>1. CASE Len(w) # 2
      <4>1. line = Outcome(m, us, cf, "-ERR usage")
        BY <2>1, <3>1 DEF HandleAuth
      <4> HIDE DEF line
      <4>2. line.say = "-ERR usage"
        BY <4>1 DEF Outcome
      <4> QED BY <4>2 DEF IsOK
    <3>2. CASE Len(w) = 2 /\ Secret = ""
      <4>1. line = Outcome(m, us, cf, "-ERR auth required")
        BY <2>1, <3>2 DEF HandleAuth
      <4> HIDE DEF line
      <4>2. line.say = "-ERR auth required"
        BY <4>1 DEF Outcome
      <4> QED BY <4>2 DEF IsOK
    <3>3. CASE Len(w) = 2 /\ Secret # "" /\ w[2] = Secret
      <4> DEFINE in == [m EXCEPT !.authenticated = TRUE, !.failures = 0]
      <4>1. line = Outcome(in, us, cf, "+OK authenticated")
        BY <2>1, <3>3 DEF HandleAuth
      <4> HIDE DEF in, line
      <4> QED BY <4>1 DEF Outcome, Accepted
    <3>4. CASE Len(w) = 2 /\ Secret # "" /\ w[2] # Secret
      <4> DEFINE n == m.failures + 1
                 lock == n >= MaxAuthFailures
                 other == [m EXCEPT !.failures = n, !.locked = @ \/ lock, !.closing = @ \/ lock]
                 say == IF lock THEN "-ERR locked" ELSE "-ERR invalid credentials"
      <4>1. line = Outcome(other, us, cf, say)
        BY <2>1, <3>4 DEF HandleAuth
      <4> HIDE DEF other, lock, line
      <4>2. ~IsOK(say)
        BY DEF IsOK
      <4> HIDE DEF say
      <4>3. line.say = say
        BY <4>1 DEF Outcome
      <4> QED BY <4>2, <4>3
    <3> QED BY <3>1, <3>2, <3>3, <3>4
  <2>3. cmd \notin Guarded
    BY <1>1 DEF Guarded
  <2> QED BY <2>2, <2>3 DEF Replies
<1>2. CASE cmd \in Guarded /\ ~m.authenticated
  <2>1. RequireAuth(m) = "-ERR auth required"
    BY <1>2 DEF RequireAuth
  <2>2. cmd \notin {"", "AUTH", "QUIT"}
    BY <1>2 DEF Guarded
  <2>3. line = Outcome(m, us, cf, "-ERR auth required")
    BY <2>1, <2>2 DEF HandleLine
  <2>4. line.say = "-ERR auth required"
    <3> HIDE DEF line
    <3> QED BY <2>3 DEF Outcome
  <2>5. ~IsOK("-ERR auth required")
    BY DEF IsOK
  <2>6. ~IsOK(line.say) /\ cmd # "AUTH"
    BY <2>2, <2>4, <2>5
  <2> QED BY <2>6 DEF Replies
<1> QED BY <1>1, <1>2 DEF Replies

-----------------------------------------------------------------------------
\* mng_process_input.

LEMMA QueueStreams ==
    ASSUME NEW m, IsSession(m), NEW say
    PROVE  /\ SameInput(m, QueueResponse(m, say)) /\ QueueResponse(m, say).got = m.got
           /\ QueueResponse(m, say).left = OutLen
           /\ QueueResponse(m, say).answers = Append(m.answers, say)
           /\ QueueResponse(m, say).failures = m.failures
           /\ QueueResponse(m, say).locked = m.locked
BY DEF IsSession, SameInput, QueueResponse

Within(m) == m.failures <= IF m.locked THEN MaxAuthFailures ELSE MaxAuthFailures - 1

LEMMA HandlesStreams ==
    ASSUME NEW m, IsSession(m), ~m.locked, Within(m), NEW us, NEW cf, NEW m2, NEW us2, NEW cf2,
           NEW say, Handles(m, us, cf, m2, us2, cf2, say)
    PROVE  SameInput(m, m2) /\ m2.got = m.got /\ m2.answers = m.answers /\ Within(m2)
<1>1. m.failures \in Nat /\ m.locked \in BOOLEAN
  BY DEF IsSession
<1>2. m.failures <= 2
  BY <1>1 DEF Within, MaxAuthFailures
<1>3. CASE Ordinarily(m, us, cf, m2, us2, cf2, say)
  BY <1>3 DEF Ordinarily, SameInput
<1>4. CASE Enters(m, m2, say)
  <2>1. m2.failures = 0 /\ m2.locked = m.locked
    BY <1>4 DEF Enters, IsSession
  <2>2. SameInput(m, m2) /\ m2.got = m.got /\ m2.answers = m.answers
    BY <1>4 DEF Enters, IsSession, SameInput
  <2> QED BY <2>1, <2>2 DEF Within, MaxAuthFailures
<1>5. CASE Misses(m, m2, say)
  <2>1. m2.failures = m.failures + 1 /\ m2.locked = m.locked /\ m.failures + 1 < 3
    BY <1>5 DEF Misses, IsSession, MaxAuthFailures
  <2>2. SameInput(m, m2) /\ m2.got = m.got /\ m2.answers = m.answers
    BY <1>5 DEF Misses, IsSession, SameInput
  <2> QED BY <1>1, <2>1, <2>2 DEF Within, MaxAuthFailures
<1>6. CASE Locks(m, m2, say)
  <2>1. m2.failures = m.failures + 1 /\ m2.locked = TRUE
    BY <1>6 DEF Locks, IsSession
  <2>2. SameInput(m, m2) /\ m2.got = m.got /\ m2.answers = m.answers
    BY <1>6 DEF Locks, IsSession, SameInput
  <2> QED BY <1>1, <1>2, <2>1, <2>2 DEF Within, MaxAuthFailures
<1>7. CASE Leaves(m, m2, say)
  <2>1. m2.failures = m.failures /\ m2.locked = m.locked
    BY <1>7 DEF Leaves, IsSession
  <2>2. SameInput(m, m2) /\ m2.got = m.got /\ m2.answers = m.answers
    BY <1>7 DEF Leaves, IsSession, SameInput
  <2> QED BY <1>1, <2>1, <2>2 DEF Within
<1> QED BY <1>3, <1>4, <1>5, <1>6, <1>7 DEF Handles

\* What becomes of a session and of the stores: nothing is answered, a line
\* is handled and answered, or a line is too long.
Tells(m, us, cf, m2, us2, cf2) ==
    /\ Streams(m2) /\ ConfigEffect(cf, cf2) /\ m2.sent = m.sent /\ m2.asked = m.asked
    /\ \/ us2 = us /\ m2.answers = m.answers /\ m2.served = m.served
       \/ us2 = us /\ m2.answers = Append(m.answers, LineTooLong)
       \/ \E say \in Answers, w \in Seq(Text) :
            /\ m2.answers = Append(m.answers, say) /\ say # LineTooLong
            /\ m2.served = m.served \o Append(w, LF)
            /\ UserEffect(us, w, us2, say) /\ Replies(m.authenticated, w, say)

LEMMA ProcessInputTells ==
    ASSUME NEW m, SessionInv(m), m.open, m.left = 0, Streams(m), NEW us, NEW cf
    PROVE  LET out == ProcessInput(m, us, cf)
           IN  Tells(m, us, cf, out.m, out.users, out.config) /\ out.m.got = m.got
<1> DEFINE stop  == Stop(m)
           words == m.line \o NoCR(SubSeq(m.inbuf, 1, stop - 1))
           rest  == Taken(m, stop)
           lined == [rest EXCEPT !.served = @ \o Append(words, LF)]
           out   == HandleLine(lined, us, cf, words)
           more  == [m EXCEPT !.line = @ \o NoCR(m.inbuf), !.inbuf = <<>>]
           done  == ProcessInput(m, us, cf)
<1>1. IsSession(m) /\ m.answers \in Seq(Answers) /\ m.rst \in BOOLEAN
  BY DEF SessionInv, IsSession
<1>1a. ~m.locked /\ ~m.closing
  <2>1. Queued(m)
    BY DEF SessionInv
  <2>2. ~(m.left > 0)
    OBVIOUS
  <2> QED BY <2>1, <2>2 DEF Queued
<1>2. /\ SameCounts(m, more) /\ more.left = m.left /\ more.rst = m.rst /\ more.net = m.net
      /\ more.served = m.served /\ more.sent = m.sent /\ more.asked = m.asked
      /\ more.line = m.line \o NoCR(m.inbuf) /\ more.inbuf = <<>>
  BY <1>1 DEF IsSession, SameCounts
<1>3. /\ IsSession(rest) /\ SameCounts(m, rest) /\ rest.rst = m.rst /\ rest.net = m.net
      /\ rest.served = m.served /\ rest.sent = m.sent /\ rest.asked = m.asked
      /\ rest.line = <<>> /\ rest.inbuf = SubSeq(m.inbuf, stop + 1, Len(m.inbuf))
      /\ rest.closing = m.closing /\ rest.authenticated = m.authenticated
  <2> HIDE DEF stop
  <2> QED BY <1>1 DEF IsSession, SameCounts, Taken
<1>4. /\ IsSession(lined) /\ SameCounts(rest, lined) /\ lined.rst = rest.rst
      /\ lined.net = rest.net /\ lined.sent = rest.sent /\ lined.asked = rest.asked
      /\ lined.line = rest.line /\ lined.inbuf = rest.inbuf
      /\ lined.served = rest.served \o Append(words, LF) /\ lined.closing = rest.closing
      /\ lined.authenticated = rest.authenticated
  <2> HIDE DEF rest, words
  <2> QED BY <1>3 DEF IsSession, SameCounts
<1>5. done = CASE stop = 0 -> Outcome(more, us, cf, "")
               [] stop # 0 /\ m.inbuf[stop] = LF ->
                    [out EXCEPT !.m = QueueResponse(out.m, out.say)]
               [] OTHER -> Outcome(QueueResponse(rest, "-ERR line too long"), us, cf, "")
  BY Zenon DEF ProcessInput
<1>6. ConfigEffect(cf, cf)
  BY DEF ConfigEffect
<1>7. Typed(m) /\ words = LineWords(m)
  BY DEF Streams, LineWords
<1>8. Within(m)
  BY <1>7 DEF Typed, Within
<1> HIDE DEF stop, rest, lined, words, more, out, done
<1>9. CASE stop = 0
  <2>1. done = Outcome(more, us, cf, "")
    BY <1>5, <1>9, Zenon
  <2>2. done.m = more /\ done.users = us /\ done.config = cf
    BY <2>1 DEF Outcome
  <2>3. Streams(more)
    BY <1>2, <1>9, StreamsGathered DEF stop
  <2>4. more.answers = m.answers /\ more.got = m.got
    BY <1>2 DEF SameCounts
  <2> QED BY <1>2, <1>6, <2>2, <2>3, <2>4 DEF Tells, done
<1>10. CASE stop # 0 /\ m.inbuf[stop] = LF
  <2>1. done = [out EXCEPT !.m = QueueResponse(out.m, out.say)]
    BY <1>5, <1>10, Zenon
  <2>2. ~lined.locked /\ ~lined.closing /\ Within(lined)
    BY <1>1a, <1>3, <1>4, <1>8 DEF SameCounts, Within
  <2>3. PICK m2, us2, cf2, say : /\ out = Outcome(m2, us2, cf2, say)
                                 /\ Handles(lined, us, cf, m2, us2, cf2, say)
    BY <1>4, <2>2, LineOutcome DEF out
  <2>4. done.m = QueueResponse(m2, say) /\ done.users = us2 /\ done.config = cf2
    BY <2>1, <2>3 DEF Outcome
  <2>5. /\ UserEffect(us, words, us2, say) /\ ConfigEffect(cf, cf2) /\ say # LineTooLong
    <3>1. Does(us, cf, words, out)
      BY <1>4, <2>2, LineDoes DEF out
    <3>2. out.users = us2 /\ out.config = cf2 /\ out.say = say
      BY <2>3 DEF Outcome
    <3> QED BY <3>1, <3>2 DEF Does
  <2>6. IsSession(m2) /\ say \in Answers
    BY <1>4, <2>3, HandlesFields
  <2>7. SameInput(lined, m2) /\ m2.got = lined.got /\ m2.answers = lined.answers /\ Within(m2)
    BY <1>4, <2>2, <2>3, HandlesStreams
  <2> DEFINE v == QueueResponse(m2, say)
  <2>8. /\ SameInput(m2, v) /\ v.got = m2.got /\ v.left = OutLen
        /\ v.answers = Append(m2.answers, say) /\ v.failures = m2.failures /\ v.locked = m2.locked
    BY <2>6, QueueStreams
  <2> HIDE DEF v
  <2>9. v.answers = Append(m.answers, say) /\ v.served = m.served \o Append(words, LF)
    BY <1>3, <1>4, <2>7, <2>8 DEF SameInput, SameCounts
  <2>10. TakenFrom(m, v)
    <3>1. v.got = m.got
      BY <1>3, <1>4, <2>7, <2>8 DEF SameCounts
    <3>2. /\ v.net = m.net /\ v.rst = m.rst /\ v.sent = m.sent /\ v.asked = m.asked
          /\ v.line = <<>> /\ v.inbuf = SubSeq(m.inbuf, Stop(m) + 1, Len(m.inbuf))
      BY <1>3, <1>4, <2>7, <2>8 DEF SameInput, stop
    <3>3. v.failures <= IF v.locked THEN MaxAuthFailures ELSE MaxAuthFailures - 1
      BY <2>7, <2>8 DEF Within
    <3> QED BY <1>10, <2>8, <3>1, <3>2, <3>3 DEF TakenFrom, stop
  <2>11. Streams(v)
    BY <1>1, <1>7, <1>10, <2>5, <2>6, <2>9, <2>10, StreamsServed DEF stop
  <2>12. words \in Seq(Text)
    BY <1>7, <2>10, StopTakes
  <2>13. Replies(m.authenticated, words, say)
    <3>1. Replies(lined.authenticated, words, out.say)
      BY <1>4, <2>2, LineReplies DEF out
    <3>2. out.say = say
      BY <2>3 DEF Outcome
    <3> QED BY <1>3, <1>4, <3>1, <3>2
  <2>14. v.sent = m.sent /\ v.asked = m.asked /\ v.got = m.got
    BY <2>10 DEF TakenFrom
  <2>15. Tells(m, us, cf, v, us2, cf2)
    BY <2>5, <2>6, <2>9, <2>11, <2>12, <2>13, <2>14 DEF Tells
  <2> QED BY <2>4, <2>14, <2>15 DEF v, done
<1>11. CASE stop # 0 /\ m.inbuf[stop] # LF
  <2> DEFINE v == QueueResponse(rest, LineTooLong)
  <2>1. done = Outcome(v, us, cf, "")
    BY <1>5, <1>11, Zenon DEF LineTooLong
  <2>2. done.m = v /\ done.users = us /\ done.config = cf
    BY <2>1 DEF Outcome
  <2>3. LineTooLong \in Answers
    BY DEF LineTooLong, Answers, Ordinary
  <2>4. /\ SameInput(rest, v) /\ v.got = rest.got /\ v.left = OutLen
        /\ v.answers = Append(rest.answers, LineTooLong) /\ v.failures = rest.failures
        /\ v.locked = rest.locked
    BY <1>3, QueueStreams
  <2> HIDE DEF v
  <2>5. v.answers = Append(m.answers, LineTooLong) /\ v.served = m.served
    BY <1>3, <2>4 DEF SameInput, SameCounts
  <2>6. TakenFrom(m, v)
    <3>1. v.got = m.got
      BY <1>3, <2>4 DEF SameCounts
    <3>2. /\ v.net = m.net /\ v.rst = m.rst /\ v.sent = m.sent /\ v.asked = m.asked
          /\ v.line = <<>> /\ v.inbuf = SubSeq(m.inbuf, Stop(m) + 1, Len(m.inbuf))
      BY <1>3, <2>4 DEF SameInput, stop
    <3>3. v.failures <= IF v.locked THEN MaxAuthFailures ELSE MaxAuthFailures - 1
      BY <1>3, <1>8, <2>4 DEF Within, SameCounts
    <3> QED BY <1>11, <2>4, <3>1, <3>2, <3>3 DEF TakenFrom, stop
  <2>7. Streams(v)
    BY <1>1, <1>11, <2>3, <2>5, <2>6, StreamsTooLong DEF stop
  <2>8. v.sent = m.sent /\ v.asked = m.asked /\ v.got = m.got
    BY <2>6 DEF TakenFrom
  <2>9. Tells(m, us, cf, v, us, cf)
    BY <1>6, <2>5, <2>7, <2>8 DEF Tells
  <2> QED BY <2>2, <2>8, <2>9 DEF done
<1> QED BY <1>9, <1>10, <1>11

-----------------------------------------------------------------------------
\* The steps, by what they do to the streams and to the stores.

Advances(s) ==
    \E x : /\ ses' = [ses EXCEPT ![s] = x] /\ Streams(x) /\ UNCHANGED alive
           /\ \/ /\ UNCHANGED <<users, config>>
                 /\ x.answers = ses[s].answers \/ x.answers = <<>>
              \/ ses[s].open /\ Tells(ses[s], users, config, x, users', config')

StreamStep == \E s \in Sessions : Advances(s) \/ WriteKilled(s)

LEMMA ClosedStreams == Streams(Closed) /\ Closed.answers = <<>>
<1> DEFINE m == Closed
<1>1. /\ m.net = <<>> /\ m.inbuf = <<>> /\ m.line = <<>> /\ m.rst = FALSE /\ m.sent = <<>>
      /\ m.served = <<>> /\ m.asked = <<>> /\ m.failures = 0 /\ m.locked = FALSE
      /\ m.answers = <<>> /\ m.got = 0 /\ m.left = 0
  BY DEF Closed
<1> HIDE DEF m
<1>2. Streams(m)
  BY <1>1, StreamsNew
<1> QED BY <1>1, <1>2 DEF m

LEMMA AcceptAdvances ==
    ASSUME NEW s, PassiveAccept(s)
    PROVE  Advances(s)
<1> DEFINE m == [Closed EXCEPT !.open = TRUE, !.interest = "R"]
<1>1. /\ m.net = <<>> /\ m.inbuf = <<>> /\ m.line = <<>> /\ m.rst = FALSE /\ m.sent = <<>>
      /\ m.served = <<>> /\ m.asked = <<>> /\ m.failures = 0 /\ m.locked = FALSE
      /\ m.answers = <<>> /\ m.got = 0 /\ m.left = 0
  BY DEF Closed
<1>2. ses' = [ses EXCEPT ![s] = m] /\ UNCHANGED <<users, config, alive>>
  BY DEF PassiveAccept
<1> HIDE DEF m
<1>3. Streams(m)
  BY <1>1, StreamsNew
<1> QED BY <1>1, <1>2, <1>3 DEF Advances

LEMMA CloseAdvances ==
    ASSUME NEW s, Close(s)
    PROVE  Advances(s)
<1>1. ses' = [ses EXCEPT ![s] = Closed] /\ UNCHANGED <<users, config, alive>>
  BY DEF Close
<1> QED BY <1>1, ClosedStreams DEF Advances

\* The service takes input or has sent a response, and handles what is there.
Serving(s) ==
    \E x : /\ ses' = [ses EXCEPT ![s] = x] /\ UNCHANGED alive /\ ses[s].open /\ x.open
           /\ x.got = ses[s].got + IF ses[s].left > 0 THEN 1 ELSE 0
           /\ Tells(ses[s], users, config, x, users', config')

LEMMA ServingAdvances ==
    ASSUME NEW s, Serving(s)
    PROVE  Advances(s)
BY DEF Serving, Advances, Tells

\* The same session to begin with, as far as its answers tell.
LEMMA TellsAlike ==
    ASSUME NEW m, NEW m1, NEW us, NEW cf, NEW m2, NEW us2, NEW cf2,
           m1.answers = m.answers, m1.served = m.served, m1.sent = m.sent, m1.asked = m.asked,
           m1.authenticated = m.authenticated, Tells(m1, us, cf, m2, us2, cf2)
    PROVE  Tells(m, us, cf, m2, us2, cf2)
BY DEF Tells

LEMMA InputServed ==
    ASSUME NEW s \in Sessions, ses[s].open, NEW m, SessionInv(m), m.open, m.left = 0, Streams(m),
           m.answers = ses[s].answers, m.served = ses[s].served, m.sent = ses[s].sent,
           m.asked = ses[s].asked, m.authenticated = ses[s].authenticated,
           m.got = ses[s].got + IF ses[s].left > 0 THEN 1 ELSE 0,
           Becomes(s, ProcessInput(m, users, config))
    PROVE  Serving(s)
<1> DEFINE out == ProcessInput(m, users, config)
<1>1. Tells(m, users, config, out.m, out.users, out.config) /\ out.m.got = m.got
  BY ProcessInputTells
<1>2. out.m.open
  BY ProcessInputServes DEF Served
<1> HIDE DEF out
<1>3. Tells(ses[s], users, config, out.m, out.users, out.config)
  BY <1>1, TellsAlike
<1>4. ses' = [ses EXCEPT ![s] = out.m] /\ users' = out.users /\ config' = out.config
        /\ UNCHANGED alive
  BY DEF Becomes, out
<1> QED BY <1>1, <1>2, <1>3, <1>4 DEF Serving

LEMMA ReadServes ==
    ASSUME NEW s \in Sessions, ServiceInv, Streams(ses[s]), Read(s)
    PROVE  Serving(s) \/ Close(s)
<1> DEFINE m == ses[s]
<1>1. SessionInv(m) /\ IsSession(m) /\ m.open /\ m.interest = "R"
  BY DEF ServiceInv, SessionInv, Read
<1>2. m.left = 0
  <2>1. m.left \in Nat
    BY <1>1 DEF IsSession
  <2>2. m.interest = IF m.left > 0 THEN "W" ELSE "R"
    BY <1>1 DEF SessionInv, Queued
  <2> QED BY <1>1, <2>1, <2>2
<1>4. ASSUME NEW n \in Recv(m), Becomes(s, ProcessInput(Received(m, n), users, config))
      PROVE  Serving(s)
  <2> DEFINE m2 == Received(m, n)
  <2>1. /\ IsSession(m2) /\ Alike(m, m2) /\ SameCounts(m, m2) /\ m2.rst = m.rst
        /\ m2.line = m.line /\ m2.served = m.served /\ m2.sent = m.sent /\ m2.asked = m.asked
        /\ m2.inbuf = m.inbuf \o SubSeq(m.net, 1, n)
        /\ m2.net = SubSeq(m.net, n + 1, Len(m.net)) /\ m2.left = m.left
        /\ m2.authenticated = m.authenticated
    BY <1>1 DEF IsSession, Alike, SameCounts, Received
  <2>2. m.net \in Seq(Byte) /\ m.inbuf \in Seq(Byte) /\ m.rst \in BOOLEAN
    BY <1>1 DEF Streams, Typed, IsSession
  <2> HIDE DEF m2
  <2>3. Streams(m2)
    <3>1. CASE m.inbuf # <<>>
      <4>1. n = 0
        BY <1>4, <3>1 DEF Recv
      <4>2. SubSeq(m.net, 1, 0) = <<>> /\ SubSeq(m.net, 1, Len(m.net)) = m.net
        BY <2>2, SubSeqEmpty, SubSeqFull
      <4>3. m.inbuf \o <<>> = m.inbuf /\ n + 1 = 1
        BY <2>2, <4>1, ConcatEmptySeq
      <4>4. m2.inbuf = m.inbuf /\ m2.net = m.net
        BY <2>1, <4>1, <4>2, <4>3, Zenon
      <4>5. SameInput(m, m2)
        BY <2>1, <4>4 DEF SameInput
      <4>6. m.left <= OutLen
        BY DEF Streams, Typed
      <4> QED BY <2>1, <4>5, <4>6, StreamsKept
    <3>2. CASE m.inbuf = <<>>
      <4>1. n \in 1..InSize /\ n <= Len(m.net) /\ ~m.rst
        BY <1>4, <3>2 DEF Recv
      <4>2. n \in 1..Len(m.net) /\ n <= InSize /\ m.rst = FALSE
        BY <2>2, <4>1, SizesAssumption
      <4> QED BY <2>1, <3>2, <4>2, StreamsReceived
    <3> QED BY <3>1, <3>2
  <2>4. SessionInv(m2) /\ m2.open /\ m2.answers = m.answers
    BY <1>1, <2>1, AlikeInv DEF Alike
  <2>5. m2.got = m.got + IF m.left > 0 THEN 1 ELSE 0
    <3>1. m.got \in Nat
      BY DEF Streams, Typed
    <3> QED BY <1>2, <2>1, <3>1 DEF SameCounts
  <2> QED BY <1>1, <1>2, <1>4, <2>1, <2>3, <2>4, <2>5, InputServed DEF m2
<1> QED BY <1>4 DEF Read

LEMMA WriteAllServes ==
    ASSUME NEW s \in Sessions, ServiceInv, Streams(ses[s]), WriteAll(s)
    PROVE  Serving(s) \/ Close(s)
<1> DEFINE m == ses[s]
           m2 == Sent(m)
<1>1. SessionInv(m) /\ IsSession(m) /\ m.open /\ m.interest = "W"
  BY DEF ServiceInv, SessionInv, WriteAll
<1>2. Queued(m) /\ FailuresExact(m) /\ ThirdLocks(m.answers)
  BY <1>1 DEF SessionInv
<1>3. m.left > 0
  BY <1>1, <1>2 DEF Queued
<1>4. CASE m.closing
  BY <1>4 DEF WriteAll
<1>5. CASE ~m.closing
  <2>1. Becomes(s, ProcessInput(m2, users, config))
    BY <1>5 DEF WriteAll
  <2>2. /\ SameInput(m, m2) /\ m2.failures = m.failures /\ m2.locked = m.locked
        /\ m2.answers = m.answers /\ m2.got = m.got + 1 /\ m2.left = 0
    BY <1>1 DEF Sent, IsSession, SameInput
  <2>3. IsSession(m2) /\ m2.open /\ m2.interest = "R" /\ m2.closing = m.closing
        /\ m2.authenticated = m.authenticated
    BY <1>1 DEF Sent, IsSession
  <2> HIDE DEF m2
  <2>4. Streams(m2)
    BY <1>3, <2>2, StreamsSent
  <2>5. SessionInv(m2)
    <3>1. Queued(m2)
      <4>1. ~m2.closing /\ ~m2.locked
        BY <1>2, <1>5, <2>2, <2>3 DEF Queued
      <4>2. m2.interest = IF m2.left > 0 THEN "W" ELSE "R"
        BY <2>2, <2>3
      <4>3. m2.authenticated => \E i \in 1..Len(m2.answers) : m2.answers[i] = Accepted
        BY <1>2, <2>2, <2>3 DEF Queued
      <4> QED BY <4>1, <4>2, <4>3 DEF Queued
    <3>2. FailuresExact(m2)
      BY <1>2, <2>2 DEF FailuresExact
    <3>3. \A i \in 1..Len(m2.answers) : m2.answers[i] = LockedOut => m2.closing
      BY <1>1, <2>2, <2>3 DEF SessionInv
    <3> QED BY <1>2, <2>2, <2>3, <3>1, <3>2, <3>3 DEF SessionInv
  <2>6. m2.served = m.served /\ m2.sent = m.sent /\ m2.asked = m.asked
    BY <2>2 DEF SameInput
  <2>7. m2.got = m.got + IF m.left > 0 THEN 1 ELSE 0
    BY <1>3, <2>2
  <2> QED BY <1>1, <2>7, <2>1, <2>2, <2>3, <2>4, <2>5, <2>6, InputServed
<1> QED BY <1>4, <1>5

LEMMA QuietAdvances ==
    ASSUME NEW s, NEW m2, ses' = [ses EXCEPT ![s] = m2], Streams(m2),
           m2.answers = ses[s].answers, UNCHANGED <<users, config, alive>>
    PROVE  Advances(s)
BY DEF Advances

LEMMA WritePartAdvances ==
    ASSUME NEW s \in Sessions, ServiceInv, Streams(ses[s]), WritePart(s)
    PROVE  Advances(s)
<1> DEFINE m == ses[s]
<1>1. SessionInv(m) /\ IsSession(m) /\ s \in DOMAIN ses
  BY DEF ServiceInv, SessionInv
<1>2. PICK n \in 1..(m.left - 1) : ses' = [ses EXCEPT ![s].left = m.left - n]
  BY DEF WritePart
<1> DEFINE left == m.left - n
           m2 == [m EXCEPT !.left = left]
<1>3. m.left \in Nat /\ m.left <= OutLen
  BY <1>1 DEF IsSession, Streams, Typed
<1>4. left > 0 /\ m.left > 0 /\ left <= OutLen
  BY <1>3, SizesAssumption
<1>5. ses' = [ses EXCEPT ![s] = m2]
  BY <1>2
<1> HIDE DEF left
<1>6. SameInput(m, m2) /\ SameCounts(m, m2) /\ m2.left = left
  BY <1>1 DEF IsSession, SameInput, SameCounts
<1> HIDE DEF m2
<1>7. Streams(m2)
  BY <1>4, <1>6, StreamsKept
<1>8. m2.answers = m.answers /\ UNCHANGED <<users, config, alive>>
  BY <1>6 DEF SameCounts, WritePart
<1> QED BY <1>5, <1>7, <1>8, QuietAdvances

LEMMA AskedAdvances ==
    ASSUME NEW s \in Sessions, ServiceInv, Streams(ses[s]), ~ses[s].rst,
           NEW req \in Seq(Text \cup {CR}),
           ses' = [ses EXCEPT ![s] = Asked(ses[s], req)], UNCHANGED <<users, config, alive>>
    PROVE  Advances(s)
<1> DEFINE m == ses[s]
           m2 == Asked(m, req)
<1>1. IsSession(m) /\ m.rst = FALSE
  BY DEF ServiceInv, SessionInv, IsSession
<1>2. /\ SameCounts(m, m2) /\ m2.left = m.left /\ m2.rst = m.rst /\ m2.inbuf = m.inbuf
      /\ m2.line = m.line /\ m2.served = m.served
      /\ m2.net = m.net \o Append(req, LF) /\ m2.sent = m.sent \o Append(NoCR(req), LF)
      /\ m2.asked = Append(m.asked, req)
  BY <1>1 DEF Asked, IsSession, SameCounts
<1> HIDE DEF m2
<1>3. Streams(m2)
  BY <1>1, <1>2, StreamsAsked
<1>4. m2.answers = m.answers
  BY <1>2 DEF SameCounts
<1> QED BY <1>3, <1>4, QuietAdvances DEF m2

LEMMA FinAdvances ==
    ASSUME NEW s \in Sessions, ServiceInv, Streams(ses[s]),
           ses' = [ses EXCEPT ![s].fin = TRUE], UNCHANGED <<users, config, alive>>
    PROVE  Advances(s)
<1> DEFINE m == ses[s]
           m2 == [m EXCEPT !.fin = TRUE]
<1>1. IsSession(m) /\ s \in DOMAIN ses
  BY DEF ServiceInv, SessionInv
<1>2. SameInput(m, m2) /\ SameCounts(m, m2) /\ m2.left = m.left
  BY <1>1 DEF IsSession, SameInput, SameCounts
<1>3. ses' = [ses EXCEPT ![s] = m2]
  OBVIOUS
<1> HIDE DEF m2
<1>4. m.left <= OutLen
  BY DEF Streams, Typed
<1>5. Streams(m2)
  BY <1>2, <1>4, StreamsKept
<1>6. m2.answers = m.answers
  BY <1>2 DEF SameCounts
<1> QED BY <1>3, <1>5, <1>6, QuietAdvances

LEMMA ResetAdvances ==
    ASSUME NEW s \in Sessions, ServiceInv, Streams(ses[s]), ClientResets(s)
    PROVE  Advances(s)
<1> DEFINE m == ses[s]
           m2 == [m EXCEPT !.rst = TRUE, !.net = <<>>]
<1>1. IsSession(m) /\ s \in DOMAIN ses
  BY DEF ServiceInv, SessionInv
<1>2. /\ SameCounts(m, m2) /\ m2.left = m.left /\ m2.inbuf = m.inbuf /\ m2.line = m.line
      /\ m2.sent = m.sent /\ m2.served = m.served /\ m2.asked = m.asked /\ m2.net = <<>>
      /\ m2.rst = TRUE
  BY <1>1 DEF IsSession, SameCounts
<1>3. ses' = [ses EXCEPT ![s] = m2] /\ UNCHANGED <<users, config, alive>>
  BY <1>1 DEF ClientResets
<1>4. m.rst = FALSE
  BY <1>1 DEF ClientResets, IsSession
<1> HIDE DEF m2
<1>5. Streams(m2)
  BY <1>2, <1>4, StreamsReset
<1>6. m2.answers = m.answers
  BY <1>2 DEF SameCounts
<1> QED BY <1>3, <1>5, <1>6, QuietAdvances

LEMMA InvStreams ==
    ASSUME StreamInv, NEW s \in Sessions
    PROVE  Streams(ses[s])
BY DEF StreamInv, Streams

\* Every step of the service with any peers advances one session's streams.
LEMMA NextAdvances ==
    ASSUME ServiceInv, StreamInv, Next
    PROVE  StreamStep
<1>1. PICK s \in Sessions :
        \/ PassiveAccept(s) \/ Read(s)
        \/ WriteAll(s) \/ WritePart(s) \/ WriteFails(s) \/ WriteKilled(s)
        \/ ClientEnds(s) \/ ClientResets(s)
        \/ \E req \in Requests : ClientSends(s, req)
  BY DEF Next
<1>2. Streams(ses[s])
  BY InvStreams
<1>3. CASE PassiveAccept(s)
  BY <1>3, AcceptAdvances DEF StreamStep
<1>4. CASE Read(s)
  BY <1>2, <1>4, ReadServes, ServingAdvances, CloseAdvances DEF StreamStep
<1>5. CASE WriteAll(s)
  BY <1>2, <1>5, WriteAllServes, ServingAdvances, CloseAdvances DEF StreamStep
<1>6. CASE WritePart(s)
  BY <1>2, <1>6, WritePartAdvances DEF StreamStep
<1>7. CASE WriteFails(s)
  BY <1>7, CloseAdvances DEF StreamStep, WriteFails
<1>8. CASE WriteKilled(s)
  BY <1>8 DEF StreamStep
<1>9. CASE ClientEnds(s)
  BY <1>2, <1>9, FinAdvances DEF StreamStep, ClientEnds
<1>10. CASE ClientResets(s)
  BY <1>2, <1>10, ResetAdvances DEF StreamStep
<1>11. CASE \E req \in Requests : ClientSends(s, req)
  <2>1. PICK req \in Requests : ClientSends(s, req)
    BY <1>11
  <2>2. req \in Seq(Text \cup {CR})
    BY RequestsAssumption
  <2>3. Advances(s)
    BY <1>2, <2>1, <2>2, AskedAdvances DEF ClientSends
  <2> QED BY <2>3 DEF StreamStep
<1> QED BY <1>1, <1>3, <1>4, <1>5, <1>6, <1>7, <1>8, <1>9, <1>10, <1>11

-----------------------------------------------------------------------------
\* The table of accounts.

\* find_user gives an entry with that name, or there is none.
LEMMA Found ==
    ASSUME NEW us \in Seq(Entry), NEW n
    PROVE  \/ FindUser(us, n) = 0 /\ \A i \in 1..Len(us) : us[i].name # n
           \/ /\ FindUser(us, n) \in 1..Len(us) /\ us[FindUser(us, n)].name = n
              /\ \A i \in 1..Len(us) : us[i].name = n => FindUser(us, n) <= i
<1> DEFINE hits == {i \in 1..Len(us) : us[i].name = n}
<1>1. FindUser(us, n) = IF hits = {} THEN 0 ELSE CHOOSE i \in hits : \A j \in hits : i <= j
  BY DEF FindUser
<1>2. hits \subseteq Nat
  OBVIOUS
<1>3. CASE hits = {}
  BY <1>1, <1>3
<1>4. CASE hits # {}
  <2>1. \E i \in hits : \A j \in hits : i <= j
    <3> HIDE DEF hits
    <3> QED BY <1>2, <1>4, Least
  <2>2. FindUser(us, n) \in hits /\ \A j \in hits : FindUser(us, n) <= j
    <3> HIDE DEF hits
    <3> QED BY <1>1, <1>4, <2>1
  <2> QED BY <2>2
<1> QED BY <1>3, <1>4

\* A name may be stored in one entry only.
LEMMA AddTyped ==
    ASSUME NEW us \in Seq(Entry), Len(us) <= UsersMax, NEW n \in Text, NEW p \in Text
    PROVE  UsersAdd(us, n, p) \in Seq(Entry) /\ Len(UsersAdd(us, n, p)) <= UsersMax
<1> DEFINE i == FindUser(us, n)
<1>1. Kept[n] \in Text /\ Kept[p] \in Text
  BY TextAssumption
<1>2. i = 0 \/ i \in 1..Len(us)
  BY Found
<1>3. UsersAdd(us, n, p) = IF i # 0 THEN [us EXCEPT ![i].pass = Kept[p]]
        ELSE IF CanAdd(us, n) THEN Append(us, [name |-> Kept[n], pass |-> Kept[p]]) ELSE us
  BY DEF UsersAdd
<1> HIDE DEF i
<1>4. CASE i # 0
  <2>1. us[i] \in Entry
    BY <1>2, <1>4
  <2>2. [us[i] EXCEPT !.pass = Kept[p]] \in Entry
    BY <1>1, <2>1 DEF Entry
  <2>3. [us EXCEPT ![i].pass = Kept[p]] = [us EXCEPT ![i] = [us[i] EXCEPT !.pass = Kept[p]]]
    OBVIOUS
  <2> QED BY <1>2, <1>3, <1>4, <2>2, <2>3
<1>5. CASE i = 0
  <2>1. [name |-> Kept[n], pass |-> Kept[p]] \in Entry
    BY <1>1 DEF Entry
  <2>2. CanAdd(us, n) => Len(us) < UsersMax
    BY <1>5 DEF CanAdd, i
  <2>3. Len(us) \in Nat /\ UsersMax \in Nat
    BY UsersMaxAssumption
  <2> QED BY <1>3, <1>5, <2>1, <2>2, <2>3
<1> QED BY <1>4, <1>5

LEMMA DelTyped ==
    ASSUME NEW us \in Seq(Entry), Len(us) <= UsersMax, NEW n
    PROVE  UsersDel(us, n) \in Seq(Entry) /\ Len(UsersDel(us, n)) <= UsersMax
<1> DEFINE i == FindUser(us, n)
           moved == [us EXCEPT ![i] = us[Len(us)]]
<1>1. i = 0 \/ i \in 1..Len(us)
  BY Found
<1>2. UsersDel(us, n) = IF i = 0 THEN us ELSE SubSeq(moved, 1, Len(us) - 1)
  BY DEF UsersDel
<1> HIDE DEF i
<1>3. CASE i = 0
  BY <1>2, <1>3
<1>4. CASE i \in 1..Len(us)
  <2>1. Len(us) \in 1..Len(us)
    BY <1>4
  <2>2. us[Len(us)] \in Entry
    BY <2>1
  <2>3. moved \in Seq(Entry) /\ Len(moved) = Len(us)
    BY <1>4, <2>2
  <2> HIDE DEF moved
  <2>4. Len(us) \in Nat /\ UsersMax \in Nat
    BY UsersMaxAssumption
  <2>5. SubSeq(moved, 1, Len(us) - 1) \in Seq(Entry) /\ Len(SubSeq(moved, 1, Len(us) - 1)) = Len(us) - 1
    BY <1>4, <2>3, <2>4
  <2> QED BY <1>2, <1>4, <2>4, <2>5
<1> QED BY <1>1, <1>3, <1>4

LEMMA EffectTyped ==
    ASSUME NEW us \in Seq(Entry), Len(us) <= UsersMax, NEW w \in Seq(Text), NEW us2, NEW say,
           UserEffect(us, w, us2, say)
    PROVE  us2 \in Seq(Entry) /\ Len(us2) <= UsersMax
<1>1. CASE Len(w) = 4 /\ us2 = UsersAdd(us, w[3], w[4])
  <2>1. Len(w) = 4
    BY <1>1
  <2>2. w[3] \in Text /\ w[4] \in Text
    <3>1. 3 \in 1..Len(w) /\ 4 \in 1..Len(w)
      BY <2>1
    <3> QED BY <3>1, ElementOfSeq
  <2> QED BY <1>1, <2>2, AddTyped
<1>2. CASE us2 = UsersDel(us, w[3])
  BY <1>2, DelTyped
<1>3. CASE us2 = us
  BY <1>3
<1> QED BY <1>1, <1>2, <1>3 DEF UserEffect

LEMMA TellsTyped ==
    ASSUME NEW m, NEW us \in Seq(Entry), Len(us) <= UsersMax, NEW cf \in [Keys -> Values],
           NEW m2, NEW us2, NEW cf2, Tells(m, us, cf, m2, us2, cf2)
    PROVE  us2 \in Seq(Entry) /\ Len(us2) <= UsersMax /\ cf2 \in [Keys -> Values]
<1>1. cf2 \in [Keys -> Values]
  <2>1. CASE cf2 = cf
    BY <2>1
  <2>2. CASE \E k \in Keys, v \in Values : cf2 = [cf EXCEPT ![k] = v]
    BY <2>2
  <2> QED BY <2>1, <2>2 DEF Tells, ConfigEffect
<1>2. CASE us2 = us
  BY <1>1, <1>2
<1>3. CASE us2 # us
  <2>1. PICK say \in Answers, w \in Seq(Text) : UserEffect(us, w, us2, say)
    BY <1>3 DEF Tells
  <2> QED BY <1>1, <2>1, EffectTyped
<1> QED BY <1>2, <1>3

-----------------------------------------------------------------------------
LEMMA AdvanceKeeps ==
    ASSUME ServiceInv, StreamInv, NEW s \in Sessions, Advances(s)
    PROVE  StreamInv'
<1>1. PICK x : /\ ses' = [ses EXCEPT ![s] = x] /\ Streams(x) /\ UNCHANGED alive
               /\ \/ UNCHANGED <<users, config>>
                  \/ Tells(ses[s], users, config, x, users', config')
  BY DEF Advances
<1>2. \A t \in Sessions : Streams(ses'[t])
  <2>1. ses = [t \in Sessions |-> ses[t]]
    BY DEF ServiceInv
  <2>2. ses'[s] = x /\ \A t \in Sessions : t # s => ses'[t] = ses[t]
    BY <1>1, <2>1
  <2> QED BY <1>1, <2>2, InvStreams
<1>3. users' \in Seq(Entry) /\ Len(users') <= UsersMax /\ config' \in [Keys -> Values]
  <2>1. users \in Seq(Entry) /\ Len(users) <= UsersMax /\ config \in [Keys -> Values]
    BY DEF StreamInv
  <2>2. CASE UNCHANGED <<users, config>>
    BY <2>1, <2>2
  <2>3. CASE Tells(ses[s], users, config, x, users', config')
    BY <2>1, <2>3, TellsTyped
  <2> QED BY <1>1, <2>2, <2>3
<1>4. alive' \in BOOLEAN
  BY <1>1 DEF StreamInv
<1> QED BY <1>2, <1>3, <1>4 DEF StreamInv, Streams

LEMMA StreamKeeps ==
    ASSUME ServiceInv, StreamInv, StreamStep
    PROVE  StreamInv'
<1>1. PICK s \in Sessions : Advances(s) \/ WriteKilled(s)
  BY DEF StreamStep
<1>2. CASE Advances(s)
  BY <1>2, AdvanceKeeps
<1>3. CASE WriteKilled(s)
  <2>1. ses' = [x \in Sessions |-> Closed] /\ alive' = FALSE /\ users' = users /\ config' = config
    BY <1>3 DEF WriteKilled
  <2>2. \A t \in Sessions : Streams(ses'[t])
    BY <2>1, ClosedStreams
  <2> QED BY <2>1, <2>2 DEF StreamInv, Streams
<1> QED BY <1>1, <1>2, <1>3

LEMMA StreamStutters ==
    ASSUME StreamInv, UNCHANGED vars
    PROVE  StreamInv'
<1>1. ses' = ses /\ users' = users /\ config' = config /\ alive' = alive
  BY DEF vars
<1> QED BY <1>1 DEF StreamInv

LEMMA StreamBegins ==
    ASSUME Init
    PROVE  StreamInv
<1>1. ses = [s \in Sessions |-> Closed] /\ users \in Tables /\ config = [k \in Keys |-> "0"]
        /\ alive = TRUE
  BY DEF Init
<1>2. \A t \in Sessions : Streams(ses[t])
  BY <1>1, ClosedStreams
<1>3. users \in Seq(Entry) /\ Len(users) <= UsersMax
  BY <1>1, TablesAssumption
<1>4. config \in [Keys -> Values] /\ alive \in BOOLEAN
  BY <1>1, ValuesAssumption
<1> QED BY <1>2, <1>3, <1>4 DEF StreamInv, Streams

LEMMA StreamFrames ==
    ASSUME ServiceInv, StreamInv
    PROVE  Framing
<1>1. ASSUME NEW s \in Sessions
      PROVE  LET m == ses[s] IN
             /\ Len(m.inbuf) <= InSize /\ Len(m.line) < LineSize
             /\ m.left \in 0..OutLen /\ m.failures \in 0..MaxAuthFailures
             /\ m.interest \in {"none", "R", "W"}
             /\ {m.open, m.fin, m.rst, m.authenticated, m.locked, m.closing} \subseteq BOOLEAN
             /\ InOrder(m) /\ OneEach(m)
  <2> DEFINE m == ses[s]
  <2>1. IsSession(m) /\ Streams(m)
    BY InvStreams DEF ServiceInv, SessionInv
  <2> HIDE DEF m
  <2>2. /\ m.left \in Nat /\ m.failures \in Nat /\ m.interest \in {"none", "R", "W"}
        /\ {m.open, m.fin, m.rst, m.authenticated, m.locked, m.closing} \subseteq BOOLEAN
    BY <2>1 DEF IsSession
  <2>3. m.left \in 0..OutLen
    BY <2>1, <2>2, SizesAssumption DEF Streams, Typed
  <2>4. m.failures \in 0..MaxAuthFailures
    BY <2>1, <2>2 DEF Streams, Typed, MaxAuthFailures
  <2> QED BY <2>1, <2>2, <2>3, <2>4 DEF Streams, Typed, m
<1>2. TypeOK
  BY <1>1 DEF TypeOK, StreamInv, ServiceInv
<1> QED BY <1>1, <1>2 DEF Framing, Open

-----------------------------------------------------------------------------
\* The client's part.

LEMMA TextJoins == \A a, b \in Seq(Text) : a \o b \in Seq(Text)
BY ConcatProperties

LEMMA FewWords == \A a, b \in Text : <<a>> \in Seq(Text) /\ <<a, b>> \in Seq(Text)
OBVIOUS

LEMMA CommandNames ==
    /\ "AUTH" \in Text /\ "STATS" \in Text /\ "USERS" \in Text /\ "USER" \in Text
    /\ "SET" \in Text /\ "DELETE" \in Text /\ "CONFIG" \in Text /\ "GET" \in Text
BY ScenesAssumption

\* The arms of BuildCommand, whatever their guards.
LEMMA CommandIs ==
    ASSUME NEW argv
    PROVE  \/ BuildCommand(argv) = <<"STATS">>
           \/ BuildCommand(argv) = <<"USERS">>
           \/ Len(argv) = 4 /\ BuildCommand(argv) = <<"USER", "SET">> \o argv[3] \o argv[4]
           \/ Len(argv) = 3 /\ BuildCommand(argv) = <<"USER", "DELETE">> \o argv[3]
           \/ BuildCommand(argv) = <<"CONFIG", "GET">>
           \/ Len(argv) = 4 /\ BuildCommand(argv) = <<"CONFIG", "SET">> \o argv[3] \o argv[4]
           \/ BuildCommand(argv) = <<>>
<1> DEFINE g1 == Len(argv) = 1 /\ Says(argv, 1, "stats")
           g2 == Len(argv) = 1 /\ Says(argv, 1, "users")
           g3 == Len(argv) = 4 /\ Says(argv, 1, "user") /\ Says(argv, 2, "set")
           g4 == Len(argv) = 3 /\ Says(argv, 1, "user") /\ Says(argv, 2, "delete")
           g5 == Len(argv) = 2 /\ Says(argv, 1, "config") /\ Says(argv, 2, "get")
           g6 == Len(argv) = 4 /\ Says(argv, 1, "config") /\ Says(argv, 2, "set")
<1>1. BuildCommand(argv) =
        CASE g1 -> <<"STATS">>
          [] g2 -> <<"USERS">>
          [] g3 -> <<"USER", "SET">> \o argv[3] \o argv[4]
          [] g4 -> <<"USER", "DELETE">> \o argv[3]
          [] g5 -> <<"CONFIG", "GET">>
          [] g6 -> <<"CONFIG", "SET">> \o argv[3] \o argv[4]
          [] OTHER -> <<>>
  BY DEF BuildCommand
<1>2. /\ ~(g1 /\ g2) /\ ~(g1 /\ g3) /\ ~(g1 /\ g4) /\ ~(g1 /\ g5) /\ ~(g1 /\ g6)
      /\ ~(g2 /\ g3) /\ ~(g2 /\ g4) /\ ~(g2 /\ g5) /\ ~(g2 /\ g6)
      /\ ~(g3 /\ g4) /\ ~(g3 /\ g5) /\ ~(g3 /\ g6) /\ ~(g4 /\ g5) /\ ~(g4 /\ g6) /\ ~(g5 /\ g6)
  <2>1. <<"stats">>[1] = "stats" /\ <<"users">>[1] = "users" /\ <<"user">>[1] = "user"
          /\ <<"config">>[1] = "config" 
    OBVIOUS
  <2>2. /\ <<"stats">> # <<"users">> /\ <<"user">> # <<"config">>
    BY <2>1, Zenon
  <2> QED BY <2>2 DEF Says
<1>3. /\ g3 \/ g6 => Len(argv) = 4
      /\ g4 => Len(argv) = 3
  OBVIOUS
<1> HIDE DEF g1, g2, g3, g4, g5, g6
<1> QED BY <1>1, <1>2, <1>3, Zenon

LEMMA CommandWords ==
    ASSUME NEW argv \in Seq(Seq(Text))
    PROVE  BuildCommand(argv) \in Seq(Text)
<1>1. /\ <<"STATS">> \in Seq(Text) /\ <<"USERS">> \in Seq(Text) /\ <<"USER", "SET">> \in Seq(Text)
      /\ <<"USER", "DELETE">> \in Seq(Text) /\ <<"CONFIG", "GET">> \in Seq(Text)
      /\ <<"CONFIG", "SET">> \in Seq(Text) /\ <<>> \in Seq(Text)
  <2>1. <<>> \in Seq(Text)
    OBVIOUS
  <2> QED BY <2>1, CommandNames, FewWords, Zenon
<1>2. \A i \in 1..Len(argv) : argv[i] \in Seq(Text)
  BY ElementOfSeq
<1>3. CASE Len(argv) = 4
  <2>1. argv[3] \in Seq(Text) /\ argv[4] \in Seq(Text)
    BY <1>2, <1>3
  <2>2. /\ <<"USER", "SET">> \o argv[3] \in Seq(Text)
        /\ <<"CONFIG", "SET">> \o argv[3] \in Seq(Text)
    BY <1>1, <2>1, TextJoins
  <2>3. /\ <<"USER", "SET">> \o argv[3] \o argv[4] \in Seq(Text)
        /\ <<"CONFIG", "SET">> \o argv[3] \o argv[4] \in Seq(Text)
    BY <2>1, <2>2, TextJoins
  <2>4. Len(argv) # 3
    BY <1>3
  <2> QED BY <1>1, <2>3, <2>4, CommandIs, Zenon
<1>4. CASE Len(argv) = 3
  <2>1. argv[3] \in Seq(Text)
    BY <1>2, <1>4
  <2>2. <<"USER", "DELETE">> \o argv[3] \in Seq(Text)
    BY <1>1, <2>1, TextJoins
  <2>3. Len(argv) # 4
    BY <1>4
  <2> QED BY <1>1, <2>2, <2>3, CommandIs, Zenon
<1>5. CASE Len(argv) # 3 /\ Len(argv) # 4
  BY <1>1, <1>5, CommandIs, Zenon
<1> QED BY <1>3, <1>4, <1>5

LEMMA TextIsSendable == \A w \in Seq(Text) : w \in Seq(Text \cup {CR})
<1>1. Text \subseteq Text \cup {CR}
  OBVIOUS
<1> QED BY <1>1

\* The two lines of the client, and those of other programs.
LEMMA PeerLines ==
    ASSUME PeersInv, NEW s \in Sessions
    PROVE  /\ Command(cli[s]) \in Seq(Text)
           /\ cli[s].pc \in {"auth", "authReply"} => Login(cli[s]) \in Seq(Text)
           /\ \A i \in 1..Len(cli[s].talk) : cli[s].talk[i] \in Seq(Text \cup {CR})
<1>1. IsPeer(cli[s])
  BY DEF PeersInv
<1>2. /\ cli[s].argv \in Seq(Seq(Text)) /\ cli[s].secret \in Seq(Seq(Text))
      /\ cli[s].talk \in Seq(Seq(Text \cup {CR}))
      /\ cli[s].pc \in {"auth", "authReply"} => cli[s].secret # <<>>
  BY <1>1 DEF IsPeer
<1>3. Command(cli[s]) \in Seq(Text)
  BY <1>2, CommandWords DEF Command
<1>4. cli[s].pc \in {"auth", "authReply"} => Login(cli[s]) \in Seq(Text)
  <2>1. SUFFICES ASSUME cli[s].secret # <<>> PROVE Login(cli[s]) \in Seq(Text)
    BY <1>2
  <2>2. PICK k \in Seq(Seq(Text)) : k = cli[s].secret
    BY <1>2
  <2>3. 1 \in 1..Len(k)
    BY <2>1, <2>2, EmptySeq
  <2>4. k[1] \in Seq(Text)
    BY <2>3, ElementOfSeq
  <2>5. <<"AUTH">> \in Seq(Text)
    BY CommandNames, FewWords
  <2>6. <<"AUTH">> \o k[1] \in Seq(Text)
    BY <2>4, <2>5, TextJoins
  <2> QED BY <2>2, <2>6 DEF Login
<1>5. \A i \in 1..Len(cli[s].talk) : cli[s].talk[i] \in Seq(Text \cup {CR})
  <2>1. PICK k \in Seq(Seq(Text \cup {CR})) : k = cli[s].talk
    BY <1>2
  <2>2. \A i \in 1..Len(k) : k[i] \in Seq(Text \cup {CR})
    BY ElementOfSeq
  <2> QED BY <2>1, <2>2
<1> QED BY <1>3, <1>4, <1>5

LEMMA HangsAdvances ==
    ASSUME NEW s \in Sessions, ServiceInv, StreamInv, Hangs(s)
    PROVE  StreamStep \/ UNCHANGED vars
<1>1. CASE Connected(s)
  <2>1. ses' = [ses EXCEPT ![s].fin = TRUE] /\ UNCHANGED <<users, config, active, metric, alive>>
    BY <1>1 DEF Hangs
  <2>2. Advances(s)
    BY <2>1, InvStreams, FinAdvances
  <2> QED BY <2>2 DEF StreamStep
<1>2. CASE ~Connected(s)
  BY <1>2 DEF Hangs, vars
<1> QED BY <1>1, <1>2

LEMMA CNextAdvances ==
    ASSUME ServiceInv, StreamInv, PeersInv, CNext
    PROVE  StreamStep \/ UNCHANGED vars
<1>1. PICK s \in Sessions :
        \/ Start(s) \/ ConnectFails(s) \/ SendAuth(s) \/ AuthTooLong(s) \/ ReadAuth(s)
        \/ SendCommand(s) \/ ReadReply(s) \/ ExchangeFails(s) \/ Interrupted(s) \/ Reset(s)
        \/ OtherConnects(s) \/ OtherActs(s)
        \/ Serves(s) \/ ServesPart(s)
  BY DEF CNext
<1>2. Streams(ses[s])
  BY InvStreams
<1>3. CASE Start(s) \/ ConnectFails(s) \/ OtherConnects(s)
  <2>1. PassiveAccept(s) \/ UNCHANGED serverVars
    BY <1>3 DEF Start, ConnectFails, OtherConnects
  <2> QED BY <2>1, AcceptAdvances DEF StreamStep, serverVars, vars
<1>4. CASE SendAuth(s) \/ SendCommand(s)
  <2>1. PICK words \in Seq(Text), wait \in {"authReply", "reply"} : Sends(s, words, wait)
    BY <1>4, PeerLines DEF SendAuth, SendCommand
  <2>2. words \in Seq(Text \cup {CR})
    BY TextIsSendable
  <2>3. ~ses[s].rst /\ ses' = [ses EXCEPT ![s] = Asked(ses[s], words)]
          /\ UNCHANGED <<users, config, active, metric, alive>>
    BY <2>1 DEF Sends, Connected
  <2>4. Advances(s)
    BY <1>2, <2>2, <2>3, AskedAdvances
  <2> QED BY <2>4 DEF StreamStep
<1>5. CASE AuthTooLong(s) \/ ReadReply(s) \/ ExchangeFails(s) \/ Interrupted(s)
  <2>1. Hangs(s)
    BY <1>5 DEF AuthTooLong, ReadReply, ExchangeFails, Interrupted
  <2> QED BY <2>1, HangsAdvances
<1>6. CASE ReadAuth(s)
  <2>1. Hangs(s) \/ UNCHANGED <<serverVars, log>>
    BY <1>6 DEF ReadAuth
  <2>2. CASE UNCHANGED <<serverVars, log>>
    BY <2>2 DEF serverVars, vars
  <2> QED BY <2>1, <2>2, HangsAdvances
<1>7. CASE Reset(s)
  BY <1>2, <1>7, ResetAdvances DEF Reset, StreamStep
<1>8. CASE OtherActs(s)
  <2>1. CASE ClientEnds(s)
    BY <1>2, <2>1, FinAdvances DEF StreamStep, ClientEnds
  <2>2. CASE Len(ses[s].asked) < Len(cli[s].talk) /\ ClientSends(s, cli[s].talk[Len(ses[s].asked) + 1])
    <3>1. ses[s].asked \in Seq(Seq(Text \cup {CR})) /\ cli[s].talk \in Seq(Seq(Text \cup {CR}))
      BY <1>2 DEF Streams, Typed, PeersInv, IsPeer
    <3>2. Len(ses[s].asked) \in Nat /\ Len(cli[s].talk) \in Nat
      BY <3>1
    <3>3. Len(ses[s].asked) + 1 \in 1..Len(cli[s].talk)
      BY <2>2, <3>2
    <3>4. PICK req \in Seq(Text \cup {CR}) : ClientSends(s, req)
      BY <2>2, <3>3, PeerLines
    <3>5. Advances(s)
      BY <1>2, <3>4, AskedAdvances DEF ClientSends
    <3> QED BY <3>5 DEF StreamStep
  <2> QED BY <1>8, <2>1, <2>2 DEF OtherActs
<1>9. CASE Serves(s)
  <2>1. Read(s) \/ WriteAll(s) \/ WriteFails(s) \/ WriteKilled(s)
    BY <1>9 DEF Serves
  <2>2. CASE Read(s)
    BY <1>2, <2>2, ReadServes, ServingAdvances, CloseAdvances DEF StreamStep
  <2>3. CASE WriteAll(s)
    BY <1>2, <2>3, WriteAllServes, ServingAdvances, CloseAdvances DEF StreamStep
  <2>4. CASE WriteFails(s)
    BY <2>4, CloseAdvances DEF StreamStep, WriteFails
  <2> QED BY <2>1, <2>2, <2>3, <2>4 DEF StreamStep
<1>10. CASE ServesPart(s)
  BY <1>2, <1>10, WritePartAdvances DEF ServesPart, StreamStep
<1> QED BY <1>1, <1>3, <1>4, <1>5, <1>6, <1>7, <1>8, <1>9, <1>10

-----------------------------------------------------------------------------
\* The other ends stay programs.

LEMMA PeerReplaced ==
    ASSUME PeersInv, NEW s \in Sessions, NEW r, IsPeer(r), cli' = [cli EXCEPT ![s] = r]
    PROVE  PeersInv'
<1>1. cli = [t \in Sessions |-> cli[t]] /\ \A t \in Sessions : IsPeer(cli[t])
  BY DEF PeersInv
<1>2. cli' = [t \in Sessions |-> IF t = s THEN r ELSE cli[t]]
  BY <1>1
<1>3. cli' = [t \in Sessions |-> cli'[t]] /\ \A t \in Sessions : IsPeer(cli'[t])
  BY <1>1, <1>2
<1> QED BY <1>3 DEF PeersInv

LEMMA PeerMoves ==
    ASSUME PeersInv, NEW s \in Sessions, NEW wait,
           wait \in {"auth", "authReply", "command", "reply"},
           wait \in {"auth", "authReply"} => cli[s].secret # <<>>,
           cli' = [cli EXCEPT ![s].pc = wait]
    PROVE  PeersInv'
<1> DEFINE r == [cli[s] EXCEPT !.pc = wait]
<1>1. IsPeer(cli[s])
  BY DEF PeersInv
<1>2. IsPeer(r)
  BY <1>1 DEF IsPeer
<1>3. cli' = [cli EXCEPT ![s] = r]
  OBVIOUS
<1> QED BY <1>2, <1>3, PeerReplaced

LEMMA PeerExits ==
    ASSUME PeersInv, NEW s \in Sessions, NEW code, code \in {"0", "1", "signal"}, NEW said,
           Exits(s, cli[s], code, said)
    PROVE  PeersInv'
<1> DEFINE r == [cli[s] EXCEPT !.pc = "exited", !.exit = code, !.told = said]
<1>1. IsPeer(cli[s])
  BY DEF PeersInv
<1>2. IsPeer(r)
  BY <1>1 DEF IsPeer
<1>3. cli' = [cli EXCEPT ![s] = r]
  BY DEF Exits
<1> QED BY <1>2, <1>3, PeerReplaced

LEMMA PeersKept ==
    ASSUME PeersInv, [CNext]_allVars
    PROVE  PeersInv'
<1>1. CASE UNCHANGED cli
  BY <1>1 DEF PeersInv
<1>2. CASE UNCHANGED allVars
  BY <1>1, <1>2 DEF allVars
<1>3. CASE CNext
  <2>1. PICK s \in Sessions :
          \/ Start(s) \/ ConnectFails(s) \/ SendAuth(s) \/ AuthTooLong(s) \/ ReadAuth(s)
          \/ SendCommand(s) \/ ReadReply(s) \/ ExchangeFails(s) \/ Interrupted(s) \/ Reset(s)
          \/ OtherConnects(s) \/ OtherActs(s)
          \/ Serves(s) \/ ServesPart(s)
    BY <1>3 DEF CNext
  <2>2. cli[s].pc \in {"auth", "authReply"} => cli[s].secret # <<>>
    BY DEF PeersInv, IsPeer
  <2>3. CASE Start(s)
    <3>1. CASE Exits(s, cli[s], "1", "")
      BY <3>1, PeerExits
    <3>2. CASE cli' = [cli EXCEPT ![s].pc = IF cli[s].secret = <<>> THEN "command" ELSE "auth"]
      <4>1. CASE cli[s].secret = <<>>
        BY <3>2, <4>1, PeerMoves
      <4>2. CASE cli[s].secret # <<>>
        BY <3>2, <4>2, PeerMoves
      <4> QED BY <4>1, <4>2
    <3> QED BY <2>3, <3>1, <3>2 DEF Start
  <2>4. CASE ConnectFails(s) \/ AuthTooLong(s) \/ ExchangeFails(s) \/ Interrupted(s)
    <3>1. PICK code \in {"1", "signal"} : Exits(s, cli[s], code, "")
      BY <2>4 DEF ConnectFails, AuthTooLong, ExchangeFails, Interrupted
    <3> QED BY <3>1, PeerExits
  <2>5. CASE SendAuth(s)
    <3>1. cli' = [cli EXCEPT ![s].pc = "authReply"] /\ cli[s].pc = "auth"
      BY <2>5 DEF SendAuth, Sends
    <3> QED BY <2>2, <3>1, PeerMoves
  <2>6. CASE SendCommand(s)
    <3>1. cli' = [cli EXCEPT ![s].pc = "reply"]
      BY <2>6 DEF SendCommand, Sends
    <3> QED BY <3>1, PeerMoves
  <2>7. CASE ReadAuth(s)
    <3>1. CASE cli' = [cli EXCEPT ![s].pc = "command"]
      BY <3>1, PeerMoves
    <3>2. CASE Exits(s, cli[s], "1", Head(inbox[s]))
      BY <3>2, PeerExits
    <3> QED BY <2>7, <3>1, <3>2 DEF ReadAuth
  <2>8. CASE ReadReply(s)
    <3>1. ExitCode(Head(inbox[s])) \in {"0", "1"}
      BY DEF ExitCode
    <3>2. Exits(s, cli[s], ExitCode(Head(inbox[s])), Head(inbox[s]))
      BY <2>8 DEF ReadReply
    <3> QED BY <3>1, <3>2, PeerExits
  <2>9. CASE Reset(s) \/ OtherConnects(s) \/ OtherActs(s) \/ Serves(s) \/ ServesPart(s)
    BY <1>1, <2>9 DEF Reset, OtherConnects, OtherActs, Serves, ServesPart, cvars
  <2> QED BY <2>1, <2>3, <2>4, <2>5, <2>6, <2>7, <2>8, <2>9
<1> QED BY <1>2, <1>3

LEMMA PeersBegin ==
    ASSUME CInit
    PROVE  PeersInv
<1>1. cli \in [Sessions -> [pc : {"none", "start", "other"}, argv : Seq(Seq(Text)),
                            secret : Seq(Seq(Text)), talk : Seq(Seq(Text \cup {CR})),
                            exit : {"none"}, told : {""}]]
  BY ScenesAssumption DEF CInit
<1>2. ASSUME NEW s \in Sessions PROVE IsPeer(cli[s])
  BY <1>1 DEF IsPeer
<1>3. cli = [s \in Sessions |-> cli[s]]
  BY <1>1
<1> QED BY <1>2, <1>3 DEF PeersInv

-----------------------------------------------------------------------------
LEMMA NextStreams ==
    ASSUME ServiceInv, StreamInv, [Next]_vars
    PROVE  StreamInv'
<1>1. CASE Next
  BY <1>1, NextAdvances, StreamKeeps
<1>2. CASE UNCHANGED vars
  BY <1>2, StreamStutters
<1> QED BY <1>1, <1>2

LEMMA CNextStreams ==
    ASSUME ServiceInv, StreamInv, PeersInv, [CNext]_allVars
    PROVE  StreamInv'
<1>1. CASE CNext
  BY <1>1, CNextAdvances, StreamKeeps, StreamStutters
<1>2. CASE UNCHANGED allVars
  <2>1. UNCHANGED vars
    BY <1>2 DEF allVars, vars
  <2> QED BY <2>1, StreamStutters
<1> QED BY <1>1, <1>2

(***************************************************************************)
(* The programs at the other ends keep their command lines, and whoever is *)
(* about to send AUTH was given a secret (src/client/main.c:175).          *)
(***************************************************************************)
THEOREM PeersInvariant == CSpec => []PeersInv
<1>1. CInit => PeersInv
  BY PeersBegin
<1>2. PeersInv /\ [CNext]_allVars => PeersInv'
  BY PeersKept
<1> QED BY <1>1, <1>2, PTL DEF CSpec

(***************************************************************************)
(* The inductive invariant of the streams: what a session has handled, its *)
(* line, in_buf and the socket are, in this order, what its peer sent; no  *)
(* buffer is overrun, and the stores keep their types and limits.          *)
(***************************************************************************)
THEOREM StreamInvariant == (Spec => []StreamInv) /\ (CSpec => []StreamInv)
<1>1. Init => StreamInv
  BY StreamBegins
<1>2. CInit => StreamInv
  BY StreamBegins DEF CInit
<1>3. ServiceInv /\ StreamInv /\ [Next]_vars => StreamInv'
  BY NextStreams
<1>4. ServiceInv /\ StreamInv /\ PeersInv /\ [CNext]_allVars => StreamInv'
  BY CNextStreams
<1>5. Spec => []StreamInv
  BY <1>1, <1>3, ServiceInvariant, PTL DEF Spec
<1>6. CSpec => []StreamInv
  BY <1>2, <1>4, ServiceInvariant, PeersInvariant, PTL DEF CSpec
<1> QED BY <1>5, <1>6

(***************************************************************************)
(* Until a line is too long, mng_process_input neither loses, repeats nor  *)
(* reorders a byte however the network cuts the stream, and gives every    *)
(* line one response; it says "line too long" only after a request that    *)
(* was.                                                                    *)
(***************************************************************************)
THEOREM LinesFramed == (Spec => []Framing) /\ (CSpec => []Framing)
<1>1. ServiceInv /\ StreamInv => Framing
  BY StreamFrames
<1>2. Spec => []Framing
  BY <1>1, ServiceInvariant, StreamInvariant, PTL
<1>3. CSpec => []Framing
  BY <1>1, ServiceInvariant, StreamInvariant, PTL
<1> QED BY <1>2, <1>3

-----------------------------------------------------------------------------
\* The table is a map.

Unique(us) == \A i, j \in 1..Len(us) : us[i].name = us[j].name => i = j

\* The account that find_user sees in us.
Holds(us, n) == IF FindUser(us, n) = 0 THEN Absent ELSE us[FindUser(us, n)].pass

AccountsOf(us) == [n \in Text |-> Holds(us, n)]

LEMMA AccountsAre ==
    Accounts = AccountsOf(users) /\ Accounts' = AccountsOf(users')
BY DEF Accounts, AccountsOf, Holds

\* What find_user sees of a name that is stored, and of one that is not.
LEMMA HoldsOf ==
    ASSUME NEW us \in Seq(Entry), Unique(us), NEW n
    PROVE  /\ \A i \in 1..Len(us) : us[i].name = n => FindUser(us, n) = i /\ Holds(us, n) = us[i].pass
           /\ (\A i \in 1..Len(us) : us[i].name # n) => FindUser(us, n) = 0 /\ Holds(us, n) = Absent
<1>1. ASSUME NEW i \in 1..Len(us), us[i].name = n
      PROVE  FindUser(us, n) = i /\ Holds(us, n) = us[i].pass
  <2>1. FindUser(us, n) \in 1..Len(us) /\ us[FindUser(us, n)].name = n
    BY <1>1, Found
  <2>2. FindUser(us, n) = i
    BY <1>1, <2>1 DEF Unique
  <2>3. i # 0
    OBVIOUS
  <2> QED BY <2>2, <2>3 DEF Holds
<1>2. ASSUME \A i \in 1..Len(us) : us[i].name # n
      PROVE  FindUser(us, n) = 0 /\ Holds(us, n) = Absent
  BY <1>2, Found DEF Holds
<1> QED BY <1>1, <1>2

\* What users_add does to an account, for a table without a name twice.
SetsUser(us, n, p) ==
    /\ Unique(UsersAdd(us, n, p))
    /\ AccountsOf(UsersAdd(us, n, p)) = [AccountsOf(us) EXCEPT ![n] = Kept[p]]

\* A name that USER SET replaces.
LEMMA SetKnown ==
    ASSUME NEW us \in Seq(Entry), Unique(us), NEW n \in Text, NEW p \in Text,
           FindUser(us, n) # 0
    PROVE  SetsUser(us, n, p)
<1> SUFFICES /\ Unique(UsersAdd(us, n, p))
             /\ AccountsOf(UsersAdd(us, n, p)) = [AccountsOf(us) EXCEPT ![n] = Kept[p]]
  BY Zenon DEF SetsUser
<1> DEFINE us2 == UsersAdd(us, n, p)
<1>1. PICK k : k = FindUser(us, n)
  OBVIOUS
<1>2. k \in 1..Len(us) /\ us[k].name = n
  BY <1>1, Found
<1>3. us[k] \in Entry /\ Kept[p] \in Text
  BY <1>2, TextAssumption, ElementOfSeq
<1>4. us2 = [us EXCEPT ![k] = [us[k] EXCEPT !.pass = Kept[p]]]
  BY <1>1 DEF UsersAdd
<1>5. PICK e : e = [us[k] EXCEPT !.pass = Kept[p]]
  OBVIOUS
<1>6. e \in Entry /\ e.name = n /\ e.pass = Kept[p]
  BY <1>2, <1>3, <1>5 DEF Entry
<1>7. /\ us2 \in Seq(Entry) /\ Len(us2) = Len(us) /\ us2[k] = e
      /\ \A i \in 1..Len(us) : i # k => us2[i] = us[i]
  BY <1>2, <1>4, <1>5, <1>6
<1> HIDE DEF us2
<1>8. \A i \in 1..Len(us) : us2[i].name = us[i].name
  BY <1>2, <1>6, <1>7
<1>9. Unique(us2)
  BY <1>7, <1>8 DEF Unique
<1>10. ASSUME NEW x \in Text
       PROVE  Holds(us2, x) = IF x = n THEN Kept[p] ELSE Holds(us, x)
  <2>1. CASE x = n
    <3>1. Holds(us2, n) = us2[k].pass
      BY <1>2, <1>6, <1>7, <1>9, HoldsOf
    <3> QED BY <1>6, <1>7, <2>1, <3>1
  <2>2. CASE x # n /\ \E i \in 1..Len(us) : us[i].name = x
    <3>1. PICK i \in 1..Len(us) : us[i].name = x
      BY <2>2
    <3>2. i # k
      BY <1>2, <2>2, <3>1
    <3>3. Holds(us, x) = us[i].pass
      BY <3>1, HoldsOf
    <3>4. Holds(us2, x) = us2[i].pass
      BY <1>7, <1>8, <1>9, <3>1, HoldsOf
    <3> QED BY <1>7, <2>2, <3>2, <3>3, <3>4
  <2>3. CASE \A i \in 1..Len(us) : us[i].name # x
    <3>1. x # n
      BY <1>2, <2>3
    <3>2. \A i \in 1..Len(us2) : us2[i].name # x
      BY <1>7, <1>8, <2>3
    <3>3. Holds(us, x) = Absent /\ Holds(us2, x) = Absent
      BY <1>7, <1>9, <2>3, <3>2, HoldsOf
    <3> QED BY <3>1, <3>3
  <2> QED BY <2>1, <2>2, <2>3
<1>11. AccountsOf(us2) = [AccountsOf(us) EXCEPT ![n] = Kept[p]]
  BY <1>10 DEF AccountsOf
<1> QED BY <1>9, <1>11 DEF us2

\* A name that USER SET adds.
LEMMA SetNew ==
    ASSUME NEW us \in Seq(Entry), Unique(us), NEW n \in Text, NEW p \in Text,
           FindUser(us, n) = 0, CanAdd(us, n), Kept[n] = n
    PROVE  SetsUser(us, n, p)
<1> SUFFICES /\ Unique(UsersAdd(us, n, p))
             /\ AccountsOf(UsersAdd(us, n, p)) = [AccountsOf(us) EXCEPT ![n] = Kept[p]]
  BY Zenon DEF SetsUser
<1> DEFINE us2 == UsersAdd(us, n, p)
<1>1. \A i \in 1..Len(us) : us[i].name # n
  BY Found
<1>2. Kept[p] \in Text
  BY TextAssumption
<1>3. PICK e : e = [name |-> n, pass |-> Kept[p]]
  OBVIOUS
<1>4. e \in Entry /\ e.name = n /\ e.pass = Kept[p]
  BY <1>2, <1>3 DEF Entry
<1>5. us2 = Append(us, e)
  BY <1>3 DEF UsersAdd
<1>6. PICK k : k = Len(us) + 1
  OBVIOUS
<1>7. /\ us2 \in Seq(Entry) /\ Len(us2) = k /\ us2[k] = e /\ k \in Nat /\ Len(us) \in Nat
      /\ \A i \in 1..Len(us) : us2[i] = us[i]
  BY <1>4, <1>5, <1>6
<1> HIDE DEF us2
<1>8. \A i \in 1..Len(us2) : i = k \/ i \in 1..Len(us)
  BY <1>6, <1>7
<1>9. Unique(us2)
  BY <1>1, <1>4, <1>7, <1>8 DEF Unique
<1>10. ASSUME NEW x \in Text
       PROVE  Holds(us2, x) = IF x = n THEN Kept[p] ELSE Holds(us, x)
  <2>1. CASE x = n
    <3>0. k \in 1..Len(us2)
      BY <1>6, <1>7
    <3>1. Holds(us2, n) = us2[k].pass
      BY <3>0, <1>4, <1>7, <1>9, HoldsOf
    <3> QED BY <1>4, <1>7, <2>1, <3>1
  <2>2. CASE x # n /\ \E i \in 1..Len(us) : us[i].name = x
    <3>1. PICK i \in 1..Len(us) : us[i].name = x
      BY <2>2
    <3>2. i \in 1..Len(us2)
      BY <1>6, <1>7
    <3>3. Holds(us, x) = us[i].pass
      BY <3>1, HoldsOf
    <3>4. Holds(us2, x) = us2[i].pass
      BY <1>7, <1>9, <3>1, <3>2, HoldsOf
    <3> QED BY <1>7, <2>2, <3>3, <3>4
  <2>3. CASE x # n /\ \A i \in 1..Len(us) : us[i].name # x
    <3>2. \A i \in 1..Len(us2) : us2[i].name # x
      BY <1>4, <1>7, <1>8, <2>3
    <3>3. Holds(us, x) = Absent /\ Holds(us2, x) = Absent
      BY <1>7, <1>9, <2>3, <3>2, HoldsOf
    <3> QED BY <2>3, <3>3
  <2> QED BY <2>1, <2>2, <2>3
<1>11. AccountsOf(us2) = [AccountsOf(us) EXCEPT ![n] = Kept[p]]
  BY <1>10 DEF AccountsOf
<1> QED BY <1>9, <1>11 DEF us2

\* USER DELETE of a name that is stored.
LEMMA DelKnown ==
    ASSUME NEW us \in Seq(Entry), Unique(us), NEW n \in Text, FindUser(us, n) # 0
    PROVE  /\ Unique(UsersDel(us, n))
           /\ AccountsOf(UsersDel(us, n)) = [AccountsOf(us) EXCEPT ![n] = Absent]
<1> DEFINE us2 == UsersDel(us, n)
<1>1. PICK k : k = FindUser(us, n)
  OBVIOUS
<1>2. k \in 1..Len(us) /\ us[k].name = n
  BY <1>1, Found
<1>3. PICK l : l = Len(us)
  OBVIOUS
<1>4. l \in 1..l /\ us[l] \in Entry /\ l \in Nat
  BY <1>2, <1>3, ElementOfSeq
<1>5. PICK moved : moved = [us EXCEPT ![k] = us[l]]
  OBVIOUS
<1>6. /\ moved \in Seq(Entry) /\ Len(moved) = l /\ moved[k] = us[l]
      /\ \A i \in 1..l : i # k => moved[i] = us[i]
  BY <1>2, <1>3, <1>4, <1>5
<1>7. us2 = SubSeq(moved, 1, l - 1)
  BY <1>1, <1>2, <1>3, <1>5 DEF UsersDel
<1>8. us2 \in Seq(Entry) /\ Len(us2) = l - 1 /\ \A i \in 1..(l - 1) : us2[i] = moved[i]
  BY <1>4, <1>6, <1>7
<1> HIDE DEF us2
\* Where an entry of the new table was in the old one.
<1> DEFINE Was(i) == IF i = k THEN l ELSE i
<1>9. \A i \in 1..Len(us2) : Was(i) \in 1..l /\ Was(i) # k /\ us2[i] = us[Was(i)]
  BY <1>2, <1>3, <1>4, <1>6, <1>8
<1>10. \A i, j \in 1..Len(us2) : Was(i) = Was(j) => i = j
  BY <1>4, <1>8
<1>11. \A j \in 1..l : j # k => \E i \in 1..Len(us2) : Was(i) = j
  <2>1. ASSUME NEW j \in 1..l, j # k, j # l PROVE j \in 1..Len(us2) /\ Was(j) = j
    BY <1>4, <1>8, <2>1
  <2>2. l # k => k \in 1..Len(us2) /\ Was(k) = l
    BY <1>2, <1>3, <1>4, <1>8
  <2> QED BY <2>1, <2>2
<1> HIDE DEF Was
<1>12. Unique(us2)
  BY <1>3, <1>9, <1>10 DEF Unique
<1>13. ASSUME NEW x \in Text
       PROVE  Holds(us2, x) = IF x = n THEN Absent ELSE Holds(us, x)
  <2>1. CASE x = n
    <3>1. \A i \in 1..Len(us2) : us2[i].name # n
      BY <1>2, <1>3, <1>9 DEF Unique
    <3> QED BY <1>8, <1>12, <2>1, <3>1, HoldsOf
  <2>2. CASE x # n /\ \E i \in 1..Len(us) : us[i].name = x
    <3>1. PICK j \in 1..Len(us) : us[j].name = x
      BY <2>2
    <3>2. j # k
      BY <1>2, <2>2, <3>1
    <3>3. PICK i \in 1..Len(us2) : Was(i) = j
      BY <1>3, <1>11, <3>2
    <3>4. us2[i] = us[j]
      BY <1>9, <3>3
    <3>5. Holds(us, x) = us[j].pass
      BY <3>1, HoldsOf
    <3>6. Holds(us2, x) = us2[i].pass
      BY <1>8, <1>12, <3>1, <3>4, HoldsOf
    <3> QED BY <2>2, <3>4, <3>5, <3>6
  <2>3. CASE x # n /\ \A i \in 1..Len(us) : us[i].name # x
    <3>2. \A i \in 1..Len(us2) : us2[i].name # x
      BY <1>3, <1>9, <2>3
    <3>3. Holds(us, x) = Absent /\ Holds(us2, x) = Absent
      BY <1>8, <1>12, <2>3, <3>2, HoldsOf
    <3> QED BY <2>3, <3>3
  <2> QED BY <2>1, <2>2, <2>3
<1>14. AccountsOf(us2) = [AccountsOf(us) EXCEPT ![n] = Absent]
  BY <1>13 DEF AccountsOf
<1> QED BY <1>12, <1>14 DEF us2

\* The table has as many entries as the map has names.
Names(us) == {n \in Text : AccountsOf(us)[n] # Absent}

LEMMA NamesFound ==
    ASSUME NEW us \in Seq(Entry), Unique(us)
    PROVE  /\ \A n \in Text : n \in Names(us) <=> FindUser(us, n) # 0
           /\ Cardinality(Names(us)) = Len(us)
<1>1. \A i \in 1..Len(us) : us[i].name \in Text /\ us[i].pass \in Text /\ us[i].pass # Absent
  <2>1. \A i \in 1..Len(us) : us[i] \in Entry
    BY ElementOfSeq
  <2> QED BY <2>1, TextAssumption DEF Entry
<1>2. ASSUME NEW n \in Text
      PROVE  /\ n \in Names(us) <=> FindUser(us, n) # 0
             /\ n \in Names(us) => \E i \in 1..Len(us) : us[i].name = n
  <2>1. CASE \E i \in 1..Len(us) : us[i].name = n
    <3>1. PICK i \in 1..Len(us) : us[i].name = n
      BY <2>1
    <3>2. FindUser(us, n) = i /\ Holds(us, n) = us[i].pass
      BY <3>1, HoldsOf
    <3>3. AccountsOf(us)[n] # Absent
      BY <1>1, <3>2 DEF AccountsOf
    <3> QED BY <2>1, <3>2, <3>3 DEF Names
  <2>2. CASE \A i \in 1..Len(us) : us[i].name # n
    <3>1. FindUser(us, n) = 0 /\ Holds(us, n) = Absent
      BY <2>2, HoldsOf
    <3> QED BY <3>1 DEF Names, AccountsOf
  <2> QED BY <2>1, <2>2
<1>3. \A i \in 1..Len(us) : us[i].name \in Names(us)
  <2>1. ASSUME NEW i \in 1..Len(us) PROVE us[i].name \in Names(us)
    <3>1. FindUser(us, us[i].name) = i
      BY HoldsOf
    <3> QED BY <1>1, <1>2, <3>1
  <2> QED BY <2>1
<1> DEFINE f == [i \in 1..Len(us) |-> us[i].name]
<1>4. f \in Bijection(1..Len(us), Names(us))
  <2>1. f \in [1..Len(us) -> Names(us)]
    BY <1>3
  <2>2. \A i, j \in 1..Len(us) : f[i] = f[j] => i = j
    BY DEF Unique
  <2>3. \A n \in Names(us) : \E i \in 1..Len(us) : f[i] = n
    BY <1>2 DEF Names
  <2> HIDE DEF f
  <2> QED BY <2>1, <2>2, <2>3 DEF Bijection, Injection, Surjection, IsInjective
<1>5. ExistsBijection(1..Len(us), Names(us))
  BY <1>4 DEF ExistsBijection
<1>6. IsFiniteSet(1..Len(us)) /\ Cardinality(1..Len(us)) = Len(us)
  <2>1. PICK l \in Nat : l = Len(us)
    OBVIOUS
  <2>2. IsFiniteSet(1..l) /\ Cardinality(1..l) = l
    <3>1. IsFiniteSet(1..l) /\ Cardinality(1..l) = IF 1 > l THEN 0 ELSE l - 1 + 1
      BY FS_Interval
    <3> QED BY <3>1
  <2> QED BY <2>1, <2>2
<1>7. Cardinality(Names(us)) = Len(us)
  BY <1>5, <1>6, FS_Bijection
<1> QED BY <1>2, <1>7

\* What the map does when a line says so.
MapDoes(w, say) ==
    /\ say = "+OK user set" => Map!Set(w[3], w[4])
    /\ say = "-ERR user limit reached" => Map!SetRefused(w[3])
    /\ say = "+OK user deleted" => Map!Delete(w[3])
    /\ say = "-ERR user not found" => Map!DeleteRefused(w[3])
    /\ say \notin UserCalls => UNCHANGED Accounts

LEMMA MapOf ==
    ASSUME users \in Seq(Entry), Unique(users), NEW n \in Text
    PROVE  /\ n \in Map!Known <=> FindUser(users, n) # 0
           /\ Map!CanSet(n) <=> CanAdd(users, n)
<1>1. Map!Known = Names(users)
  BY AccountsAre DEF Map!Known, Names
<1>2. n \in Map!Known <=> FindUser(users, n) # 0
  BY <1>1, NamesFound
<1>3. Cardinality(Map!Known) = Len(users)
  BY <1>1, NamesFound
<1>4. Map!CanSet(n) <=> (n \in Map!Known \/ Cardinality(Map!Known) < UsersMax)
  BY Zenon DEF Map!CanSet, Map!Known, Map!Cardinality, Cardinality
<1>5. CanAdd(users, n) <=> (FindUser(users, n) # 0 \/ Len(users) < UsersMax)
  BY DEF CanAdd
<1> QED BY <1>2, <1>3, <1>4, <1>5, Zenon

LEMMA ThirdWord ==
    \A w \in Seq(Text) : /\ Len(w) = 4 => w[3] \in Text /\ w[4] \in Text
                         /\ Len(w) = 3 => w[3] \in Text
BY ElementOfSeq

LEMMA SetDoes ==
    ASSUME users \in Seq(Entry), Unique(users), NEW w \in Seq(Text), Len(w) = 4,
           users' = UsersAdd(users, w[3], w[4]), NEW say,
           say = IF CanAdd(users, w[3]) THEN "+OK user set" ELSE "-ERR user limit reached",
           say = "+OK user set" => Kept[w[3]] = w[3]
    PROVE  Unique(users') /\ MapDoes(w, say)
<1>1. PICK n \in Text, p \in Text : n = w[3] /\ p = w[4]
  BY ThirdWord
<1>2. CASE CanAdd(users, n)
  <2>1. say = "+OK user set" /\ Kept[n] = n
    BY <1>1, <1>2
  <2>2. /\ Unique(UsersAdd(users, n, p))
        /\ AccountsOf(UsersAdd(users, n, p)) = [AccountsOf(users) EXCEPT ![n] = Kept[p]]
    <3>1. FindUser(users, n) = 0 => SetsUser(users, n, p)
      BY <1>2, <2>1, SetNew
    <3>2. FindUser(users, n) # 0 => SetsUser(users, n, p)
      BY SetKnown
    <3>3. SetsUser(users, n, p)
      BY <3>1, <3>2, Zenon
    <3> QED BY <3>3, Zenon DEF SetsUser
  <2>3. users' = UsersAdd(users, n, p)
    BY <1>1
  <2>4. Accounts' = [Accounts EXCEPT ![n] = Kept[p]]
    BY <2>2, <2>3, AccountsAre
  <2>5. Map!CanSet(n)
    BY <1>2, MapOf
  <2>6. Map!Set(n, p)
    BY <2>4, <2>5 DEF Map!Set
  <2> QED BY <1>1, <2>1, <2>2, <2>3, <2>6 DEF MapDoes, UserCalls
<1>3. CASE ~CanAdd(users, n)
  <2>1. say = "-ERR user limit reached"
    BY <1>1, <1>3
  <2>2. users' = users
    BY <1>1, <1>3 DEF UsersAdd, CanAdd
  <2>3. Accounts' = Accounts
    BY <2>2, AccountsAre
  <2>4. Map!SetRefused(n)
    BY <1>3, <2>3, MapOf DEF Map!SetRefused
  <2> QED BY <1>1, <2>1, <2>2, <2>4 DEF MapDoes, UserCalls
<1> QED BY <1>2, <1>3

LEMMA DelDoes ==
    ASSUME users \in Seq(Entry), Unique(users), NEW w \in Seq(Text), Len(w) = 3,
           users' = UsersDel(users, w[3]), NEW say,
           say = IF FindUser(users, w[3]) # 0 THEN "+OK user deleted" ELSE "-ERR user not found"
    PROVE  Unique(users') /\ MapDoes(w, say)
<1>1. PICK n \in Text : n = w[3]
  BY ThirdWord
<1>2. CASE FindUser(users, n) # 0
  <2>1. say = "+OK user deleted" /\ users' = UsersDel(users, n)
    BY <1>1, <1>2
  <2>2. Unique(users') /\ AccountsOf(users') = [AccountsOf(users) EXCEPT ![n] = Absent]
    BY <1>2, <2>1, DelKnown
  <2>3. Map!Delete(n)
    BY <1>2, <2>2, AccountsAre, MapOf DEF Map!Delete
  <2> QED BY <1>1, <2>1, <2>2, <2>3 DEF MapDoes, UserCalls
<1>3. CASE FindUser(users, n) = 0
  <2>1. say = "-ERR user not found" /\ users' = users
    BY <1>1, <1>3 DEF UsersDel
  <2>2. Map!DeleteRefused(n)
    BY <1>3, <2>1, AccountsAre, MapOf DEF Map!DeleteRefused
  <2> QED BY <1>1, <2>1, <2>2 DEF MapDoes, UserCalls
<1> QED BY <1>2, <1>3

LEMMA EffectDoes ==
    ASSUME users \in Seq(Entry), Unique(users), NEW w \in Seq(Text), NEW say,
           UserEffect(users, w, users', say), say = "+OK user set" => Kept[w[3]] = w[3]
    PROVE  Unique(users') /\ MapDoes(w, say)
<1>1. CASE /\ Len(w) = 4 /\ users' = UsersAdd(users, w[3], w[4])
           /\ say = IF CanAdd(users, w[3]) THEN "+OK user set" ELSE "-ERR user limit reached"
  BY <1>1, SetDoes
<1>2. CASE /\ Len(w) = 3 /\ users' = UsersDel(users, w[3])
           /\ say = IF FindUser(users, w[3]) # 0 THEN "+OK user deleted" ELSE "-ERR user not found"
  BY <1>2, DelDoes
<1>3. CASE users' = users /\ say \notin UserCalls
  BY <1>3, AccountsAre DEF MapDoes, UserCalls
<1> QED BY <1>1, <1>2, <1>3 DEF UserEffect

\* The line that a step handled, from what it added to `served'.
LEMMA HandledIs ==
    ASSUME NEW a \in Seq(Byte), NEW w \in Seq(Text)
    PROVE  LET b == a \o Append(w, LF) IN SubSeq(b, Len(a) + 1, Len(b) - 1) = w
<1>1. w \in Seq(Byte) /\ LF \in Byte /\ Len(a) \in Nat /\ Len(w) \in Nat
  BY WordsOf DEF Byte
<1>2. PICK l : l = Append(w, LF)
  OBVIOUS
<1>3. l \in Seq(Byte) /\ Len(l) = Len(w) + 1 /\ \A i \in 1..Len(w) : l[i] = w[i]
  BY <1>1, <1>2
<1>4. PICK b : b = a \o l
  OBVIOUS
<1>5. /\ b \in Seq(Byte) /\ Len(b) = Len(a) + Len(w) + 1
      /\ \A i \in 1..Len(l) : b[Len(a) + i] = l[i]
  <2>1. b \in Seq(Byte) /\ Len(b) = Len(a) + Len(l)
    BY <1>1, <1>3, <1>4, ConcatProperties
  <2>2. \A i \in 1..Len(l) : Len(a) + i > Len(a) /\ Len(a) + i \in 1..(Len(a) + Len(l))
                             /\ Len(a) + i - Len(a) = i
    BY <1>1, <1>3
  <2>3. \A i \in 1..Len(l) : b[Len(a) + i] = l[i]
    BY <1>1, <1>3, <1>4, <2>2, ConcatProperties
  <2> QED BY <1>1, <1>3, <2>1, <2>3
<1>6. PICK c : c = SubSeq(b, Len(a) + 1, Len(b) - 1)
  OBVIOUS
<1>7. c \in Seq(Byte) /\ Len(c) = Len(w) /\ \A i \in 1..Len(w) : c[i] = w[i]
  <2>1. Len(b) - 1 = Len(a) + Len(w)
    BY <1>1, <1>5
  <2>2. c \in Seq(Byte) /\ Len(c) = Len(w) /\ \A i \in 1..Len(w) : c[i] = b[Len(a) + i]
    BY <1>1, <1>5, <1>6, <2>1, SubSeqProperties
  <2>3. \A i \in 1..Len(w) : i \in 1..Len(l)
    BY <1>1, <1>3
  <2> QED BY <1>3, <1>5, <2>2, <2>3
<1>8. c = w
  BY <1>1, <1>7
<1> QED BY <1>2, <1>4, <1>6, <1>8

\* A step that answers nobody.
LEMMA NobodyAnswered ==
    ASSUME ServiceInv, UNCHANGED users,
           \A t \in Open : ses'[t].answers = ses[t].answers \/ ses'[t].answers = <<>>
    PROVE  MapStep
<1>1. \A t \in Open : ~Answered(t)
  <2>1. ASSUME NEW t \in Open PROVE ~Answered(t)
    <3>1. ses[t].answers \in Seq(Answers)
      BY DEF Open, ServiceInv, SessionInv, IsSession
    <3>2. Len(ses[t].answers) \in Nat /\ Len(<<>>) = 0
      BY <3>1
    <3>3. Len(ses'[t].answers) = Len(ses[t].answers) \/ Len(ses'[t].answers) = 0
      BY <3>2
    <3> QED BY <3>2, <3>3 DEF Answered
  <2> QED BY <2>1
<1>2. {t \in Open : Answered(t)} = {} /\ UNCHANGED Accounts
  BY <1>1, AccountsAre
<1> QED BY <1>2 DEF MapStep

\* A step that answers session s.
LEMMA OneAnswered ==
    ASSUME ServiceInv, NEW s \in Sessions, s \in Open, NEW say \in Answers,
           ses'[s].answers = Append(ses[s].answers, say),
           \A t \in Open : t # s => ses'[t] = ses[t]
    PROVE  Answered(s) /\ Last(s) = say /\ {t \in Open : Answered(t)} = {s}
<1>1. \A t \in Open : ses[t].answers \in Seq(Answers)
  BY DEF Open, ServiceInv, SessionInv, IsSession
<1>2. \A t \in Open : Len(ses[t].answers) \in Nat
  BY <1>1
<1>3. Answered(s) /\ Last(s) = say
  BY <1>1, OneMore DEF Answered, Last
<1>4. \A t \in Open : t # s => ~Answered(t)
  BY <1>2 DEF Answered
<1> QED BY <1>3, <1>4

LEMMA AnsweredDoes ==
    ASSUME NEW s, {t \in Open : Answered(t)} = {s}, MapDoes(Handled(s), Last(s))
    PROVE  MapStep
<1> DEFINE w == Handled(s)
           say == Last(s)
<1>1. (CASE say = "+OK user set" -> Map!Set(w[3], w[4])
         [] say = "-ERR user limit reached" -> Map!SetRefused(w[3])
         [] say = "+OK user deleted"        -> Map!Delete(w[3])
         [] say = "-ERR user not found"     -> Map!DeleteRefused(w[3])
         [] OTHER -> UNCHANGED Accounts)
  <2>1. MapDoes(w, say)
    OBVIOUS
  <2> HIDE DEF w, say
  <2> QED BY <2>1 DEF MapDoes, UserCalls
<1> QED BY <1>1 DEF MapStep

LEMMA MapKept ==
    ASSUME ServiceInv, StreamInv, Unique(users), StreamStep, NameFits
    PROVE  Unique(users') /\ MapStep
<1>0. ses = [t \in Sessions |-> ses[t]] /\ Open \subseteq Sessions
  BY DEF ServiceInv, Open
<1>1. PICK s \in Sessions : Advances(s) \/ WriteKilled(s)
  BY DEF StreamStep
<1>2. CASE WriteKilled(s)
  <2>1. ses' = [x \in Sessions |-> Closed] /\ users' = users
    BY <1>2 DEF WriteKilled
  <2>2. \A t \in Open : ses'[t].answers = <<>>
    BY <1>0, <2>1, ClosedStreams
  <2> QED BY <2>1, <2>2, NobodyAnswered
<1>3. CASE Advances(s)
  <2>1. PICK x : /\ ses' = [ses EXCEPT ![s] = x]
                 /\ \/ /\ UNCHANGED <<users, config>>
                       /\ x.answers = ses[s].answers \/ x.answers = <<>>
                    \/ ses[s].open /\ Tells(ses[s], users, config, x, users', config')
    BY <1>3 DEF Advances
  <2>2. ses'[s] = x /\ \A t \in Sessions : t # s => ses'[t] = ses[t]
    BY <1>0, <2>1
  <2>3. CASE users' = users /\ (x.answers = ses[s].answers \/ x.answers = <<>>)
    BY <1>0, <2>2, <2>3, NobodyAnswered
  <2>4. ASSUME NEW say \in Answers, users' = users, say \notin UserCalls,
               x.answers = Append(ses[s].answers, say)
        PROVE  Unique(users') /\ MapStep
    <3>1. CASE s \in Open
      <4>1. Last(s) = say /\ {t \in Open : Answered(t)} = {s}
        BY <1>0, <2>2, <2>4, <3>1, OneAnswered
      <4>2. MapDoes(Handled(s), Last(s))
        BY <2>4, <4>1, AccountsAre DEF MapDoes, UserCalls
      <4> QED BY <2>4, <4>1, <4>2, AnsweredDoes
    <3>2. CASE s \notin Open
      <4>1. \A t \in Open : ses'[t] = ses[t]
        BY <1>0, <2>2, <3>2
      <4> QED BY <2>4, <4>1, NobodyAnswered
    <3> QED BY <3>1, <3>2
  <2>5. CASE users' = users /\ x.answers = Append(ses[s].answers, LineTooLong)
    <3>1. LineTooLong \in Answers /\ LineTooLong \notin UserCalls
      BY DEF LineTooLong, Answers, Ordinary, UserCalls
    <3> QED BY <2>4, <2>5, <3>1
  <2>6. ASSUME NEW say \in Answers, NEW w \in Seq(Text),
               x.answers = Append(ses[s].answers, say),
               x.served = ses[s].served \o Append(w, LF),
               UserEffect(users, w, users', say), ses[s].open
        PROVE  Unique(users') /\ MapStep
    <3>0. s \in Open
      BY <2>6 DEF Open
    <3>1. Answered(s) /\ Last(s) = say /\ {t \in Open : Answered(t)} = {s}
      BY <1>0, <2>2, <2>6, <3>0, OneAnswered
    <3>2. ses[s].served \in Seq(Byte)
      BY DEF StreamInv, Typed
    <3>3. Handled(s) = w
      BY <2>2, <2>6, <3>2, HandledIs DEF Handled
    <3>4. say = "+OK user set" => Kept[w[3]] = w[3]
      BY <2>6, <3>0, <3>1, <3>3 DEF NameFits
    <3>5. Unique(users') /\ MapDoes(w, say)
      BY <2>6, <3>4, EffectDoes DEF StreamInv
    <3> QED BY <3>1, <3>3, <3>5, AnsweredDoes
  <2>7. QED
    BY <2>1, <2>3, <2>5, <2>6 DEF Tells
<1> QED BY <1>1, <1>2, <1>3

LEMMA MapBegins ==
    ASSUME Init
    PROVE  Unique(users) /\ Map!Init
<1>1. users \in Seq(Entry) /\ Len(users) <= UsersMax /\ Unique(users)
  <2>1. users \in Tables
    BY DEF Init
  <2> QED BY <2>1, TablesAssumption DEF Unique
<1>2. Accounts \in [Text -> Text \cup {Absent}]
  <2>1. ASSUME NEW n \in Text PROVE Holds(users, n) \in Text \cup {Absent}
    <3>1. CASE FindUser(users, n) = 0
      BY <3>1 DEF Holds
    <3>2. CASE FindUser(users, n) # 0
      <4>1. FindUser(users, n) \in 1..Len(users)
        BY <1>1, <3>2, Found
      <4>2. users[FindUser(users, n)] \in Entry
        BY <1>1, <4>1, ElementOfSeq
      <4> QED BY <3>2, <4>2 DEF Holds, Entry
    <3> QED BY <3>1, <3>2
  <2> QED BY <2>1, AccountsAre DEF AccountsOf
<1>3. Cardinality(Map!Known) <= UsersMax
  <2>1. Map!Known = Names(users)
    BY AccountsAre DEF Map!Known, Names
  <2> QED BY <1>1, <2>1, NamesFound
<1>4. Map!Init <=> (Accounts \in [Text -> Text \cup {Absent}] /\ Cardinality(Map!Known) <= UsersMax)
  BY Zenon DEF Map!Init, Map!Known, Map!Cardinality, Cardinality
<1> QED BY <1>1, <1>2, <1>3, <1>4

LEMMA MapSteps ==
    ASSUME ServiceInv, StreamInv, Unique(users), StreamStep \/ UNCHANGED vars, [NameFits]_vars
    PROVE  Unique(users') /\ [MapStep]_vars
<1>1. CASE UNCHANGED vars
  BY <1>1 DEF vars
<1>2. CASE ~UNCHANGED vars
  BY <1>2, MapKept
<1> QED BY <1>1, <1>2

LEMMA NextMaps ==
    ASSUME ServiceInv, StreamInv, Unique(users), [Next]_vars, [NameFits]_vars
    PROVE  Unique(users') /\ [MapStep]_vars
<1>1. StreamStep \/ UNCHANGED vars
  BY NextAdvances
<1> QED BY <1>1, MapSteps

LEMMA CNextMaps ==
    ASSUME ServiceInv, StreamInv, PeersInv, Unique(users), [CNext]_allVars, [NameFits]_vars
    PROVE  Unique(users') /\ [MapStep]_vars
<1>1. StreamStep \/ UNCHANGED vars
  <2>1. CASE CNext
    BY <2>1, CNextAdvances
  <2>2. CASE UNCHANGED allVars
    BY <2>2 DEF allVars, vars
  <2> QED BY <2>1, <2>2
<1> QED BY <1>1, MapSteps

\* No name is in two entries.
NamesOnce == Unique(users)

(***************************************************************************)
(* As long as the names that are added fit in an entry, users_add and      *)
(* users_del keep a map: every USER command does to it and says of it what *)
(* UserMap does, and nothing else touches it (src/shared/users.c:46).      *)
(***************************************************************************)
THEOREM TableIsAMap ==
    (Spec /\ NamesFit => ImplementsMap) /\ (CSpec /\ NamesFit => ImplementsMap)
<1>1. Init => NamesOnce /\ Map!Init
  BY MapBegins DEF NamesOnce
<1>2. CInit => NamesOnce /\ Map!Init
  BY MapBegins DEF NamesOnce, CInit
<1>3. ServiceInv /\ StreamInv /\ NamesOnce /\ [Next]_vars /\ [NameFits]_vars
        => NamesOnce' /\ [MapStep]_vars
  BY NextMaps DEF NamesOnce
<1>4. ServiceInv /\ StreamInv /\ PeersInv /\ NamesOnce /\ [CNext]_allVars /\ [NameFits]_vars
        => NamesOnce' /\ [MapStep]_vars
  BY CNextMaps DEF NamesOnce
<1>5. Spec /\ NamesFit => ImplementsMap
  BY <1>1, <1>3, ServiceInvariant, StreamInvariant, PTL DEF Spec, NamesFit, ImplementsMap
<1>6. CSpec /\ NamesFit => ImplementsMap
  BY <1>2, <1>4, ServiceInvariant, StreamInvariant, PeersInvariant, PTL
     DEF CSpec, NamesFit, ImplementsMap
<1> QED BY <1>5, <1>6

-----------------------------------------------------------------------------
\* Beginnings of a stream.

Begins(q, p) == Len(q) <= Len(p) /\ \A i \in 1..Len(q) : q[i] = p[i]

LEMMA BeginsIs ==
    ASSUME NEW q \in Seq(Byte), NEW p \in Seq(Byte)
    PROVE  Begins(q, p) <=> (Len(q) <= Len(p) /\ q = SubSeq(p, 1, Len(q)))
<1>1. PICK n \in Nat : n = Len(q)
  OBVIOUS
<1>2. SUFFICES ASSUME n <= Len(p) PROVE Begins(q, p) <=> q = SubSeq(p, 1, n)
  BY <1>1 DEF Begins
<1>3. \A i \in 1..n : p[i] \in Byte
  BY <1>2
<1>4. PICK c : c = SubSeq(p, 1, n)
  OBVIOUS
<1>5. c \in Seq(Byte) /\ Len(c) = n /\ \A i \in 1..n : c[i] = p[i]
  <2>1. /\ c \in Seq(Byte) /\ Len(c) = IF 1 <= n THEN n - 1 + 1 ELSE 0
        /\ \A i \in 1..(n - 1 + 1) : c[i] = p[1 + i - 1]
    BY <1>3, <1>4, SubSeqProperties
  <2>2. Len(c) = n /\ \A i \in 1..n : 1 + i - 1 = i /\ i \in 1..(n - 1 + 1)
    BY <2>1
  <2> QED BY <2>1, <2>2
<1>6. CASE q = c
  BY <1>1, <1>2, <1>4, <1>5, <1>6 DEF Begins
<1>7. CASE q # c
  <2>1. ~\A i \in 1..n : q[i] = c[i]
    BY <1>1, <1>5, <1>7
  <2>2. ~Begins(q, p)
    BY <1>1, <1>5, <2>1 DEF Begins
  <2> QED BY <1>4, <1>7, <2>2
<1> QED BY <1>6, <1>7

LEMMA BeginsOnwards ==
    ASSUME NEW a \in Seq(Byte), NEW b \in Seq(Byte), NEW c \in Seq(Byte), Begins(a, b), Begins(b, c)
    PROVE  Begins(a, c)
BY DEF Begins

LEMMA BeginsConcat ==
    \A a, b \in Seq(Byte) : Begins(a, a \o b) /\ Begins(a, a) /\ Begins(<<>>, a)
<1> SUFFICES ASSUME NEW a \in Seq(Byte), NEW b \in Seq(Byte)
             PROVE  Begins(a, a \o b) /\ Begins(a, a) /\ Begins(<<>>, a)
  OBVIOUS
<1>1. /\ a \o b \in Seq(Byte) /\ Len(a \o b) = Len(a) + Len(b)
      /\ \A i \in 1..(Len(a) + Len(b)) : (a \o b)[i] = IF i <= Len(a) THEN a[i] ELSE b[i - Len(a)]
  BY ConcatProperties
<1>2. Len(a) \in Nat /\ Len(b) \in Nat
  OBVIOUS
<1>3. Begins(a, a \o b)
  BY <1>1, <1>2 DEF Begins
<1>4. Begins(a, a) /\ Begins(<<>>, a)
  BY <1>2 DEF Begins
<1> QED BY <1>3, <1>4

\* A beginning has no more lines, and as many only when it is all, if all ends with a line.
LEMMA FewerLines ==
    ASSUME NEW q \in Seq(Byte), NEW p \in Seq(Byte), Begins(q, p)
    PROVE  /\ Cardinality(Places(q, LF)) <= Cardinality(Places(p, LF))
           /\ p # <<>> /\ p[Len(p)] = LF /\ Cardinality(Places(q, LF)) = Cardinality(Places(p, LF))
                => q = p
<1>1. Len(q) \in Nat /\ Len(p) \in Nat /\ Len(q) <= Len(p)
  BY DEF Begins
<1>2. Places(q, LF) \subseteq Places(p, LF)
  BY <1>1 DEF Begins, Places
<1>3. IsFiniteSet(Places(p, LF))
  <2>1. IsFiniteSet(1..Len(p))
    BY <1>1, FS_Interval
  <2> QED BY <2>1, FS_Subset DEF Places
<1>4. Cardinality(Places(q, LF)) <= Cardinality(Places(p, LF))
  BY <1>2, <1>3, FS_Subset
<1>5. ASSUME p # <<>>, p[Len(p)] = LF, Cardinality(Places(q, LF)) = Cardinality(Places(p, LF))
      PROVE  q = p
  <2>1. Places(q, LF) = Places(p, LF)
    BY <1>2, <1>3, <1>5, FS_Subset
  <2>2. Len(p) \in 1..Len(p)
    BY <1>1, <1>5, EmptySeq
  <2>3. Len(p) \in Places(q, LF)
    BY <1>5, <2>1, <2>2 DEF Places
  <2>4. Len(q) = Len(p)
    BY <1>1, <2>3 DEF Places
  <2> QED BY <2>4 DEF Begins
<1> QED BY <1>4, <1>5

\* What was handled is a beginning of what was sent.
LEMMA ServedBegins ==
    ASSUME NEW m, Streams(m), ~TooLong(m), m.rst \in BOOLEAN
    PROVE  m.served \in Seq(Byte) /\ m.sent \in Seq(Byte) /\ Begins(m.served, m.sent)
<1>1. Typed(m) /\ InOrder(m)
  BY DEF Streams
<1>2. PICK served \in Seq(Byte), sent \in Seq(Byte), line \in Seq(Byte), inn \in Seq(Byte), net \in Seq(Byte) :
        /\ served = m.served /\ sent = m.sent /\ line = m.line
        /\ inn = NoCR(m.inbuf) /\ net = NoCR(m.net)
  <2>1. m.line \in Seq(Byte)
    BY <1>1, ByteFacts DEF Typed
  <2> QED BY <1>1, <2>1, SeenBytes DEF Typed
<1>3. PICK seen \in Seq(Byte) : seen = Seen(m)
  BY <1>1, SeenBytes
<1>4. Begins(served, seen)
  <2>1. served \o line \in Seq(Byte) /\ Begins(served, served \o line)
    BY BeginsConcat, Joins
  <2>2. seen = served \o line \o inn
    BY <1>2, <1>3 DEF Seen
  <2>3. Begins(served \o line, seen)
    BY <2>1, <2>2, BeginsConcat
  <2> QED BY <2>1, <2>3, BeginsOnwards
<1>5. Begins(seen, sent)
  <2>1. CASE m.rst
    <3>1. Len(seen) <= Len(sent) /\ seen = SubSeq(sent, 1, Len(seen))
      BY <1>1, <1>2, <1>3, <2>1, Zenon DEF InOrder
    <3> QED BY <3>1, BeginsIs
  <2>2. CASE ~m.rst
    <3>1. seen \o net = sent
      BY <1>1, <1>2, <1>3, <2>2, Zenon DEF InOrder
    <3> QED BY <3>1, BeginsConcat
  <2> QED BY <2>1, <2>2
<1> QED BY <1>2, <1>4, <1>5, BeginsOnwards

-----------------------------------------------------------------------------
\* The lines of a run of the client.

LEMMA RunLines ==
    ASSUME NEW r, IsPeer(r)
    PROVE  /\ Command(r) \in Seq(Text)
           /\ r.secret # <<>> => Login(r) \in Seq(Text) /\ Login(r) # <<>> /\ Login(r)[1] = "AUTH"
           /\ Command(r) # <<>> => Command(r)[1] \in Guarded
           /\ Turns(r) \in {1, 2} /\ (r.secret = <<>> <=> Turns(r) = 1)
<1>1. r.argv \in Seq(Seq(Text)) /\ r.secret \in Seq(Seq(Text))
  BY DEF IsPeer
<1>2. Command(r) \in Seq(Text)
  BY <1>1, CommandWords DEF Command
<1>3. ASSUME r.secret # <<>>
      PROVE  Login(r) \in Seq(Text) /\ Login(r) # <<>> /\ Login(r)[1] = "AUTH"
  <2>1. PICK k \in Seq(Seq(Text)) : k = r.secret
    BY <1>1
  <2>2. 1 \in 1..Len(k)
    BY <1>3, <2>1, EmptySeq
  <2>3. PICK w \in Seq(Text) : w = k[1]
    BY <2>2, ElementOfSeq
  <2>4. PICK a \in Seq(Text) : a = <<"AUTH">>
    BY CommandNames, FewWords
  <2>5. Len(a) = 1 /\ a[1] = "AUTH"
    BY <2>4
  <2>6. PICK l : l = a \o w
    OBVIOUS
  <2>7. l \in Seq(Text) /\ Len(l) = Len(a) + Len(w) /\ l[1] = a[1]
    <3>1. /\ l \in Seq(Text) /\ Len(l) = Len(a) + Len(w)
          /\ \A i \in 1..(Len(a) + Len(w)) : l[i] = IF i <= Len(a) THEN a[i] ELSE w[i - Len(a)]
      BY <2>6, ConcatProperties
    <3>2. Len(w) \in Nat /\ 1 \in 1..(Len(a) + Len(w)) /\ 1 <= Len(a)
      BY <2>5
    <3> QED BY <3>1, <3>2
  <2>8. l # <<>>
    <3>1. Len(w) \in Nat /\ Len(l) # 0
      BY <2>5, <2>7
    <3> QED BY <3>1
  <2>9. Login(r) = l
    BY <2>1, <2>3, <2>4, <2>6 DEF Login
  <2> QED BY <2>5, <2>7, <2>8, <2>9
<1>4. Command(r) # <<>> => Command(r)[1] \in Guarded
  <2>1. PICK argv \in Seq(Seq(Text)) : argv = r.argv
    BY <1>1
  <2>2. ASSUME NEW a \in Text, NEW b \in Text, NEW w \in Seq(Text)
        PROVE  (<<a, b>> \o w)[1] = a /\ <<a, b>> \o w \in Seq(Text)
    <3>1. PICK p \in Seq(Text) : p = <<a, b>> /\ Len(p) = 2 /\ p[1] = a
      BY FewWords
    <3>2. /\ p \o w \in Seq(Text) /\ Len(w) \in Nat
          /\ \A i \in 1..(Len(p) + Len(w)) : (p \o w)[i] = IF i <= Len(p) THEN p[i] ELSE w[i - Len(p)]
      BY ConcatProperties
    <3>3. 1 \in 1..(Len(p) + Len(w)) /\ 1 <= Len(p)
      BY <3>1, <3>2
    <3> QED BY <3>1, <3>2, <3>3
  <2>3. ASSUME NEW a \in Text, NEW b \in Text, NEW w \in Seq(Text), NEW v \in Seq(Text)
        PROVE  (<<a, b>> \o w \o v)[1] = a
    <3>1. PICK p \in Seq(Text) : p = <<a, b>> \o w /\ p[1] = a
      BY <2>2
    <3>2. Len(p) \in Nat /\ Len(p) >= 1
      <4>1. Len(<<a, b>> \o w) = Len(<<a, b>>) + Len(w)
        BY ConcatProperties, FewWords
      <4> QED BY <3>1, <4>1
    <3>3. /\ Len(v) \in Nat
          /\ \A i \in 1..(Len(p) + Len(v)) : (p \o v)[i] = IF i <= Len(p) THEN p[i] ELSE v[i - Len(p)]
      BY ConcatProperties
    <3>4. 1 \in 1..(Len(p) + Len(v)) /\ 1 <= Len(p)
      BY <3>2, <3>3
    <3> QED BY <3>1, <3>3, <3>4
  <2>4. <<"STATS">>[1] = "STATS" /\ <<"USERS">>[1] = "USERS" /\ <<"CONFIG", "GET">>[1] = "CONFIG"
    OBVIOUS
  <2>5. Len(argv) = 4 => /\ (<<"USER", "SET">> \o argv[3] \o argv[4])[1] = "USER"
                         /\ (<<"CONFIG", "SET">> \o argv[3] \o argv[4])[1] = "CONFIG"
    <3>1. SUFFICES ASSUME Len(argv) = 4
                   PROVE  /\ (<<"USER", "SET">> \o argv[3] \o argv[4])[1] = "USER"
                          /\ (<<"CONFIG", "SET">> \o argv[3] \o argv[4])[1] = "CONFIG"
      OBVIOUS
    <3>2. \A i \in 1..Len(argv) : argv[i] \in Seq(Text)
      BY ElementOfSeq
    <3>3. PICK w \in Seq(Text), v \in Seq(Text) : w = argv[3] /\ v = argv[4]
      BY <3>1, <3>2
    <3>4. PICK a \in Text, b \in Text, c \in Text : a = "USER" /\ b = "SET" /\ c = "CONFIG"
      BY CommandNames
    <3>5. (<<a, b>> \o w \o v)[1] = a /\ (<<c, b>> \o w \o v)[1] = c
      BY <2>3
    <3> QED BY <3>3, <3>4, <3>5, Zenon
  <2>6. Len(argv) = 3 => (<<"USER", "DELETE">> \o argv[3])[1] = "USER"
    <3>1. SUFFICES ASSUME Len(argv) = 3 PROVE (<<"USER", "DELETE">> \o argv[3])[1] = "USER"
      OBVIOUS
    <3>2. \A i \in 1..Len(argv) : argv[i] \in Seq(Text)
      BY ElementOfSeq
    <3>3. PICK w \in Seq(Text) : w = argv[3]
      BY <3>1, <3>2
    <3>4. PICK a \in Text, b \in Text : a = "USER" /\ b = "DELETE"
      BY CommandNames
    <3>5. (<<a, b>> \o w)[1] = a
      BY <2>2
    <3> QED BY <3>3, <3>4, <3>5, Zenon
  <2>7. "STATS" \in Guarded /\ "USERS" \in Guarded /\ "USER" \in Guarded /\ "CONFIG" \in Guarded
    BY DEF Guarded
  <2>8. BuildCommand(argv) # <<>> => BuildCommand(argv)[1] \in Guarded
    BY <2>4, <2>5, <2>6, <2>7, CommandIs, Zenon
  <2> QED BY <2>1, <2>8 DEF Command
<1>5. Turns(r) \in {1, 2} /\ (r.secret = <<>> <=> Turns(r) = 1)
  BY DEF Turns
<1> QED BY <1>2, <1>3, <1>4, <1>5

LEMMA LineIs ==
    ASSUME NEW v \in Seq(Text)
    PROVE  \E l \in Seq(Byte) : /\ l = Append(v, LF) /\ Len(l) = Len(v) + 1 /\ l[Len(v) + 1] = LF
                               /\ \A i \in 1..Len(v) : l[i] = v[i]
<1>1. PICK b \in Seq(Byte) : b = v
  BY ByteFacts
<1>2. PICK c \in Byte : c = LF
  BY ByteFacts
<1>3. PICK l : l = Append(b, c)
  OBVIOUS
<1>4. /\ l \in Seq(Byte) /\ Len(l) = Len(b) + 1 /\ l[Len(b) + 1] = c
      /\ \A i \in 1..Len(b) : l[i] = b[i]
  BY <1>3, AppendProperties
<1> QED BY <1>1, <1>2, <1>3, <1>4

LEMMA EmptyBytes == <<>> \in Seq(Byte) /\ Len(<<>>) = 0 /\ Cardinality(Places(<<>>, LF)) = 0
<1>1. Places(<<>>, LF) = {}
  BY DEF Places
<1>2. Cardinality(Places(<<>>, LF)) = 0
  BY <1>1, FS_EmptySet
<1>3. <<>> \in Seq(Byte) /\ Len(<<>>) = 0
  OBVIOUS
<1> QED BY <1>2, <1>3

\* The script is whole lines, as many as the run has turns.
LEMMA ScriptIs ==
    ASSUME NEW r, IsPeer(r)
    PROVE  LET l == IF r.secret = <<>> THEN <<>> ELSE Append(Login(r), LF)
           IN  /\ l \in Seq(Byte) /\ Append(Command(r), LF) \in Seq(Byte)
               /\ Script(r) = l \o Append(Command(r), LF) /\ Script(r) \in Seq(Byte)
               /\ Script(r) # <<>> /\ Script(r)[Len(Script(r))] = LF
               /\ Begins(l, Script(r))
               /\ Cardinality(Places(l, LF)) = Turns(r) - 1
               /\ Cardinality(Places(Script(r), LF)) = Turns(r)
<1>1. Command(r) \in Seq(Text) /\ (r.secret # <<>> => Login(r) \in Seq(Text))
  BY RunLines
<1>2. PICK l : l = IF r.secret = <<>> THEN <<>> ELSE Append(Login(r), LF)
  OBVIOUS
<1>3. PICK w \in Seq(Text) : w = Command(r)
  BY <1>1
<1>4. \A v \in Seq(Text) : Append(v, LF) \in Seq(Byte) /\ v \in Seq(Byte)
  <2>1. \A v \in Seq(Text) : v \in Seq(Byte)
    BY ByteFacts
  <2> QED BY <2>1, ByteFacts, AppendProperties
<1>5. l \in Seq(Byte) /\ Cardinality(Places(l, LF)) = Turns(r) - 1
  <2>1. <<>> \in Seq(Byte) /\ Cardinality(Places(<<>>, LF)) = 0
    BY EmptyBytes
  <2>2. CASE r.secret = <<>>
    <3>1. l = <<>> /\ Turns(r) = 1
      BY <1>2, <2>2 DEF Turns
    <3> QED BY <2>1, <3>1
  <2>3. CASE r.secret # <<>>
    <3>1. PICK v \in Seq(Text) : v = Login(r)
      BY <1>1, <2>3
    <3>2. l = Append(v, LF) /\ Turns(r) = 2
      BY <1>2, <2>3, <3>1 DEF Turns
    <3>3. <<>> \o Append(v, LF) = Append(v, LF)
      BY <1>4, ConcatEmptySeq
    <3>4. Cardinality(Places(<<>> \o Append(v, LF), LF)) = Cardinality(Places(<<>>, LF)) + 1
      BY <2>1, ServedMore
    <3>5. Cardinality(Places(l, LF)) = 1
      BY <2>1, <3>2, <3>3, <3>4
    <3> QED BY <1>4, <3>2, <3>5
  <2> QED BY <2>2, <2>3
<1>6. PICK script : script = l \o Append(w, LF)
  OBVIOUS
<1>7. script = Script(r)
  BY <1>2, <1>3, <1>6 DEF Script
<1>8. script \in Seq(Byte) /\ Cardinality(Places(script, LF)) = Turns(r)
  <2>1. Turns(r) \in Nat
    BY RunLines
  <2> QED BY <1>5, <1>6, <2>1, ServedMore
<1>9. Begins(l, script)
  BY <1>4, <1>5, <1>6, BeginsConcat
<1>10. script # <<>> /\ script[Len(script)] = LF
  <2>1. PICK e \in Seq(Byte) : e = Append(w, LF) /\ Len(e) = Len(w) + 1 /\ e[Len(w) + 1] = LF
    BY LineIs
  <2>2. /\ Len(script) = Len(l) + Len(e)
        /\ \A i \in 1..(Len(l) + Len(e)) : script[i] = IF i <= Len(l) THEN l[i] ELSE e[i - Len(l)]
    BY <1>5, <1>6, <2>1, ConcatProperties
  <2>3. Len(l) \in Nat /\ Len(w) \in Nat
    BY <1>5
  <2>4. /\ Len(script) \in 1..(Len(l) + Len(e)) /\ ~(Len(script) <= Len(l))
        /\ Len(script) - Len(l) = Len(w) + 1 /\ Len(script) # 0
    BY <2>1, <2>2, <2>3
  <2>5. script[Len(script)] = LF
    BY <2>1, <2>2, <2>4
  <2> QED BY <2>4, <2>5
<1> QED BY <1>2, <1>3, <1>4, <1>5, <1>6, <1>7, <1>8, <1>9, <1>10

LEMMA SofarIs ==
    ASSUME NEW r, IsPeer(r), NEW k \in 0..Turns(r)
    PROVE  /\ Sofar(r, k) \in Seq(Byte) /\ Begins(Sofar(r, k), Script(r))
           /\ Cardinality(Places(Sofar(r, k), LF)) = k
<1>1. Turns(r) \in {1, 2} /\ (r.secret = <<>> <=> Turns(r) = 1)
  BY RunLines
<1>2. PICK script \in Seq(Byte) : script = Script(r) /\ Cardinality(Places(script, LF)) = Turns(r)
  BY ScriptIs
<1>3. CASE k = 0
  <2>1. Sofar(r, k) = <<>>
    BY <1>3 DEF Sofar
  <2>2. <<>> \in Seq(Byte) /\ Places(<<>>, LF) = {}
    BY DEF Places
  <2> QED BY <1>2, <1>3, <2>1, <2>2, BeginsConcat, FS_EmptySet
<1>4. CASE k = Turns(r)
  <2>1. Sofar(r, k) = script
    BY <1>1, <1>2, <1>4 DEF Sofar
  <2> QED BY <1>2, <1>4, <2>1, BeginsConcat
<1>5. CASE k # 0 /\ k # Turns(r)
  <2>1. k = 1 /\ Turns(r) = 2 /\ r.secret # <<>>
    BY <1>1, <1>5
  <2>2. Sofar(r, k) = Append(Login(r), LF)
    BY <2>1 DEF Sofar
  <2>3. /\ Append(Login(r), LF) \in Seq(Byte) /\ Begins(Append(Login(r), LF), Script(r))
        /\ Cardinality(Places(Append(Login(r), LF), LF)) = Turns(r) - 1
    BY <2>1, ScriptIs
  <2>4. PICK t : t = Turns(r)
    OBVIOUS
  <2>5. t - 1 = k
    BY <2>1, <2>4
  <2> QED BY <2>2, <2>3, <2>4, <2>5, Zenon
<1> QED BY <1>3, <1>4, <1>5

LEMMA SofarMore ==
    ASSUME NEW r, IsPeer(r)
    PROVE  /\ r.secret # <<>> => Sofar(r, 0) \o Append(Login(r), LF) = Sofar(r, 1)
           /\ Sofar(r, Turns(r) - 1) \o Append(Command(r), LF) = Sofar(r, Turns(r))
<1>1. Turns(r) \in {1, 2} /\ (r.secret = <<>> <=> Turns(r) = 1)
  BY RunLines
<1>2. Sofar(r, 0) = <<>>
  BY DEF Sofar
<1>3. CASE r.secret = <<>>
  <2>1. Script(r) = <<>> \o Append(Command(r), LF)
    BY <1>3, ScriptIs
  <2>2. Turns(r) - 1 = 0 /\ Sofar(r, Turns(r)) = Script(r)
    BY <1>1, <1>3 DEF Sofar
  <2> QED BY <1>2, <1>3, <2>1, <2>2
<1>4. CASE r.secret # <<>>
  <2>1. /\ Script(r) = Append(Login(r), LF) \o Append(Command(r), LF)
        /\ Append(Login(r), LF) \in Seq(Byte)
    BY <1>4, ScriptIs
  <2>2. /\ Turns(r) - 1 = 1 /\ Sofar(r, Turns(r)) = Script(r)
        /\ Sofar(r, 1) = Append(Login(r), LF)
    BY <1>1, <1>4 DEF Sofar
  <2>3. <<>> \o Append(Login(r), LF) = Append(Login(r), LF)
    BY <2>1, ConcatEmptySeq
  <2> QED BY <1>2, <2>1, <2>2, <2>3
<1> QED BY <1>3, <1>4

\* The first line that the service handles begins like the first line of the script.
LEMMA FirstWord ==
    ASSUME NEW r, IsPeer(r), Command(r) # <<>>, NEW w \in Seq(Text), Begins(Append(w, LF), Script(r))
    PROVE  /\ r.secret # <<>> => Word(w, 1) = "AUTH"
           /\ r.secret = <<>> => Word(w, 1) \in Guarded
<1>1. PICK line \in Seq(Text), rest \in Seq(Byte) :
        /\ line # <<>> /\ Script(r) = Append(line, LF) \o rest
        /\ r.secret # <<>> => line[1] = "AUTH"
        /\ r.secret = <<>> => line[1] \in Guarded
  <2>1. CASE r.secret # <<>>
    <3>1. /\ Script(r) = Append(Login(r), LF) \o Append(Command(r), LF)
          /\ Append(Command(r), LF) \in Seq(Byte)
      BY <2>1, ScriptIs
    <3>2. Login(r) \in Seq(Text) /\ Login(r) # <<>> /\ Login(r)[1] = "AUTH"
      BY <2>1, RunLines
    <3> QED BY <2>1, <3>1, <3>2
  <2>2. CASE r.secret = <<>>
    <3>1. /\ Script(r) = <<>> \o Append(Command(r), LF)
          /\ Append(Command(r), LF) \in Seq(Byte)
      BY <2>2, ScriptIs
    <3>2. Script(r) = Append(Command(r), LF) \o <<>>
      BY <3>1, ConcatEmptySeq
    <3>3. Command(r) \in Seq(Text) /\ Command(r)[1] \in Guarded
      BY RunLines
    <3>4. <<>> \in Seq(Byte)
      OBVIOUS
    <3> QED BY <2>2, <3>2, <3>3, <3>4
  <2> QED BY <2>1, <2>2
<1>2. Len(line) \in Nat /\ Len(line) >= 1 /\ line[1] \in Text
  <2>1. Len(line) \in Nat /\ Len(line) # 0
    BY <1>1, EmptySeq
  <2> QED BY <2>1, ElementOfSeq
<1>3. PICK l \in Seq(Byte) : l = Append(line, LF) /\ Len(l) = Len(line) + 1 /\ l[1] = line[1]
  <2>1. 1 \in 1..Len(line)
    BY <1>2
  <2> QED BY <2>1, LineIs
<1>4. PICK script \in Seq(Byte) : script = Script(r) /\ script[1] = line[1]
  <2>1. /\ l \o rest \in Seq(Byte)
        /\ \A i \in 1..(Len(l) + Len(rest)) : (l \o rest)[i] = IF i <= Len(l) THEN l[i] ELSE rest[i - Len(l)]
    BY ConcatProperties
  <2>2. Len(rest) \in Nat /\ 1 \in 1..(Len(l) + Len(rest)) /\ 1 <= Len(l)
    BY <1>2, <1>3
  <2> QED BY <1>1, <1>3, <2>1, <2>2
<1>5. PICK e \in Seq(Byte) : /\ e = Append(w, LF) /\ Len(e) = Len(w) + 1 /\ e[Len(w) + 1] = LF
                             /\ \A i \in 1..Len(w) : e[i] = w[i]
  BY LineIs
<1>6. e[1] = script[1]
  <2>1. 1 \in 1..Len(e)
    BY <1>5
  <2> QED BY <1>4, <1>5, <2>1 DEF Begins
<1>7. Len(w) \in Nat /\ Len(w) # 0
  <2>1. ASSUME Len(w) = 0 PROVE FALSE
    <3>1. e[1] = LF
      BY <1>5, <2>1
    <3> QED BY <1>2, <1>4, <1>6, <3>1, ByteFacts
  <2> QED BY <2>1
<1>8. w[1] = line[1]
  BY <1>4, <1>5, <1>6, <1>7
<1>9. Word(w, 1) = w[1]
  <2>1. 1 <= Len(w)
    BY <1>7
  <2> QED BY <2>1, Zenon DEF Word
<1> QED BY <1>1, <1>8, <1>9

-----------------------------------------------------------------------------
\* A run of the client, its session and its history.

\* A run with the same command line.
LEMMA SameRun ==
    ASSUME NEW r, NEW r2, r2.argv = r.argv, r2.secret = r.secret
    PROVE  /\ Command(r2) = Command(r) /\ Login(r2) = Login(r) /\ Script(r2) = Script(r)
           /\ Turns(r2) = Turns(r) /\ \A k : Sofar(r2, k) = Sofar(r, k)
           /\ \A g : Verdict(r2, g) = Verdict(r, g)
<1>1. Command(r2) = Command(r) /\ Login(r2) = Login(r)
  BY DEF Command, Login
<1>2. Turns(r2) = Turns(r) /\ Script(r2) = Script(r)
  BY <1>1, Zenon DEF Turns, Script
<1>3. \A k : Sofar(r2, k) = Sofar(r, k)
  BY <1>1, <1>2, Zenon DEF Sofar
<1>4. \A g : Verdict(r2, g) = Verdict(r, g)
  BY <1>2, Zenon DEF Verdict
<1> QED BY <1>1, <1>2, <1>3, <1>4

LEMMA RunClosed ==
    ASSUME NEW r, NEW m, NEW box, NEW g, RunInv(r, m, box, g), NEW m2, m2.open = FALSE
    PROVE  RunInv(r, m2, box, g)
<1> SUFFICES ASSUME r.pc # "other" PROVE RunInv(r, m2, box, g)
  BY DEF RunInv
<1>1. PICK c \in 0..Turns(r) : Heard(r, m, box, g, c)
  BY DEF RunInv
<1>2. Heard(r, m2, box, g, c)
  BY <1>1 DEF Heard
<1>3. Concluded(r, m2, g)
  BY DEF RunInv, Concluded
<1> QED BY <1>2, <1>3 DEF RunInv

LEMMA RunQuiet ==
    ASSUME NEW r, NEW m, NEW box, NEW g, RunInv(r, m, box, g), NEW m2, m2.open = m.open,
           m2.asked = m.asked, m2.sent = m.sent, m2.served = m.served, m2.answers = m.answers,
           m2.got = m.got
    PROVE  RunInv(r, m2, box, g)
<1> SUFFICES ASSUME r.pc # "other" PROVE RunInv(r, m2, box, g)
  BY DEF RunInv
<1>1. PICK c \in 0..Turns(r) : Heard(r, m, box, g, c)
  BY DEF RunInv
<1>2. Heard(r, m2, box, g, c)
  BY <1>1 DEF Heard
<1>3. Concluded(r, m2, g)
  BY DEF RunInv, Concluded
<1>4. m2.open => Talking(r, m2, g)
  BY DEF RunInv, Talking
<1> QED BY <1>2, <1>3, <1>4 DEF RunInv

\* It ends without having been told anything.
LEMMA RunExits ==
    ASSUME NEW r, NEW m, NEW box, NEW g, RunInv(r, m, box, g), r.pc # "other",
           NEW r2, r2.argv = r.argv, r2.secret = r.secret, r2.pc = "exited",
           r2.exit \in {"1", "signal"}, r2.told = ""
    PROVE  RunInv(r2, m, box, g)
<1>1. PICK c \in 0..Turns(r) : Heard(r, m, box, g, c)
  BY DEF RunInv
<1>2. Heard(r2, m, box, g, c) /\ c \in 0..Turns(r2)
  BY <1>1, SameRun DEF Heard
<1>3. Concluded(r2, m, g)
  BY DEF Concluded
<1>4. ASSUME m.open PROVE Talking(r2, m, g)
  <2>1. Talking(r, m, g)
    BY <1>4 DEF RunInv
  <2>2. Command(r2) = Command(r) /\ Turns(r2) = Turns(r) /\ \A x : Sofar(r2, x) = Sofar(r, x)
    BY SameRun, Zenon
  <2>3. r2.pc \notin {"none", "start", "auth", "authReply", "command", "reply"}
    OBVIOUS
  <2> QED BY <2>1, <2>2, <2>3, Zenon DEF Talking
<1>5. Logged(r2, g)
  BY SameRun DEF RunInv, Logged
<1> QED BY <1>2, <1>3, <1>4, <1>5 DEF RunInv

LEMMA NothingYet ==
    ASSUME NEW r, NEW g, Logged(r, g), r.pc \in {"none", "start"}
    PROVE  g.served = <<>> /\ g.answers = <<>>
<1>1. g.served = <<>> /\ g.answers \in Seq(Answers) /\ Cardinality(Places(g.served, LF)) = Len(g.answers)
  BY DEF Logged
<1>2. Len(g.answers) = 0
  BY <1>1, EmptyBytes
<1> QED BY <1>1, <1>2, EmptySeq

\* Its connection is accepted.
LEMMA RunAccepted ==
    ASSUME NEW r, IsPeer(r), NEW m, NEW box, NEW g, RunInv(r, m, box, g), r.pc = "start",
           Command(r) # <<>>, Fits(Command(r)), NEW r2, r2.argv = r.argv, r2.secret = r.secret,
           r2.exit = r.exit, r2.pc = IF r.secret = <<>> THEN "command" ELSE "auth",
           NEW m2, m2.asked = <<>>, m2.sent = <<>>, m2.served = <<>>, m2.answers = <<>>, m2.got = 0
    PROVE  RunInv(r2, m2, box, g)
<1>1. Logged(r, g) /\ r.exit = "none"
  BY DEF RunInv, Concluded
<1>2. g.served = <<>> /\ g.answers = <<>>
  BY <1>1, NothingYet
<1>3. Turns(r) \in {1, 2} /\ (r.secret = <<>> <=> Turns(r) = 1)
  BY RunLines
<1>4. PICK c \in 0..Turns(r) : Heard(r, m, box, g, c)
  BY DEF RunInv
<1>5. box = <<>>
  <2>1. Len(g.answers) = 0 /\ c \in Nat
    BY <1>2, <1>3, <1>4
  <2> QED BY <1>4, <2>1 DEF Heard
<1>6. r2.pc = "command" \/ r2.pc = "auth"
  OBVIOUS
<1>7. r2.pc = "command" => Turns(r) = 1
  BY <1>3
<1>8. Heard(r2, m2, box, g, 0)
  <2>1. Len(g.answers) = 0 /\ Len(m2.asked) = 0 /\ Len(box) = 0
    BY <1>2, <1>5
  <2>2. r2.pc \in {"command", "reply"} => 0 = Turns(r2) - 1
    BY <1>6, <1>7, SameRun
  <2> QED BY <1>5, <2>1, <2>2 DEF Heard
<1>9. Talking(r2, m2, g)
  <2>1. Len(m2.asked) = 0 /\ Sofar(r2, 0) = <<>>
    BY DEF Sofar
  <2>2. /\ r2.pc \notin {"none", "start"} /\ r2.pc # "authReply" /\ r2.pc # "reply"
        /\ r2.pc = "command" => 0 = Turns(r2) - 1
    BY <1>6, <1>7, SameRun
  <2>3. Command(r2) # <<>> /\ Fits(Command(r2)) /\ 0 <= Turns(r2)
    BY <1>3, SameRun
  <2> QED BY <1>2, <2>1, <2>2, <2>3 DEF Talking
<1>10. Logged(r2, g)
  BY <1>1, <1>2, SameRun DEF Logged
<1>11. Concluded(r2, m2, g)
  <2>1. r2.pc \in {"command", "reply"} => r2.secret = <<>>
    BY <1>6
  <2> QED BY <1>1, <2>1 DEF Concluded
<1>12. 0 \in 0..Turns(r2)
  BY <1>3, SameRun
<1> QED BY <1>8, <1>9, <1>10, <1>11, <1>12 DEF RunInv

\* It sends a line, the next of its script.
NextLine(r, r2, words) ==
    \/ r.pc = "auth" /\ words = Login(r) /\ r2.pc = "authReply"
    \/ r.pc = "command" /\ words = Command(r) /\ r2.pc = "reply"

OnItsWay(m, m2, words) ==
    /\ m2.open = m.open /\ m2.served = m.served /\ m2.answers = m.answers /\ m2.got = m.got
    /\ m2.sent = m.sent \o Append(NoCR(words), LF) /\ m2.asked = Append(m.asked, words)

LEMMA WordsFit ==
    ASSUME NEW words \in Seq(Text), Fits(words)
    PROVE  NoCR(words) = words /\ words \in Seq(Text \cup {CR}) /\ Len(words) < LineSize
<1>1. Len(words) \in Nat
  OBVIOUS
<1>2. Len(words) < LineSize
  BY <1>1, CommandSizeAssumption, SizesAssumption DEF Fits
<1>3. NoCR(words) = words
  BY NoCRWords, RequestsAssumption
<1> QED BY <1>2, <1>3, TextIsSendable

LEMMA AppendIs ==
    ASSUME NEW S, NEW q \in Seq(S), NEW e \in S
    PROVE  \E q2 \in Seq(S) : /\ q2 = Append(q, e) /\ Len(q) \in Nat
                              /\ Len(q2) = Len(q) + 1 /\ q2[Len(q) + 1] = e
                              /\ \A i \in 1..Len(q) : q2[i] = q[i]
<1>1. PICK q2 : q2 = Append(q, e)
  OBVIOUS
<1>2. /\ q2 \in Seq(S) /\ Len(q2) = Len(q) + 1 /\ q2[Len(q) + 1] = e
      /\ \A i \in 1..Len(q) : q2[i] = q[i]
  BY <1>1, AppendProperties
<1> QED BY <1>1, <1>2

LEMMA AppendAsked ==
    ASSUME NEW asked \in Seq(Seq(Text \cup {CR})), NEW words \in Seq(Text \cup {CR})
    PROVE  \E asked2 : /\ asked2 = Append(asked, words) /\ Len(asked) \in Nat
                       /\ Len(asked2) = Len(asked) + 1 /\ asked2[Len(asked) + 1] = words
                       /\ \A i \in 1..Len(asked) : asked2[i] = asked[i]
<1>1. PICK S : S = Seq(Text \cup {CR})
  OBVIOUS
<1>2. asked \in Seq(S) /\ words \in S
  BY <1>1
<1>3. \E q2 \in Seq(S) : /\ q2 = Append(asked, words) /\ Len(asked) \in Nat
                         /\ Len(q2) = Len(asked) + 1 /\ q2[Len(asked) + 1] = words
                         /\ \A i \in 1..Len(asked) : q2[i] = asked[i]
  BY <1>2, AppendIs
<1> QED BY <1>3, Zenon

LEMMA RunAsks ==
    ASSUME NEW r, IsPeer(r), NEW m, NEW box, NEW g, RunInv(r, m, box, g), m.open, Streams(m),
           NEW words \in Seq(Text), Fits(words),
           NEW r2, r2.argv = r.argv, r2.secret = r.secret, r2.exit = r.exit, NextLine(r, r2, words),
           NEW m2, OnItsWay(m, m2, words)
    PROVE  RunInv(r2, m2, box, g)
<1>1. /\ Talking(r, m, g) /\ Logged(r, g) /\ Concluded(r, m, g)
      /\ r.pc # "other" /\ r2.pc \in {"authReply", "reply"}
  BY DEF RunInv, NextLine
<1>2. PICK c \in 0..Turns(r) : Heard(r, m, box, g, c)
  BY <1>1 DEF RunInv
<1>3. Turns(r) \in {1, 2} /\ (r.secret = <<>> <=> Turns(r) = 1)
  BY RunLines
<1>4. NoCR(words) = words /\ words \in Seq(Text \cup {CR}) /\ Len(words) < LineSize
  BY WordsFit
<1>5. PICK asked \in Seq(Seq(Text \cup {CR})) : asked = m.asked
  BY DEF Streams, Typed
<1>6. PICK asked2 : /\ asked2 = Append(asked, words) /\ Len(asked) \in Nat
                    /\ Len(asked2) = Len(asked) + 1 /\ asked2[Len(asked) + 1] = words
                    /\ \A i \in 1..Len(asked) : asked2[i] = asked[i]
  BY <1>4, AppendAsked
<1>7. /\ Len(asked2) = Len(asked) + 1 /\ Len(asked) \in Nat /\ asked2[Len(asked) + 1] = words
      /\ \A i \in 1..Len(asked) : asked2[i] = asked[i]
  BY <1>6
<1>7a. m2.asked = asked2
  BY <1>5, <1>6, Zenon DEF OnItsWay
<1>7b. /\ r.pc = "auth" \/ r.pc = "command"
       /\ r2.pc = "authReply" => r.pc = "auth"
       /\ r2.pc = "reply" => r.pc = "command"
  BY DEF NextLine
<1>8. r.pc = "auth" => Len(asked) = 0 /\ Turns(r) = 2 /\ c = 0
  BY <1>1, <1>2, <1>3, <1>5 DEF Talking, Heard, IsPeer
<1>9. r.pc = "command" => Len(asked) = Turns(r) - 1 /\ c = Turns(r) - 1
  BY <1>1, <1>2, <1>5 DEF Talking, Heard
<1>10. Len(asked) = c /\ Len(asked2) = c + 1 /\ c + 1 <= Turns(r) /\ c \in Nat
  <2>1. PICK n \in Nat : n = Len(asked)
    BY <1>7, Zenon
  <2>1a. PICK t \in {1, 2}, n2 \in {Len(asked2)} : n2 = Len(asked2) /\ t = Turns(r)
    BY <1>3, Zenon
  <2>2. n2 = n + 1
    BY <1>7, <2>1, <2>1a, Zenon
  <2>3. (n = 0 /\ t = 2 /\ c = 0) \/ (n = t - 1 /\ c = t - 1)
    BY <1>7b, <1>8, <1>9, <2>1, <2>1a, Zenon
  <2>4. n = c /\ n2 = c + 1 /\ c + 1 <= t /\ c \in Nat
    BY <2>2, <2>3
  <2> QED BY <2>1, <2>1a, <2>4, Zenon
<1>11. m2.sent = Sofar(r, Len(asked2))
  <2>1. m2.sent = Sofar(r, Len(asked)) \o Append(words, LF)
    BY <1>1, <1>4, <1>5, Zenon DEF Talking, OnItsWay
  <2>2. CASE r.pc = "auth" /\ words = Login(r)
    <3>1. Len(asked) = 0 /\ Len(asked2) = 1 /\ r.secret # <<>>
      BY <1>3, <1>7, <1>8, <2>2
    <3> QED BY <2>1, <2>2, <3>1, SofarMore
  <2>3. CASE r.pc = "command" /\ words = Command(r)
    <3>1. Len(asked) = Turns(r) - 1 /\ Len(asked2) = Turns(r)
      BY <1>3, <1>7, <1>9, <2>3
    <3> QED BY <2>1, <2>3, <3>1, SofarMore
  <2> QED BY <2>2, <2>3 DEF NextLine
<1>12. \A i \in 1..Len(asked2) : Len(NoCR(asked2[i])) < LineSize
  <2>1. \A i \in 1..Len(asked) : Len(NoCR(asked[i])) < LineSize
    BY <1>1, <1>5 DEF Talking
  <2>2. \A i \in 1..Len(asked2) : i \in 1..Len(asked) \/ i = Len(asked) + 1
    BY <1>7
  <2> QED BY <1>4, <1>7, <2>1, <2>2
<1>13. Heard(r2, m2, box, g, c)
  <2>1. Len(m2.asked) <= c + 1
    BY <1>7a, <1>10
  <2>2. r2.pc = "authReply" => c = 0
    BY <1>7b, <1>8
  <2>3. r2.pc = "reply" => c = Turns(r2) - 1 /\ Len(g.answers) >= c
    BY <1>2, <1>7b, <1>9, SameRun DEF Heard
  <2>4. m2.open = m.open /\ m2.got = m.got
    BY DEF OnItsWay
  <2> QED BY <1>1, <1>2, <2>1, <2>2, <2>3, <2>4 DEF Heard
<1>14. Talking(r2, m2, g)
  <2>1. Command(r2) # <<>> /\ Fits(Command(r2)) /\ g.served = m2.served /\ g.answers = m2.answers
    BY <1>1, SameRun DEF Talking, OnItsWay
  <2>2. Len(m2.asked) <= Turns(r2) /\ m2.sent = Sofar(r2, Len(m2.asked))
    <3>1. Len(asked2) <= Turns(r)
      BY <1>10
    <3> QED BY <1>7a, <1>11, <3>1, SameRun, Zenon
  <2>3. /\ r2.pc = "authReply" => Len(m2.asked) = 1
        /\ r2.pc = "reply" => Len(m2.asked) = Turns(r2)
    <3>1. r2.pc = "authReply" => Len(asked2) = 1
      <4>1. r2.pc = "authReply" => Len(asked) = 0
        BY <1>7b, <1>8
      <4>2. Len(asked) = 0 => Len(asked2) = 1
        BY <1>7
      <4> QED BY <4>1, <4>2
    <3>2. r2.pc = "reply" => Len(asked2) = Turns(r2)
      BY <1>3, <1>7, <1>7b, <1>9, SameRun
    <3> QED BY <1>7a, <3>1, <3>2
  <2>4. r2.pc \notin {"none", "start"} /\ r2.pc # "auth" /\ r2.pc # "command"
    BY <1>1
  <2> QED BY <1>7a, <1>12, <2>1, <2>2, <2>3, <2>4 DEF Talking
<1>15. Logged(r2, g)
  BY <1>1, SameRun DEF Logged
<1>16. Concluded(r2, m2, g)
  <2>1. r.exit = "none"
    BY <1>1, <1>7b DEF Concluded
  <2>2. r2.secret # <<>> /\ r2.pc \in {"command", "reply"} => IsOK(g.answers[1])
    BY <1>1, <1>7b DEF Concluded
  <2> QED BY <1>1, <2>1, <2>2 DEF Concluded
<1> QED BY <1>1, <1>2, <1>13, <1>14, <1>15, <1>16, SameRun DEF RunInv

LEMMA OneItem == \A a : Head(<<a>>) = a /\ Tail(<<a>>) = <<>> /\ Len(<<a>>) = 1
OBVIOUS

\* The response that a run reads.
Reads(box, say, box2) == box # <<>> /\ say = Head(box) /\ box2 = Tail(box)

LEMMA RunReads ==
    ASSUME NEW r, IsPeer(r), NEW m, NEW box, NEW g, RunInv(r, m, box, g),
           NEW say, NEW box2, Reads(box, say, box2),
           r.pc \in {"authReply", "reply"}, NEW c \in 0..Turns(r), Heard(r, m, box, g, c)
    PROVE  /\ Turns(r) \in {1, 2} /\ (r.secret = <<>> <=> Turns(r) = 1)
           /\ Len(g.answers) = c + 1 /\ say = g.answers[c + 1] /\ box2 = <<>> /\ Len(box2) = 0
           /\ m.open => Len(m.asked) <= c + 1 /\ m.got = c + 1
           /\ r.pc = "authReply" => c = 0 /\ Turns(r) = 2 /\ (m.open => Len(m.asked) = 1)
           /\ r.pc = "reply" => c = Turns(r) - 1 /\ (m.open => Len(m.asked) = Turns(r))
<1>1. Turns(r) \in {1, 2} /\ (r.secret = <<>> <=> Turns(r) = 1)
  BY RunLines
<1>2. Len(g.answers) = c + 1 /\ box = <<g.answers[c + 1]>>
  BY Zenon DEF Heard, Reads
<1>3. PICK a : a = g.answers[c + 1]
  OBVIOUS
<1>4. say = a /\ box2 = <<>> /\ Len(<<a>>) = 1
  BY <1>2, <1>3, OneItem, Zenon DEF Reads
<1>4a. Len(<<>>) = 0
  OBVIOUS
<1>5. m.open => Len(m.asked) <= c + 1 /\ m.got = c + 1
  BY <1>2, <1>3, <1>4 DEF Heard
<1>6. r.pc = "authReply" => c = 0 /\ Turns(r) = 2 /\ (m.open => Len(m.asked) = 1)
  BY <1>1 DEF Heard, IsPeer, RunInv, Talking
<1>7. r.pc = "reply" => c = Turns(r) - 1 /\ (m.open => Len(m.asked) = Turns(r))
  BY DEF Heard, RunInv, Talking
<1> QED BY <1>1, <1>2, <1>3, <1>4, <1>4a, <1>5, <1>6, <1>7, Zenon

\* The secret was accepted, and the command is next.
LEMMA RunEnters ==
    ASSUME NEW r, IsPeer(r), NEW m, NEW box, NEW g, RunInv(r, m, box, g),
           NEW say, NEW box2, Reads(box, say, box2),
           r.pc = "authReply", IsOK(say),
           NEW r2, r2.argv = r.argv, r2.secret = r.secret, r2.exit = r.exit, r2.pc = "command"
    PROVE  RunInv(r2, m, box2, g)
<1>1. PICK c \in 0..Turns(r) : Heard(r, m, box, g, c)
  BY DEF RunInv
<1>2. /\ Turns(r) = 2 /\ Len(g.answers) = 1 /\ say = g.answers[1] /\ box2 = <<>> /\ Len(box2) = 0
      /\ m.open => Len(m.asked) = 1 /\ m.got = 1
  <2>1. c = 0
    BY <1>1, RunReads
  <2>2. c + 1 = 1
    BY <2>1
  <2>3. /\ Turns(r) = 2 /\ Len(g.answers) = c + 1 /\ say = g.answers[c + 1] /\ box2 = <<>>
        /\ Len(box2) = 0 /\ (m.open => Len(m.asked) = 1 /\ m.got = c + 1)
    BY <1>1, RunReads
  <2> QED BY <2>2, <2>3, Zenon
<1>5. Heard(r2, m, box2, g, 1)
  <2>1. Turns(r2) = 2
    BY <1>2, SameRun
  <2>2. ASSUME m.open PROVE Len(m.asked) <= 1 + 1 /\ m.got = 1 + Len(box2)
    <3>1. Len(m.asked) = 1 /\ m.got = 1 /\ Len(box2) = 0
      BY <1>2, <2>2, Zenon
    <3> QED BY <3>1
  <2>3. Len(g.answers) <= 1 + 1 /\ Len(g.answers) >= 1 /\ 1 = Turns(r2) - 1
    BY <1>2, <2>1
  <2>4. r2.pc \notin {"auth", "authReply"}
    OBVIOUS
  <2> QED BY <1>2, <2>2, <2>3, <2>4, Zenon DEF Heard
<1>6. m.open => Talking(r2, m, g)
  <2>1. m.open => Talking(r, m, g) /\ Len(m.asked) = Turns(r2) - 1
    <3>1. m.open => Talking(r, m, g)
      BY DEF RunInv
    <3>2. Turns(r2) = 2
      BY <1>2, SameRun, Zenon
    <3>3. Turns(r2) - 1 = 1
      BY <3>2
    <3> QED BY <1>2, <3>1, <3>3, Zenon
  <2> QED BY <2>1, SameRun DEF Talking
<1>7. Logged(r2, g)
  BY SameRun DEF RunInv, Logged
<1>8. Concluded(r2, m, g)
  <2>1. r.exit = "none"
    BY DEF RunInv, Concluded
  <2> QED BY <1>2, <2>1 DEF Concluded
<1>9. 1 \in 0..Turns(r2)
  BY <1>2, SameRun
<1> QED BY <1>2, <1>5, <1>6, <1>7, <1>8, <1>9, Zenon DEF RunInv

LEMMA NotOK == ~IsOK("")
BY DEF IsOK

\* It ends with what it was told: the secret is wrong, or the response to its command.
LEMMA RunTold ==
    ASSUME NEW r, IsPeer(r), NEW m, NEW box, NEW g, RunInv(r, m, box, g),
           NEW say, NEW box2, Reads(box, say, box2),
           r.pc \in {"authReply", "reply"}, r.pc = "authReply" => ~IsOK(say),
           NEW r2, r2.argv = r.argv, r2.secret = r.secret, r2.pc = "exited",
           r2.exit = ExitCode(say)
    PROVE  RunInv(r2, m, box2, g)
<1>1. PICK c \in 0..Turns(r) : Heard(r, m, box, g, c)
  BY DEF RunInv
<1>2. /\ Turns(r) \in {1, 2} /\ (r.secret = <<>> <=> Turns(r) = 1)
      /\ Len(g.answers) = c + 1 /\ say = g.answers[c + 1] /\ box2 = <<>> /\ Len(box2) = 0
      /\ m.open => Len(m.asked) <= c + 1 /\ m.got = c + 1
      /\ r.pc = "authReply" => c = 0 /\ Turns(r) = 2 /\ (m.open => Len(m.asked) = 1)
      /\ r.pc = "reply" => c = Turns(r) - 1 /\ (m.open => Len(m.asked) = Turns(r))
  BY <1>1, RunReads
<1>5. PICK t \in {1, 2} : t = Turns(r) /\ t = Turns(r2)
  BY <1>2, SameRun
<1>6. c \in Nat /\ c + 1 \in 0..t
  <2>1. (c = 0 /\ t = 2) \/ c = t - 1
    BY <1>2, <1>5, Zenon
  <2> QED BY <1>5, <2>1
<1>7. Heard(r2, m, box2, g, c + 1)
  <2>1. m.open => Len(m.asked) <= c + 1 + 1 /\ m.got = c + 1 + Len(box2)
    <3>1. ASSUME m.open PROVE Len(m.asked) <= c + 1 + 1
      <4>1. CASE r.pc = "authReply"
        BY <1>2, <1>6, <3>1, <4>1
      <4>2. CASE r.pc = "reply"
        BY <1>2, <1>6, <3>1, <4>2
      <4> QED BY <4>1, <4>2
    <3> QED BY <1>2, <1>6, <3>1
  <2>2. Len(g.answers) <= c + 1 + 1
    BY <1>2, <1>6
  <2>3. r2.pc \notin {"auth", "authReply", "command", "reply"}
    OBVIOUS
  <2> QED BY <1>2, <2>1, <2>2, <2>3 DEF Heard
<1>8. m.open => Talking(r2, m, g)
  BY SameRun DEF RunInv, Talking
<1>9. Logged(r2, g)
  BY SameRun DEF RunInv, Logged
<1>10. Concluded(r2, m, g)
  <2>1. CASE r.pc = "authReply"
    <3>1. r2.exit = "1"
      BY <2>1 DEF ExitCode
    <3>2. c = 0 /\ t = 2 /\ Len(g.answers) = 1 /\ (m.open => Len(m.asked) = 1)
      BY <1>2, <1>5, <2>1
    <3>3. Verdict(r2, g) = ""
      <4>1. ~(Len(g.answers) >= Turns(r2))
        BY <1>5, <3>2
      <4> QED BY <4>1, Zenon DEF Verdict
    <3>4. ASSUME m.open PROVE Len(m.asked) < Turns(r2)
      <4>1. Len(m.asked) = 1 /\ Turns(r2) = 2
        BY <1>5, <3>2, <3>4, Zenon
      <4> QED BY <4>1
    <3> QED BY <3>1, <3>3, <3>4, NotOK, Zenon DEF Concluded
  <2>2. CASE r.pc = "reply"
    <3>1. c + 1 = t /\ Len(g.answers) = Turns(r2) /\ say = g.answers[Turns(r2)]
      <4>1. c + 1 = t
        BY <1>2, <1>5, <2>2
      <4> QED BY <1>2, <1>5, <4>1
    <3>2. Verdict(r2, g) = say
      <4>1. Len(g.answers) >= Turns(r2)
        BY <1>5, <3>1
      <4> QED BY <3>1, <4>1, Zenon DEF Verdict
    <3>3. CASE IsOK(say)
      <4>1. r2.exit = "0"
        BY <3>3 DEF ExitCode
      <4>2. r.secret # <<>>
        <5>1. Turns(r2) \in 1..Len(g.answers)
          BY <1>5, <3>1
        <5> QED BY <3>1, <3>3, <5>1 DEF RunInv, Logged
      <4>3. IsOK(g.answers[1]) /\ g.answers # <<>>
        <5>1. IsOK(g.answers[1])
          BY <2>2, <4>2 DEF RunInv, Concluded
        <5>2. Len(g.answers) # 0
          BY <1>5, <3>1
        <5> QED BY <5>1, <5>2
      <4>4. g.answers[1] = Accepted
        BY <2>2, <4>2, <4>3 DEF RunInv, Logged
      <4> QED BY <3>1, <3>3, <4>1, <4>4, Zenon DEF Concluded
    <3>4. CASE ~IsOK(say)
      <4>1. r2.exit = "1"
        BY <3>4 DEF ExitCode
      <4> QED BY <3>1, <3>2, <3>4, <4>1, Zenon DEF Concluded
    <3> QED BY <3>3, <3>4
  <2> QED BY <2>1, <2>2
<1>11. c + 1 \in 0..Turns(r2)
  BY <1>5, <1>6
<1> QED BY <1>2, <1>7, <1>8, <1>9, <1>10, <1>11, Zenon DEF RunInv

-----------------------------------------------------------------------------
\* The service handles what a run has sent.

LEMMA GrownBack ==
    ASSUME NEW S, NEW a \in Seq(S), NEW b \in Seq(S)
    PROVE  a \o Grown(a, a \o b) = a \o b /\ a \o Grown(a, a) = a
<1>1. Len(a) \in Nat /\ Len(b) \in Nat /\ <<>> \in Seq(S)
  OBVIOUS
<1>2. PICK d : d = a \o b
  OBVIOUS
<1>3. /\ d \in Seq(S) /\ Len(d) = Len(a) + Len(b)
      /\ \A i \in 1..(Len(a) + Len(b)) : d[i] = IF i <= Len(a) THEN a[i] ELSE b[i - Len(a)]
  BY <1>2, ConcatProperties
<1>4. PICK e : e = SubSeq(d, Len(a) + 1, Len(d))
  OBVIOUS
<1>5. e \in Seq(S) /\ Len(e) = Len(b) /\ \A i \in 1..Len(b) : e[i] = d[Len(a) + i]
  BY <1>1, <1>3, <1>4, SubSeqProperties
<1>6. \A i \in 1..Len(b) : d[Len(a) + i] = b[i]
  <2>1. ASSUME NEW i \in 1..Len(b) PROVE d[Len(a) + i] = b[i]
    <3>1. PICK j \in 1..(Len(a) + Len(b)) : j = Len(a) + i
      BY <1>1
    <3>2. ~(j <= Len(a)) /\ j - Len(a) = i
      BY <1>1, <3>1
    <3>3. d[j] = b[i]
      BY <1>3, <3>2, Zenon
    <3> QED BY <3>1, <3>3, Zenon
  <2> QED BY <2>1
<1>7. e = b
  BY <1>5, <1>6
<1>8. SubSeq(a, Len(a) + 1, Len(a)) = <<>>
  BY <1>1, SubSeqProperties
<1>9. a \o <<>> = a
  BY ConcatEmptySeq
<1> QED BY <1>2, <1>4, <1>7, <1>8, <1>9, Zenon DEF Grown

LEMMA AppendJoinsOne ==
    ASSUME NEW S, NEW a \in Seq(S), NEW e \in S
    PROVE  <<e>> \in Seq(S) /\ Append(a, e) = a \o <<e>>
OBVIOUS

LEMMA GrownOne ==
    ASSUME NEW S, NEW a \in Seq(S), NEW e \in S
    PROVE  a \o Grown(a, Append(a, e)) = Append(a, e)
<1>1. PICK b \in Seq(S) : b = <<e>> /\ Append(a, e) = a \o b
  BY AppendJoinsOne
<1>2. a \o Grown(a, a \o b) = a \o b
  BY GrownBack
<1> QED BY <1>1, <1>2, Zenon

\* What a run sends is never too long, and has no more responses than lines.
LEMMA ShortLines ==
    ASSUME NEW r, NEW m, NEW g, Talking(r, m, g), NEW m2, Streams(m2), m2.asked = m.asked
    PROVE  ~TooLong(m2)
<1>1. SUFFICES ASSUME TooLong(m2) PROVE FALSE
  OBVIOUS
<1>2. m2.asked \in Seq(Seq(Text \cup {CR})) /\ InOrder(m2)
  BY DEF Streams, Typed
<1>3. PICK i \in 1..Len(m2.asked) : Len(NoCR(m2.asked[i])) >= LineSize
  BY <1>1, <1>2, Zenon DEF InOrder
<1>4. Len(NoCR(m2.asked[i])) < LineSize
  BY <1>3 DEF Talking
<1>5. m2.asked[i] \in Seq(Text \cup {CR})
  BY <1>2, <1>3, ElementOfSeq
<1>6. PICK n \in Nat : n = Len(NoCR(m2.asked[i]))
  <2>1. NoCR(m2.asked[i]) \in Seq(Text \cup {CR})
    BY <1>5, NoCRWords
  <2>2. PICK q \in Seq(Text \cup {CR}) : q = NoCR(m2.asked[i])
    BY <2>1
  <2>3. Len(q) \in Nat
    OBVIOUS
  <2> QED BY <2>2, <2>3
<1> QED BY <1>3, <1>4, <1>6, SizesAssumption

LEMMA LinesAnswered ==
    ASSUME NEW r, IsPeer(r), NEW m, NEW g, Talking(r, m, g), Typed(m), NEW m2, Streams(m2),
           m2.asked = m.asked, m2.sent = m.sent, m2.rst \in BOOLEAN, m2.answers \in Seq(Answers)
    PROVE  /\ ~TooLong(m2) /\ m2.served \in Seq(Byte) /\ Begins(m2.served, Script(r))
           /\ Cardinality(Places(m2.served, LF)) = Len(m2.answers)
           /\ Len(m.asked) \in 0..Turns(r) /\ Len(m2.answers) \in 0..Len(m.asked)
<1>1. ~TooLong(m2)
  BY ShortLines
<1>2. m2.served \in Seq(Byte) /\ m2.sent \in Seq(Byte) /\ Begins(m2.served, m2.sent)
  BY <1>1, ServedBegins
<1>3. PICK asked \in Seq(Seq(Text \cup {CR})) : asked = m.asked
  BY DEF Typed
<1>4. PICK k \in Nat : k = Len(asked)
  OBVIOUS
<1>5. k \in 0..Turns(r) /\ m2.sent = Sofar(r, k)
  <2>1. k <= Turns(r) /\ m2.sent = Sofar(r, k)
    BY <1>3, <1>4, Zenon DEF Talking
  <2>2. Turns(r) \in Nat
    BY RunLines
  <2> QED BY <2>1, <2>2
<1>6. /\ Sofar(r, k) \in Seq(Byte) /\ Begins(Sofar(r, k), Script(r))
      /\ Cardinality(Places(Sofar(r, k), LF)) = k /\ Script(r) \in Seq(Byte)
  BY <1>5, SofarIs, ScriptIs
<1>7. Begins(m2.served, Script(r))
  BY <1>2, <1>5, <1>6, BeginsOnwards
<1>8. Cardinality(Places(m2.served, LF)) <= k
  BY <1>2, <1>5, <1>6, FewerLines
<1>9. Cardinality(Places(m2.served, LF)) = Len(m2.answers)
  <2>1. Places(m2.answers, LineTooLong) = {}
    BY <1>1 DEF TooLong
  <2>2. Cardinality(Places(m2.answers, LineTooLong)) = 0
    BY <2>1, FS_EmptySet
  <2>3. Cardinality(Places(m2.served, LF)) \in Nat
    BY <1>2, PlacesCounted
  <2>4. Cardinality(Places(m2.served, LF)) + Cardinality(Places(m2.answers, LineTooLong))
          = Len(m2.answers)
    BY DEF Streams, OneEach
  <2> QED BY <2>2, <2>3, <2>4
<1>10. Len(m2.answers) \in 0..k
  <2>1. Len(m2.answers) \in Nat
    OBVIOUS
  <2> QED BY <1>8, <1>9, <2>1
<1> QED BY <1>1, <1>2, <1>3, <1>4, <1>5, <1>7, <1>9, <1>10

\* A step of the service on the session of a run, and the response that it has sent.
Handling(m, m2) ==
    /\ m.open /\ m2.open /\ m2.sent = m.sent /\ m2.asked = m.asked
    /\ m2.got = m.got + IF m.left > 0 THEN 1 ELSE 0

Hears(m, m2, box, box2) ==
    box2 = IF m2.got > m.got THEN Append(box, m2.answers[m2.got]) ELSE box

\* How far the session is with respect to what the run has read.
LEMMA HowFar ==
    ASSUME NEW r, IsPeer(r), NEW m, NEW box, NEW g, RunInv(r, m, box, g), r.pc # "other",
           Streams(m), m.open, m.answers \in Seq(Answers), m.left \in Nat,
           NEW c \in 0..Turns(r), Heard(r, m, box, g, c)
    PROVE  /\ c \in Nat /\ m.got \in Nat /\ Len(m.answers) \in Nat /\ Len(m.answers) <= c + 1
           /\ Len(m.asked) <= c + 1 /\ Len(box) \in {0, 1} /\ m.got = c + Len(box)
           /\ m.got + (IF m.left > 0 THEN 1 ELSE 0) = Len(m.answers)
           /\ Len(box) = 0 => box = <<>>
           /\ box # <<>> => Len(m.answers) = c + 1
<1>1. Turns(r) \in {1, 2}
  BY RunLines
<1>2. c \in Nat
  BY <1>1
<1>3. g.answers = m.answers
  BY DEF RunInv, Talking
<1>4. m.got \in Nat /\ m.got + (IF m.left > 0 THEN 1 ELSE 0) = Len(m.answers)
  BY DEF Streams, Typed, OneEach
<1>5. /\ Len(m.answers) <= c + 1 /\ Len(m.asked) <= c + 1 /\ m.got = c + Len(box)
      /\ box = <<>> \/ (Len(m.answers) = c + 1 /\ box = <<g.answers[c + 1]>>)
  BY <1>3 DEF Heard
<1>6. Len(<<>>) = 0 /\ Len(<<g.answers[c + 1]>>) = 1
  <2>1. Len(<<>>) = 0
    OBVIOUS
  <2> QED BY <2>1, OneItem, Zenon
<1>7. Len(box) \in {0, 1} /\ (Len(box) = 0 => box = <<>>) /\ (box # <<>> => Len(m.answers) = c + 1)
  <2>1. CASE box = <<>>
    BY <1>6, <2>1
  <2>2. CASE box # <<>>
    <3>1. Len(box) = 1 /\ Len(m.answers) = c + 1
      BY <1>5, <1>6, <2>2, Zenon
    <3> QED BY <2>2, <3>1
  <2> QED BY <2>1, <2>2
<1>8. Len(m.answers) \in Nat
  OBVIOUS
<1> QED BY <1>2, <1>4, <1>5, <1>7, <1>8

LEMMA FirstItem == \A a : Append(<<>>, a) = <<a>>
OBVIOUS

\* A response was sent, and nothing is answered.
LEMMA RunSent ==
    ASSUME NEW r, IsPeer(r), NEW m, NEW box, NEW g, RunInv(r, m, box, g), r.pc # "other",
           Streams(m), m.answers \in Seq(Answers), m.left \in Nat, NEW m2, Handling(m, m2),
           m2.answers = m.answers, m2.served = m.served, NEW box2, Hears(m, m2, box, box2)
    PROVE  RunInv(r, m2, box2, g)
<1>1. PICK c \in 0..Turns(r) : Heard(r, m, box, g, c)
  BY DEF RunInv
<1>2. m.open /\ m2.open /\ m2.sent = m.sent /\ m2.asked = m.asked
  BY DEF Handling
<1>3. /\ c \in Nat /\ m.got \in Nat /\ Len(m.answers) \in Nat /\ Len(m.answers) <= c + 1
      /\ Len(m.asked) <= c + 1 /\ Len(box) \in {0, 1} /\ m.got = c + Len(box)
      /\ m.got + (IF m.left > 0 THEN 1 ELSE 0) = Len(m.answers)
      /\ Len(box) = 0 => box = <<>>
  BY <1>1, <1>2, HowFar
<1>4. CASE m.left > 0
  <2>1. Len(box) = 0 /\ m.got = c /\ Len(m.answers) = c + 1 /\ m2.got = c + 1
    BY <1>3, <1>4 DEF Handling
  <2>2. PICK a : a = m.answers[c + 1]
    OBVIOUS
  <2>3. box2 = <<a>>
    <3>1. m2.got > m.got
      BY <1>3, <2>1
    <3>2. box2 = Append(box, a)
      BY <2>1, <2>2, <3>1, Zenon DEF Hears
    <3> QED BY <1>3, <2>1, <3>2, FirstItem, Zenon
  <2>4. Len(box2) = 1
    BY <2>3, OneItem, Zenon
  <2>5. g.answers = m.answers /\ g.served = m.served
    BY <1>2 DEF RunInv, Talking
  <2>6. Heard(r, m2, box2, g, c)
    <3>1. m2.got = c + Len(box2)
      BY <2>1, <2>4
    <3>2. Len(g.answers) = c + 1 /\ box2 = <<g.answers[c + 1]>>
      BY <2>1, <2>2, <2>3, <2>5, Zenon
    <3>3. Len(m2.asked) <= c + 1
      BY <1>2, <1>3
    <3> QED BY <1>1, <3>1, <3>2, <3>3, Zenon DEF Heard
  <2>7. Talking(r, m2, g)
    BY <1>2 DEF RunInv, Talking
  <2>8. Logged(r, g)
    BY DEF RunInv
  <2>9. Concluded(r, m2, g)
    BY <1>2 DEF RunInv, Concluded
  <2> QED BY <2>6, <2>7, <2>8, <2>9 DEF RunInv
<1>5. CASE ~(m.left > 0)
  <2>1. m2.got = m.got
    BY <1>3, <1>5 DEF Handling
  <2>2. ~(m2.got > m.got)
    BY <1>3, <2>1
  <2>3. box2 = box
    BY <2>2, Zenon DEF Hears
  <2> QED BY <1>2, <2>1, <2>3, RunQuiet
<1> QED BY <1>4, <1>5

\* The first response: only AUTH can be accepted before the secret was given.
LEMMA FirstAnswer ==
    ASSUME NEW r, IsPeer(r), NEW m, NEW g, Talking(r, m, g), Logged(r, g), Queued(m),
           m.answers = <<>>, m.authenticated \in BOOLEAN, NEW w \in Seq(Text), NEW say,
           NEW served, served = m.served \o Append(w, LF), Begins(served, Script(r)),
           Replies(m.authenticated, w, say)
    PROVE  /\ r.secret = <<>> => ~IsOK(say)
           /\ r.secret # <<>> /\ IsOK(say) => say = Accepted
<1>1. Command(r) # <<>> /\ g.served = m.served /\ g.answers = m.answers
  BY DEF Talking
<1>2. m.served = <<>>
  BY <1>1 DEF Logged
<1>3. PICK l \in Seq(Byte) : l = Append(w, LF)
  BY LineIs
<1>4. <<>> \o l = l
  BY ConcatEmptySeq
<1>5. Begins(Append(w, LF), Script(r))
  BY <1>2, <1>3, <1>4, Zenon
<1>6. /\ r.secret # <<>> => Word(w, 1) = "AUTH"
      /\ r.secret = <<>> => Word(w, 1) \in Guarded
  BY <1>1, <1>5, FirstWord
<1>7. ~m.authenticated
  <2>1. SUFFICES ASSUME m.authenticated PROVE FALSE
    OBVIOUS
  <2>2. PICK i \in 1..Len(m.answers) : m.answers[i] = Accepted
    BY <2>1 DEF Queued
  <2>3. Len(m.answers) = 0
    OBVIOUS
  <2> QED BY <2>2, <2>3
<1> QED BY <1>6, <1>7, Zenon DEF Replies

\* A line is handled and answered.
Replied(m, m2, w, say) ==
    /\ m2.answers = Append(m.answers, say) /\ say # LineTooLong
    /\ m2.served = m.served \o Append(w, LF) /\ Replies(m.authenticated, w, say)

LEMMA AnswersMore ==
    \A a \in Seq(Answers), say \in Answers : \E a2 \in Seq(Answers) :
        /\ a2 = Append(a, say) /\ Len(a) \in Nat /\ Len(a2) = Len(a) + 1 /\ a2[Len(a) + 1] = say
        /\ \A i \in 1..Len(a) : a2[i] = a[i]
<1>1. SUFFICES ASSUME NEW a \in Seq(Answers), NEW say \in Answers
               PROVE  \E a2 \in Seq(Answers) :
                        /\ a2 = Append(a, say) /\ Len(a) \in Nat /\ Len(a2) = Len(a) + 1
                        /\ a2[Len(a) + 1] = say /\ \A i \in 1..Len(a) : a2[i] = a[i]
  BY Zenon
<1>2. PICK a2 : a2 = Append(a, say)
  OBVIOUS
<1>3. /\ a2 \in Seq(Answers) /\ Len(a2) = Len(a) + 1 /\ a2[Len(a) + 1] = say
      /\ Len(a) \in Nat /\ \A i \in 1..Len(a) : a2[i] = a[i]
  BY <1>2, AppendProperties
<1> QED BY <1>2, <1>3, Zenon

LEMMA RunAnswered ==
    ASSUME NEW r, IsPeer(r), NEW m, NEW box, NEW g, RunInv(r, m, box, g), r.pc # "other",
           Streams(m), SessionInv(m), NEW m2, Handling(m, m2), Streams(m2), SessionInv(m2),
           NEW w \in Seq(Text), NEW say \in Answers, Replied(m, m2, w, say),
           NEW box2, Hears(m, m2, box, box2),
           NEW g2, g2 = [served |-> m2.served, answers |-> m2.answers]
    PROVE  RunInv(r, m2, box2, g2)
<1>1. PICK c \in 0..Turns(r) : Heard(r, m, box, g, c)
  BY DEF RunInv
<1>2. m.open /\ m2.open /\ m2.sent = m.sent /\ m2.asked = m.asked
  BY DEF Handling
<1>3. /\ m.answers \in Seq(Answers) /\ m.left \in Nat /\ m.authenticated \in BOOLEAN
      /\ m2.answers \in Seq(Answers) /\ m2.rst \in BOOLEAN /\ Queued(m) /\ Typed(m)
  BY <1>2 DEF SessionInv, IsSession, Streams
<1>4. Talking(r, m, g) /\ Logged(r, g) /\ Concluded(r, m, g)
  BY <1>2 DEF RunInv
<1>5. /\ c \in Nat /\ m.got \in Nat /\ Len(m.answers) \in Nat /\ Len(m.answers) <= c + 1
      /\ Len(m.asked) <= c + 1 /\ Len(box) \in {0, 1} /\ m.got = c + Len(box)
      /\ m.got + (IF m.left > 0 THEN 1 ELSE 0) = Len(m.answers)
      /\ Len(box) = 0 => box = <<>>
      /\ box # <<>> => Len(m.answers) = c + 1
  BY <1>1, <1>2, <1>3, HowFar
<1>6. /\ ~TooLong(m2) /\ m2.served \in Seq(Byte) /\ Begins(m2.served, Script(r))
      /\ Cardinality(Places(m2.served, LF)) = Len(m2.answers)
      /\ Len(m.asked) \in 0..Turns(r) /\ Len(m2.answers) \in 0..Len(m.asked)
  BY <1>2, <1>3, <1>4, LinesAnswered
<1>7. PICK a \in Seq(Answers) : a = m.answers
  BY <1>3
<1>8. PICK a2 \in Seq(Answers) :
        /\ a2 = Append(a, say) /\ Len(a) \in Nat /\ Len(a2) = Len(a) + 1 /\ a2[Len(a) + 1] = say
        /\ \A i \in 1..Len(a) : a2[i] = a[i]
  BY AnswersMore, Zenon
<1>9. m2.answers = a2 /\ g2.answers = a2 /\ g2.served = m2.served /\ g.answers = a /\ g.served = m.served
  BY <1>4, <1>7, <1>8 DEF Replied, Talking
<1>10. Turns(r) \in {1, 2} /\ (r.secret = <<>> <=> Turns(r) = 1)
  BY RunLines
<1>11. PICK n \in Nat, k \in Nat, t \in {1, 2} : n = Len(a) /\ k = Len(m.asked) /\ t = Turns(r)
  BY <1>6, <1>8, <1>10
<1>12. Len(a2) = n + 1 /\ n + 1 <= k /\ k <= c + 1 /\ k <= t /\ n <= c
  BY <1>5, <1>6, <1>8, <1>9, <1>11
<1>13. box = <<>> /\ ~(m.left > 0) /\ m2.got = m.got
  <2>1. ~(m.left > 0)
    BY <1>5, <1>7, <1>11, <1>12
  <2>2. m2.got = m.got
    BY <1>5, <2>1 DEF Handling
  <2>3. box = <<>>
    BY <1>5, <1>7, <1>11, <1>12
  <2> QED BY <2>1, <2>2, <2>3
<1>14. box2 = <<>> /\ m2.got = c + Len(box2)
  <2>1. ~(m2.got > m.got)
    BY <1>5, <1>13
  <2>2. box2 = box
    BY <2>1, Zenon DEF Hears
  <2> QED BY <1>5, <1>13, <2>2
<1>15. Heard(r, m2, box2, g2, c)
  <2>1. Len(g2.answers) <= c + 1 /\ Len(m2.asked) <= c + 1
    BY <1>2, <1>5, <1>9, <1>11, <1>12
  <2>2. /\ r.pc \in {"auth", "authReply"} => c = 0
        /\ r.pc \in {"command", "reply"} => c = Turns(r) - 1 /\ Len(a) >= c
    BY <1>1, <1>9 DEF Heard
  <2>3. Len(a) >= c => Len(a2) >= c
    BY <1>5, <1>11, <1>12
  <2> QED BY <1>9, <1>14, <2>1, <2>2, <2>3 DEF Heard
<1>16. Talking(r, m2, g2)
  BY <1>2, <1>4, <1>9 DEF Talking
<1>17. a = <<>> => /\ r.secret = <<>> => ~IsOK(say)
                   /\ r.secret # <<>> /\ IsOK(say) => say = Accepted
  <2>1. SUFFICES ASSUME m.answers = <<>>
                 PROVE  /\ r.secret = <<>> => ~IsOK(say)
                        /\ r.secret # <<>> /\ IsOK(say) => say = Accepted
    BY <1>7
  <2>2. PICK served : served = m2.served
    OBVIOUS
  <2>3. served = m.served \o Append(w, LF) /\ Replies(m.authenticated, w, say)
    BY <2>2 DEF Replied
  <2> QED BY <1>3, <1>4, <1>6, <2>1, <2>2, <2>3, FirstAnswer
<1>18. n = 0 => a = <<>> /\ a2[1] = say
  BY <1>8, <1>11
<1>19. n # 0 => a # <<>> /\ a2[1] = a[1]
  <2>1. n # 0 => 1 \in 1..Len(a)
    BY <1>11
  <2> QED BY <1>8, <1>11, <2>1
<1>20. Logged(r, g2)
  <2>1. g2 \in [served : Seq(Byte), answers : Seq(Answers)]
    BY <1>3, <1>6
  <2>2. r.pc \notin {"none", "start"} /\ g2.answers # <<>>
    <3>1. a2 # <<>>
      BY <1>11, <1>12
    <3> QED BY <1>4, <1>9, <3>1 DEF Talking
  <2>3. Len(g2.served) <= Len(Script(r)) /\ g2.served = SubSeq(Script(r), 1, Len(g2.served))
    BY <1>6, <1>9, BeginsIs, ScriptIs
  <2>4. \A i \in 1..Len(a2) : i \in 1..Len(a) \/ i = Len(a) + 1
    BY <1>8
  <2>5. \A i \in 1..Len(a2) : a2[i] # LineTooLong
    <3>1. \A i \in 1..Len(a) : a[i] # LineTooLong
      BY <1>4, <1>9 DEF Logged
    <3>2. say # LineTooLong
      BY DEF Replied
    <3> QED BY <1>8, <2>4, <3>1, <3>2
  <2>6. r.secret = <<>> => \A i \in 1..Len(a2) : ~IsOK(a2[i])
    <3>1. SUFFICES ASSUME r.secret = <<>> PROVE \A i \in 1..Len(a2) : ~IsOK(a2[i])
      OBVIOUS
    <3>2. n = 0
      BY <1>10, <1>11, <1>12, <3>1
    <3>3. ~IsOK(a2[1])
      BY <1>17, <1>18, <3>1, <3>2
    <3>4. \A i \in 1..Len(a2) : i = 1
      BY <1>11, <1>12, <3>2
    <3> QED BY <3>3, <3>4
  <2>7. r.secret # <<>> /\ IsOK(a2[1]) => a2[1] = Accepted
    <3>1. n # 0 => (r.secret # <<>> /\ IsOK(a[1]) => a[1] = Accepted)
      BY <1>4, <1>9, <1>19 DEF Logged
    <3> QED BY <1>17, <1>18, <1>19, <3>1, Zenon
  <2>8. Cardinality(Places(g2.served, LF)) = Len(g2.answers)
    BY <1>6, <1>9
  <2> QED BY <1>9, <2>1, <2>2, <2>3, <2>5, <2>6, <2>7, <2>8, Zenon DEF Logged
<1>21. Concluded(r, m2, g2)
  <2>1. ASSUME r.secret # <<>>, r.pc \in {"command", "reply"} PROVE IsOK(a2[1])
    <3>1. IsOK(a[1])
      BY <1>4, <1>9, <2>1 DEF Concluded
    <3>2. n # 0
      <4>1. c = Turns(r) - 1 /\ Len(a) >= c
        BY <1>1, <1>9, <2>1 DEF Heard
      <4>2. t = 2
        BY <1>10, <1>11, <2>1
      <4> QED BY <1>5, <1>11, <4>1, <4>2
    <3> QED BY <1>19, <3>1, <3>2
  <2>2. r.pc # "exited" => r.exit = "none"
    BY <1>4 DEF Concluded
  <2>3. n # t
    BY <1>11, <1>12
  <2>4. r.exit # "0"
    BY <1>4, <1>9, <1>11, <2>3, Zenon DEF Concluded
  <2>5. ASSUME r.exit = "1", r.told # ""
        PROVE  ~IsOK(Verdict(r, g2)) /\ Len(m2.asked) < Turns(r)
    <3>1. k < t
      BY <1>2, <1>4, <1>9, <1>11, <2>3, <2>5, Zenon DEF Concluded
    <3>2. ~(Len(g2.answers) >= Turns(r))
      BY <1>9, <1>11, <1>12, <3>1
    <3>3. Verdict(r, g2) = ""
      BY <3>2, Zenon DEF Verdict
    <3> QED BY <1>2, <1>11, <3>1, <3>3, NotOK, Zenon
  <2> QED BY <1>9, <2>1, <2>2, <2>4, <2>5, Zenon DEF Concluded
<1> QED BY <1>15, <1>16, <1>20, <1>21, Zenon DEF RunInv

\* What Serves writes down of a step of the service.
Records(m, m2, g, g2) ==
    g2 = [served |-> g.served \o Grown(m.served, m2.served),
          answers |-> g.answers \o Grown(m.answers, m2.answers)]

LEMMA RunServes ==
    ASSUME NEW r, IsPeer(r), NEW m, NEW box, NEW g, RunInv(r, m, box, g), r.pc # "other",
           Streams(m), SessionInv(m), NEW m2, Handling(m, m2), SessionInv(m2),
           NEW us, NEW cf, NEW us2, NEW cf2, Tells(m, us, cf, m2, us2, cf2),
           NEW box2, Hears(m, m2, box, box2), NEW g2, Records(m, m2, g, g2)
    PROVE  RunInv(r, m2, box2, g2)
<1>1. m.open /\ m2.open /\ m2.asked = m.asked /\ m2.sent = m.sent
  BY DEF Handling
<1>2. Streams(m2)
  BY DEF Tells
<1>3. /\ m.answers \in Seq(Answers) /\ m.left \in Nat /\ m2.answers \in Seq(Answers)
      /\ m2.rst \in BOOLEAN /\ Typed(m) /\ m.served \in Seq(Byte)
  BY <1>1 DEF SessionInv, IsSession, Streams, Typed
<1>4. Talking(r, m, g) /\ Logged(r, g)
  BY <1>1 DEF RunInv
<1>5. g.served = m.served /\ g.answers = m.answers
  BY <1>4 DEF Talking
<1>6. CASE m2.answers = m.answers /\ m2.served = m.served
  <2>1. g.served \o Grown(m.served, m2.served) = g.served
    BY <1>3, <1>5, <1>6, GrownBack
  <2>2. g.answers \o Grown(m.answers, m2.answers) = g.answers
    BY <1>3, <1>5, <1>6, GrownBack
  <2>3. g2 = [served |-> g.served, answers |-> g.answers]
    BY <2>1, <2>2, Zenon DEF Records
  <2>4. g2 = g
    BY <1>4, <2>3 DEF Logged
  <2> QED BY <1>3, <1>6, <2>4, RunSent
<1>7. CASE m2.answers = Append(m.answers, LineTooLong)
  <2>1. ~TooLong(m2)
    BY <1>1, <1>2, <1>4, ShortLines
  <2>2. LineTooLong \in Answers
    BY DEF LineTooLong, Answers, Ordinary
  <2>3. PICK a \in Seq(Answers) : a = m.answers
    BY <1>3
  <2>4. PICK a2 \in Seq(Answers) :
          /\ a2 = Append(a, LineTooLong) /\ Len(a) \in Nat /\ Len(a2) = Len(a) + 1
          /\ a2[Len(a) + 1] = LineTooLong /\ \A i \in 1..Len(a) : a2[i] = a[i]
    BY <2>2, AnswersMore, Zenon
  <2>5. Len(a) + 1 \in Places(a2, LineTooLong)
    BY <2>4 DEF Places
  <2>6. m2.answers = a2
    BY <1>7, <2>3, <2>4
  <2> QED BY <2>1, <2>5, <2>6 DEF TooLong
<1>8. CASE \E say \in Answers, w \in Seq(Text) : Replied(m, m2, w, say)
  <2>1. PICK say \in Answers, w \in Seq(Text) : Replied(m, m2, w, say)
    BY <1>8
  <2>2. PICK l \in Seq(Byte) : l = Append(w, LF)
    BY LineIs
  <2>3. m2.served = m.served \o l /\ m2.answers = Append(m.answers, say)
    BY <2>1, <2>2 DEF Replied
  <2>4. g.served \o Grown(m.served, m2.served) = m2.served
    <3>1. PICK b \in Seq(Byte) : b = m.served
      BY <1>3
    <3>2. b \o Grown(b, b \o l) = b \o l
      BY GrownBack
    <3> QED BY <1>5, <2>3, <3>1, <3>2, Zenon
  <2>5. g.answers \o Grown(m.answers, m2.answers) = m2.answers
    BY <1>3, <1>5, <2>3, GrownOne
  <2>6. g2 = [served |-> m2.served, answers |-> m2.answers]
    BY <2>4, <2>5, Zenon DEF Records
  <2> QED BY <1>2, <2>1, <2>6, RunAnswered
<1>9. \/ m2.answers = m.answers /\ m2.served = m.served
      \/ m2.answers = Append(m.answers, LineTooLong)
      \/ \E say \in Answers, w \in Seq(Text) : Replied(m, m2, w, say)
  BY Zenon DEF Tells, Replied
<1> QED BY <1>6, <1>7, <1>8, <1>9

-----------------------------------------------------------------------------
\* Every step keeps what is said of the runs.

Updated(f, f2, s, x) ==
    /\ f2 = [t \in Sessions |-> f2[t]] /\ f2[s] = x
    /\ \A t \in Sessions \ {s} : f2[t] = f[t]

LEMMA Updates ==
    ASSUME NEW f, f = [t \in Sessions |-> f[t]], NEW s \in Sessions, NEW x, NEW f2,
           f2 = [f EXCEPT ![s] = x]
    PROVE  Updated(f, f2, s, x)
<1>1. f2 = [t \in Sessions |-> IF t = s THEN x ELSE f[t]]
  OBVIOUS
<1> QED BY <1>1 DEF Updated

\* The sessions other than s are as they were, or closed.
Elsewhere(s) ==
    /\ inbox' = [t \in Sessions |-> inbox'[t]] /\ log' = [t \in Sessions |-> log'[t]]
    /\ \A t \in Sessions \ {s} : /\ cli'[t] = cli[t] /\ inbox'[t] = inbox[t] /\ log'[t] = log[t]
                                 /\ ses'[t] = ses[t] \/ ses'[t].open = FALSE

LEMMA OneRun ==
    ASSUME RunsInv, NEW s \in Sessions, Elsewhere(s), RunInv(cli'[s], ses'[s], inbox'[s], log'[s])
    PROVE  RunsInv'
<1>1. ASSUME NEW t \in Sessions PROVE RunInv(cli'[t], ses'[t], inbox'[t], log'[t])
  <2>1. CASE t = s
    BY <2>1
  <2>2. CASE t # s
    <3>1. /\ cli'[t] = cli[t] /\ inbox'[t] = inbox[t] /\ log'[t] = log[t]
          /\ ses'[t] = ses[t] \/ ses'[t].open = FALSE
      BY <2>2 DEF Elsewhere
    <3>2. RunInv(cli[t], ses[t], inbox[t], log[t])
      BY DEF RunsInv
    <3>3. RunInv(cli[t], ses'[t], inbox[t], log[t])
      BY <3>1, <3>2, RunClosed
    <3> QED BY <3>1, <3>3
  <2> QED BY <2>1, <2>2
<1> QED BY <1>1 DEF RunsInv, Elsewhere

LEMMA RunMoves ==
    ASSUME NEW r, IsPeer(r), NEW p, NEW r2, r2 = [r EXCEPT !.pc = p]
    PROVE  r2.argv = r.argv /\ r2.secret = r.secret /\ r2.exit = r.exit /\ r2.pc = p
BY DEF IsPeer

EndsSaying(r, r2, code, said) == r2 = [r EXCEPT !.pc = "exited", !.exit = code, !.told = said]

LEMMA RunEnds ==
    ASSUME NEW r, IsPeer(r), NEW code, NEW said, NEW r2, EndsSaying(r, r2, code, said)
    PROVE  /\ r2.argv = r.argv /\ r2.secret = r.secret
           /\ r2.exit = code /\ r2.told = said /\ r2.pc = "exited"
BY DEF IsPeer, EndsSaying

LEMMA HangsSame ==
    ASSUME ServiceInv, NEW s \in Sessions, Hangs(s)
    PROVE  /\ \A t \in Sessions \ {s} : ses'[t] = ses[t]
           /\ ses'[s].open = ses[s].open /\ ses'[s].asked = ses[s].asked /\ ses'[s].sent = ses[s].sent
           /\ ses'[s].served = ses[s].served /\ ses'[s].answers = ses[s].answers
           /\ ses'[s].got = ses[s].got
<1>1. ses = [t \in Sessions |-> ses[t]] /\ IsSession(ses[s])
  BY DEF ServiceInv, SessionInv
<1>2. CASE ~Connected(s)
  BY <1>2 DEF Hangs
<1>3. CASE Connected(s)
  <2>1. PICK m2 : m2 = [ses[s] EXCEPT !.fin = TRUE]
    OBVIOUS
  <2>2. ses' = [ses EXCEPT ![s] = m2]
    BY <1>1, <1>3, <2>1 DEF Hangs
  <2>3. Updated(ses, ses', s, m2)
    BY <1>1, <2>2, Updates
  <2>4. /\ m2.open = ses[s].open /\ m2.asked = ses[s].asked /\ m2.sent = ses[s].sent
        /\ m2.served = ses[s].served /\ m2.answers = ses[s].answers /\ m2.got = ses[s].got
    BY <1>1, <2>1 DEF IsSession
  <2> QED BY <2>3, <2>4 DEF Updated
<1> QED BY <1>2, <1>3

\* The service or its peer touches the session s, and nothing that was said or sent in it.
LEMMA StaysSame ==
    ASSUME ServiceInv, PeersInv, RunsInv, NEW s \in Sessions, NEW m2, ses' = [ses EXCEPT ![s] = m2],
           m2.open = ses[s].open, m2.asked = ses[s].asked, m2.sent = ses[s].sent,
           m2.served = ses[s].served, m2.answers = ses[s].answers, m2.got = ses[s].got,
           UNCHANGED cvars
    PROVE  RunsInv'
<1>1. Updated(ses, ses', s, m2)
  BY Updates DEF ServiceInv
<1>2. cli' = cli /\ inbox' = inbox /\ log' = log
  BY DEF cvars
<1>3. Elsewhere(s)
  BY <1>1, <1>2 DEF Elsewhere, Updated, RunsInv
<1>4. RunInv(cli[s], ses[s], inbox[s], log[s])
  BY DEF RunsInv
<1>5. RunInv(cli[s], m2, inbox[s], log[s])
  BY <1>4, RunQuiet
<1>6. RunInv(cli'[s], ses'[s], inbox'[s], log'[s])
  BY <1>1, <1>2, <1>5 DEF Updated
<1> QED BY <1>3, <1>6, OneRun

\* A run that is no longer there, or was never told anything.
LEMMA ExitsKeep ==
    ASSUME ServiceInv, PeersInv, RunsInv, NEW s \in Sessions, cli[s].pc # "other",
           NEW code \in {"1", "signal"}, Exits(s, cli[s], code, ""), Hangs(s) \/ UNCHANGED <<ses, log>>,
           UNCHANGED inbox
    PROVE  RunsInv'
<1>1. PICK r2 : r2 = [cli[s] EXCEPT !.pc = "exited", !.exit = code, !.told = ""]
  OBVIOUS
<1>1a. EndsSaying(cli[s], r2, code, "")
  BY <1>1 DEF EndsSaying
<1>2. IsPeer(cli[s]) /\ cli = [t \in Sessions |-> cli[t]]
  BY DEF PeersInv
<1>3. Updated(cli, cli', s, r2)
  BY <1>1, <1>2, Updates DEF Exits
<1>4. /\ r2.argv = cli[s].argv /\ r2.secret = cli[s].secret
      /\ r2.exit = code /\ r2.told = "" /\ r2.pc = "exited"
  <2>1. ASSUME NEW said, EndsSaying(cli[s], r2, code, said)
        PROVE  /\ r2.argv = cli[s].argv /\ r2.secret = cli[s].secret
               /\ r2.exit = code /\ r2.told = said /\ r2.pc = "exited"
    BY <1>2, <2>1 DEF EndsSaying, IsPeer
  <2> QED BY <1>1a, <2>1, Zenon
<1>5. RunInv(r2, ses[s], inbox[s], log[s])
  BY <1>4, RunExits DEF RunsInv
<1>6. inbox' = inbox /\ log' = log
  BY DEF Hangs
<1>7. RunInv(r2, ses'[s], inbox[s], log[s]) /\ \A t \in Sessions \ {s} : ses'[t] = ses[t]
  <2>1. CASE Hangs(s)
    BY <1>5, <2>1, HangsSame, RunQuiet
  <2>2. CASE UNCHANGED <<ses, log>>
    BY <1>5, <2>2
  <2> QED BY <2>1, <2>2
<1>8. Elsewhere(s)
  BY <1>3, <1>6, <1>7 DEF Elsewhere, Updated, RunsInv
<1>9. RunInv(cli'[s], ses'[s], inbox'[s], log'[s])
  BY <1>3, <1>6, <1>7 DEF Updated
<1> QED BY <1>8, <1>9, OneRun

LEMMA StartKeeps ==
    ASSUME ServiceInv, PeersInv, RunsInv, NEW s \in Sessions, Start(s)
    PROVE  RunsInv'
<1>1. UNCHANGED <<inbox, log>> /\ cli[s].pc = "start"
  BY DEF Start
<1>2. CASE Exits(s, cli[s], "1", "") /\ UNCHANGED serverVars
  <2>1. UNCHANGED <<ses, log>> /\ UNCHANGED inbox
    BY <1>1, <1>2 DEF serverVars
  <2> QED BY <1>1, <1>2, <2>1, ExitsKeep
<1>3. CASE /\ Command(cli[s]) # <<>> /\ Fits(Command(cli[s])) /\ PassiveAccept(s)
           /\ cli' = [cli EXCEPT ![s].pc = IF cli[s].secret = <<>> THEN "command" ELSE "auth"]
  <2>1. PICK p : p = IF cli[s].secret = <<>> THEN "command" ELSE "auth"
    OBVIOUS
  <2>2. PICK r2 : r2 = [cli[s] EXCEPT !.pc = p]
    OBVIOUS
  <2>3. IsPeer(cli[s]) /\ cli = [t \in Sessions |-> cli[t]]
    BY DEF PeersInv
  <2>4. cli' = [cli EXCEPT ![s] = r2]
    BY <1>3, <2>1, <2>2, <2>3
  <2>5. Updated(cli, cli', s, r2)
    BY <2>3, <2>4, Updates
  <2>6. r2.argv = cli[s].argv /\ r2.secret = cli[s].secret /\ r2.exit = cli[s].exit /\ r2.pc = p
    BY <2>2, <2>3, RunMoves
  <2>7. PICK m2 : m2 = [Closed EXCEPT !.open = TRUE, !.interest = "R"]
    OBVIOUS
  <2>8. Updated(ses, ses', s, m2)
    BY <1>3, <2>7, Updates DEF PassiveAccept, ServiceInv
  <2>9. m2.asked = <<>> /\ m2.sent = <<>> /\ m2.served = <<>> /\ m2.answers = <<>> /\ m2.got = 0
    BY <2>7 DEF Closed
  <2>10. RunInv(cli[s], ses[s], inbox[s], log[s])
    BY DEF RunsInv
  <2>11. RunInv(r2, m2, inbox[s], log[s])
    BY <1>1, <1>3, <2>1, <2>3, <2>6, <2>9, <2>10, RunAccepted
  <2>12. Elsewhere(s)
    BY <1>1, <2>5, <2>8 DEF Elsewhere, Updated, RunsInv
  <2>13. RunInv(cli'[s], ses'[s], inbox'[s], log'[s])
    BY <1>1, <2>5, <2>8, <2>11 DEF Updated
  <2> QED BY <2>12, <2>13, OneRun
<1> QED BY <1>2, <1>3 DEF Start

LEMMA SendsKeep ==
    ASSUME ServiceInv, StreamInv, PeersInv, RunsInv, NEW s \in Sessions, SendAuth(s) \/ SendCommand(s)
    PROVE  RunsInv'
<1>1. IsPeer(cli[s]) /\ cli = [t \in Sessions |-> cli[t]]
  BY DEF PeersInv
<1>2. /\ SessionInv(ses[s]) /\ ses = [t \in Sessions |-> ses[t]] /\ Streams(ses[s]) /\ ses[s].open
      /\ RunInv(cli[s], ses[s], inbox[s], log[s])
  BY InvStreams DEF ServiceInv, SendAuth, SendCommand, Sends, Connected, RunsInv
<1>3. PICK words \in Seq(Text), p \in {"authReply", "reply"} :
        Sends(s, words, p) /\ Fits(words) /\ NextLine(cli[s], [cli[s] EXCEPT !.pc = p], words)
  <2>1. CASE SendAuth(s)
    <3>1. cli[s].pc = "auth" /\ Fits(Login(cli[s])) /\ Sends(s, Login(cli[s]), "authReply")
      BY <2>1 DEF SendAuth
    <3>2. Login(cli[s]) \in Seq(Text)
      BY <3>1, PeerLines
    <3>3. [cli[s] EXCEPT !.pc = "authReply"].pc = "authReply"
      BY <1>1 DEF IsPeer
    <3> QED BY <3>1, <3>2, <3>3, Zenon DEF NextLine
  <2>2. CASE SendCommand(s)
    <3>1. cli[s].pc = "command" /\ Sends(s, Command(cli[s]), "reply")
      BY <2>2 DEF SendCommand
    <3>2. Command(cli[s]) \in Seq(Text) /\ Fits(Command(cli[s]))
      BY <1>2, <3>1, PeerLines DEF RunInv, Talking
    <3>3. [cli[s] EXCEPT !.pc = "reply"].pc = "reply"
      BY <1>1 DEF IsPeer
    <3> QED BY <3>1, <3>2, <3>3, Zenon DEF NextLine
  <2> QED BY <2>1, <2>2
<1>4. PICK r2 : r2 = [cli[s] EXCEPT !.pc = p]
  OBVIOUS
<1>5. PICK m2 : m2 = Asked(ses[s], words)
  OBVIOUS
<1>6. /\ cli' = [cli EXCEPT ![s] = r2] /\ ses' = [ses EXCEPT ![s] = m2]
      /\ inbox' = inbox /\ log' = log
  BY <1>1, <1>3, <1>4, <1>5 DEF Sends
<1>7. Updated(cli, cli', s, r2) /\ Updated(ses, ses', s, m2)
  BY <1>1, <1>2, <1>6, Updates
<1>8. r2.argv = cli[s].argv /\ r2.secret = cli[s].secret /\ r2.exit = cli[s].exit /\ r2.pc = p
  BY <1>1, <1>4, RunMoves
<1>9. OnItsWay(ses[s], m2, words)
  BY <1>2, <1>5 DEF Asked, OnItsWay, SessionInv, IsSession
<1>10. NextLine(cli[s], r2, words)
  BY <1>3, <1>4, Zenon
<1>11. RunInv(r2, m2, inbox[s], log[s])
  BY <1>1, <1>2, <1>3, <1>8, <1>9, <1>10, RunAsks
<1>12. Elsewhere(s)
  BY <1>6, <1>7 DEF Elsewhere, Updated, RunsInv
<1>13. RunInv(cli'[s], ses'[s], inbox'[s], log'[s])
  BY <1>6, <1>7, <1>11 DEF Updated
<1> QED BY <1>12, <1>13, OneRun

\* A response is read.
LEMMA ReadsKeep ==
    ASSUME ServiceInv, PeersInv, RunsInv, NEW s \in Sessions, ReadAuth(s) \/ ReadReply(s)
    PROVE  RunsInv'
<1>1. IsPeer(cli[s]) /\ cli = [t \in Sessions |-> cli[t]]
  BY DEF PeersInv
<1>2. RunInv(cli[s], ses[s], inbox[s], log[s]) /\ inbox = [t \in Sessions |-> inbox[t]]
  BY DEF RunsInv
<1>3. PICK say, box2 : say = Head(inbox[s]) /\ box2 = Tail(inbox[s])
  OBVIOUS
<1>4. /\ Reads(inbox[s], say, box2) /\ inbox' = [inbox EXCEPT ![s] = box2]
      /\ cli[s].pc \in {"authReply", "reply"}
  BY <1>2, <1>3 DEF ReadAuth, ReadReply, Reads
<1>5. Updated(inbox, inbox', s, box2)
  BY <1>2, <1>4, Updates
<1>6. CASE cli[s].pc = "authReply" /\ IsOK(say)
  <2>1. cli' = [cli EXCEPT ![s].pc = "command"] /\ UNCHANGED <<serverVars, log>>
    BY <1>3, <1>6 DEF ReadAuth, ReadReply
  <2>2. PICK r2 : r2 = [cli[s] EXCEPT !.pc = "command"]
    OBVIOUS
  <2>3. cli' = [cli EXCEPT ![s] = r2]
    BY <1>1, <2>1, <2>2
  <2>4. Updated(cli, cli', s, r2)
    BY <1>1, <2>3, Updates
  <2>5. /\ r2.argv = cli[s].argv /\ r2.secret = cli[s].secret /\ r2.exit = cli[s].exit
        /\ r2.pc = "command"
    BY <1>1, <2>2, RunMoves
  <2>6. RunInv(r2, ses[s], box2, log[s])
    BY <1>1, <1>2, <1>4, <1>6, <2>5, RunEnters
  <2>7. ses' = ses /\ log' = log
    BY <2>1 DEF serverVars
  <2>8. Elsewhere(s)
    BY <1>5, <2>4, <2>7 DEF Elsewhere, Updated, RunsInv
  <2>9. RunInv(cli'[s], ses'[s], inbox'[s], log'[s])
    BY <1>5, <2>4, <2>6, <2>7 DEF Updated
  <2> QED BY <2>8, <2>9, OneRun
<1>7. CASE cli[s].pc = "authReply" => ~IsOK(say)
  <2>1. Exits(s, cli[s], ExitCode(say), say) /\ Hangs(s)
    BY <1>3, <1>7 DEF ReadAuth, ReadReply, ExitCode
  <2>2. PICK code : code = ExitCode(say)
    OBVIOUS
  <2>3. PICK r2 : r2 = [cli[s] EXCEPT !.pc = "exited", !.exit = code, !.told = say]
    OBVIOUS
  <2>4. Updated(cli, cli', s, r2)
    BY <1>1, <2>1, <2>2, <2>3, Updates DEF Exits
  <2>5. r2.argv = cli[s].argv /\ r2.secret = cli[s].secret /\ r2.exit = code /\ r2.pc = "exited"
    <3>1. EndsSaying(cli[s], r2, code, say)
      BY <2>3 DEF EndsSaying
    <3> QED BY <1>1, <3>1, RunEnds
  <2>6. RunInv(r2, ses[s], box2, log[s])
    BY <1>1, <1>2, <1>4, <1>7, <2>2, <2>5, RunTold
  <2>7. RunInv(r2, ses'[s], box2, log[s]) /\ \A t \in Sessions \ {s} : ses'[t] = ses[t]
    BY <2>1, <2>6, HangsSame, RunQuiet
  <2>8. log' = log
    BY <2>1 DEF Hangs
  <2>9. Elsewhere(s)
    BY <1>5, <2>4, <2>7, <2>8 DEF Elsewhere, Updated, RunsInv
  <2>10. RunInv(cli'[s], ses'[s], inbox'[s], log'[s])
    BY <1>5, <2>4, <2>7, <2>8 DEF Updated
  <2> QED BY <2>9, <2>10, OneRun
<1> QED BY <1>6, <1>7

LEMMA ServesKeep ==
    ASSUME ServiceInv, ServiceInv', StreamInv, PeersInv, RunsInv, NEW s \in Sessions, Serves(s)
    PROVE  RunsInv'
<1>1. IsPeer(cli[s]) /\ cli' = cli
  BY DEF PeersInv, Serves
<1>2. /\ SessionInv(ses[s]) /\ SessionInv(ses'[s]) /\ ses = [t \in Sessions |-> ses[t]]
      /\ Streams(ses[s])
  BY InvStreams DEF ServiceInv
<1>3. /\ RunInv(cli[s], ses[s], inbox[s], log[s]) /\ inbox = [t \in Sessions |-> inbox[t]]
      /\ log = [t \in Sessions |-> log[t]]
  BY DEF RunsInv
<1>4. Serving(s) \/ Close(s) \/ WriteKilled(s)
  BY <1>2, ReadServes, WriteAllServes DEF Serves, WriteFails
<1>5. ASSUME ses'[s].open = FALSE, \A t \in Sessions \ {s} : ses'[t] = ses[t] \/ ses'[t].open = FALSE
      PROVE  RunsInv'
  <2>1. inbox' = inbox /\ log' = log
    BY <1>5 DEF Serves
  <2>2. Elsewhere(s)
    BY <1>1, <1>3, <1>5, <2>1 DEF Elsewhere
  <2>3. RunInv(cli[s], ses'[s], inbox[s], log[s])
    BY <1>3, <1>5, RunClosed
  <2> QED BY <1>1, <2>1, <2>2, <2>3, OneRun
<1>6. CASE WriteKilled(s)
  <2>1. \A t \in Sessions : ses'[t].open = FALSE
    BY <1>6 DEF WriteKilled, Closed
  <2> QED BY <1>5, <2>1
<1>7. CASE Close(s)
  <2>1. Updated(ses, ses', s, Closed)
    BY <1>2, <1>7, Updates DEF Close
  <2>2. Closed.open = FALSE
    BY DEF Closed
  <2> QED BY <1>5, <2>1, <2>2 DEF Updated
<1>8. CASE Serving(s)
  <2>1. PICK m2 : /\ ses' = [ses EXCEPT ![s] = m2] /\ ses[s].open /\ m2.open
                  /\ m2.got = ses[s].got + IF ses[s].left > 0 THEN 1 ELSE 0
                  /\ Tells(ses[s], users, config, m2, users', config')
    BY <1>8 DEF Serving
  <2>2. Updated(ses, ses', s, m2)
    BY <1>2, <2>1, Updates
  <2>3. ses'[s] = m2 /\ \A t \in Sessions \ {s} : ses'[t] = ses[t]
    BY <2>2 DEF Updated
  <2>4. Handling(ses[s], m2)
    BY <2>1 DEF Handling, Tells
  <2>5. CASE cli[s].pc = "other"
    <3>1. inbox' = inbox /\ log' = log
      BY <2>5 DEF Serves
    <3>2. Elsewhere(s)
      BY <1>1, <1>3, <2>3, <3>1 DEF Elsewhere
    <3>3. RunInv(cli'[s], ses'[s], inbox'[s], log'[s])
      BY <1>1, <1>3, <2>5 DEF RunInv
    <3> QED BY <3>2, <3>3, OneRun
  <2>6. CASE cli[s].pc # "other"
    <3>1. PICK g2 : Records(ses[s], m2, log[s], g2)
      BY DEF Records
    <3>2. log' = [log EXCEPT ![s] = g2]
      BY <1>3, <2>1, <2>3, <2>6, <3>1 DEF Serves, Records
    <3>3. PICK box2 : Hears(ses[s], m2, inbox[s], box2)
      BY DEF Hears
    <3>4. Updated(inbox, inbox', s, box2)
      <4>1. CASE m2.got > ses[s].got
        <5>1. box2 = Append(inbox[s], m2.answers[m2.got])
          BY <3>3, <4>1, Zenon DEF Hears
        <5>2. inbox' = [inbox EXCEPT ![s] = box2]
          BY <1>3, <2>1, <2>3, <2>6, <4>1, <5>1 DEF Serves
        <5> QED BY <1>3, <5>2, Updates
      <4>2. CASE ~(m2.got > ses[s].got)
        <5>1. box2 = inbox[s]
          BY <3>3, <4>2, Zenon DEF Hears
        <5>2. inbox' = inbox
          BY <2>3, <4>2, Zenon DEF Serves
        <5> QED BY <1>3, <5>1, <5>2 DEF Updated
      <4> QED BY <4>1, <4>2
    <3>5. Updated(log, log', s, g2)
      BY <1>3, <3>2, Updates
    <3>6. RunInv(cli[s], m2, box2, g2)
      BY <1>1, <1>2, <1>3, <2>1, <2>3, <2>4, <2>6, <3>1, <3>3, RunServes
    <3>7. Elsewhere(s)
      BY <1>1, <2>3, <3>4, <3>5 DEF Elsewhere, Updated
    <3>8. RunInv(cli'[s], ses'[s], inbox'[s], log'[s])
      BY <1>1, <2>3, <3>4, <3>5, <3>6 DEF Updated
    <3> QED BY <3>7, <3>8, OneRun
  <2> QED BY <2>5, <2>6
<1> QED BY <1>4, <1>6, <1>7, <1>8

LEMMA RunsKept ==
    ASSUME ServiceInv, ServiceInv', StreamInv, PeersInv, RunsInv, [CNext]_allVars
    PROVE  RunsInv'
<1>1. CASE UNCHANGED allVars
  BY <1>1 DEF allVars, RunsInv
<1>2. CASE CNext
  <2>1. PICK s \in Sessions :
          \/ Start(s) \/ ConnectFails(s) \/ SendAuth(s) \/ AuthTooLong(s) \/ ReadAuth(s)
          \/ SendCommand(s) \/ ReadReply(s) \/ ExchangeFails(s) \/ Interrupted(s) \/ Reset(s)
          \/ OtherConnects(s) \/ OtherActs(s)
          \/ Serves(s) \/ ServesPart(s)
    BY <1>2 DEF CNext
  <2>2. ses = [t \in Sessions |-> ses[t]] /\ IsSession(ses[s])
    BY DEF ServiceInv, SessionInv
  <2>3. CASE ConnectFails(s) \/ AuthTooLong(s) \/ ExchangeFails(s) \/ Interrupted(s)
    <3>1. PICK code \in {"1", "signal"} : Exits(s, cli[s], code, "")
      BY <2>3 DEF ConnectFails, AuthTooLong, ExchangeFails, Interrupted
    <3>2. cli[s].pc # "other" /\ UNCHANGED inbox /\ (Hangs(s) \/ UNCHANGED <<ses, log>>)
      BY <2>3 DEF ConnectFails, AuthTooLong, ExchangeFails, Interrupted, serverVars
    <3> QED BY <3>1, <3>2, ExitsKeep
  <2>4. CASE Reset(s)
    <3>1. PICK m2 : m2 = [ses[s] EXCEPT !.rst = TRUE, !.net = <<>>]
      OBVIOUS
    <3>2. ses' = [ses EXCEPT ![s] = m2] /\ UNCHANGED cvars
      BY <2>2, <2>4, <3>1 DEF Reset, ClientResets
    <3>3. /\ m2.open = ses[s].open /\ m2.asked = ses[s].asked /\ m2.sent = ses[s].sent
          /\ m2.served = ses[s].served /\ m2.answers = ses[s].answers /\ m2.got = ses[s].got
      BY <2>2, <3>1 DEF IsSession
    <3> QED BY <3>2, <3>3, StaysSame
  <2>5. CASE ServesPart(s)
    <3>1. PICK left : ses' = [ses EXCEPT ![s].left = left] /\ UNCHANGED cvars
      BY <2>5 DEF ServesPart, WritePart
    <3>2. PICK m2 : m2 = [ses[s] EXCEPT !.left = left]
      OBVIOUS
    <3>3. ses' = [ses EXCEPT ![s] = m2]
      BY <2>2, <3>1, <3>2
    <3>4. /\ m2.open = ses[s].open /\ m2.asked = ses[s].asked /\ m2.sent = ses[s].sent
          /\ m2.served = ses[s].served /\ m2.answers = ses[s].answers /\ m2.got = ses[s].got
      BY <2>2, <3>2 DEF IsSession
    <3> QED BY <3>1, <3>3, <3>4, StaysSame
  <2>6. CASE OtherConnects(s) \/ OtherActs(s)
    <3>1. cli[s].pc = "other" /\ cli' = cli /\ inbox' = inbox /\ log' = log
      BY <2>6 DEF OtherConnects, OtherActs, cvars
    <3>2. \A t \in Sessions \ {s} : ses'[t] = ses[t]
      BY <2>2, <2>6 DEF OtherConnects, OtherActs, PassiveAccept, ClientEnds, ClientSends
    <3>3. Elsewhere(s)
      BY <3>1, <3>2 DEF Elsewhere, RunsInv
    <3>4. RunInv(cli'[s], ses'[s], inbox'[s], log'[s])
      BY <3>1 DEF RunInv, RunsInv
    <3> QED BY <3>3, <3>4, OneRun
  <2> QED BY <2>1, <2>3, <2>4, <2>5, <2>6, StartKeeps, SendsKeep, ReadsKeep, ServesKeep
<1> QED BY <1>1, <1>2

LEMMA RunsBegin ==
    ASSUME CInit
    PROVE  RunsInv
<1>1. inbox = [s \in Sessions |-> <<>>]
      /\ log = [s \in Sessions |-> [served |-> <<>>, answers |-> <<>>]]
      /\ ses = [s \in Sessions |-> Closed]
  BY DEF CInit, Init
<1>2. ASSUME NEW s \in Sessions PROVE RunInv(cli[s], ses[s], inbox[s], log[s])
  <2>1. PICK r, g : r = cli[s] /\ g = [served |-> <<>>, answers |-> <<>>]
    OBVIOUS
  <2>2. r.pc \in {"none", "start", "other"} /\ r.exit = "none" /\ IsPeer(r)
    BY <2>1, ScenesAssumption, PeersBegin DEF CInit, PeersInv
  <2>3. g.served = <<>> /\ g.answers = <<>> /\ g \in [served : Seq(Byte), answers : Seq(Answers)]
    BY <2>1
  <2>4. Turns(r) \in Nat
    BY <2>2, RunLines
  <2>5. Heard(r, Closed, <<>>, g, 0)
    <3>1. Len(g.answers) = 0
      BY <2>3
    <3>2. Closed.open = FALSE
      BY DEF Closed
    <3> QED BY <2>2, <3>1, <3>2 DEF Heard
  <2>6. Logged(r, g)
    <3>1. PICK p : p = g.served /\ p \in Seq(Byte) /\ Len(p) = 0 /\ Cardinality(Places(p, LF)) = 0
      BY <2>3, EmptyBytes
    <3>2. Len(p) <= Len(Script(r)) /\ p = SubSeq(Script(r), 1, Len(p))
      <4>1. PICK c \in Seq(Byte) : c = Script(r)
        BY <2>2, ScriptIs
      <4>2. Begins(p, c)
        BY <3>1 DEF Begins
      <4> QED BY <3>1, <4>1, <4>2, BeginsIs
    <3>3. Len(g.answers) = 0
      BY <2>3
    <3> QED BY <2>3, <3>1, <3>2, <3>3 DEF Logged
  <2>7. Concluded(r, Closed, g)
    BY <2>2 DEF Concluded
  <2>8. Closed.open = FALSE
    BY DEF Closed
  <2>9. RunInv(r, Closed, <<>>, g)
    BY <2>2, <2>4, <2>5, <2>6, <2>7, <2>8 DEF RunInv
  <2> QED BY <1>1, <2>1, <2>9
<1> QED BY <1>1, <1>2 DEF RunsInv

-----------------------------------------------------------------------------
LEMMA RunsConform ==
    ASSUME RunsInv, StreamInv, PeersInv
    PROVE  Conforms /\ ExitTellsTruth
<1>1. ASSUME NEW s \in Sessions, cli[s].pc # "other"
      PROVE  /\ Len(log[s].served) <= Len(Script(cli[s]))
             /\ log[s].served = SubSeq(Script(cli[s]), 1, Len(log[s].served))
             /\ ses[s].open => Len(ses[s].asked) - ses[s].got <= 1
             /\ Len(inbox[s]) <= 1
             /\ \A i \in 1..Len(log[s].answers) : log[s].answers[i] # "-ERR line too long"
             /\ cli[s].exit = "0" =>
                  /\ log[s].served = Script(cli[s]) /\ IsOK(Verdict(cli[s], log[s]))
                  /\ log[s].answers[1] = "+OK authenticated"
             /\ cli[s].exit = "1" /\ cli[s].told # "" => ~IsOK(Verdict(cli[s], log[s]))
  <2>1. PICK r, m, box, g : r = cli[s] /\ m = ses[s] /\ box = inbox[s] /\ g = log[s]
    OBVIOUS
  <2>2. IsPeer(r) /\ Streams(m) /\ RunInv(r, m, box, g) /\ r.pc # "other"
    BY <1>1, <2>1, InvStreams DEF PeersInv, RunsInv
  <2>3. Logged(r, g) /\ Concluded(r, m, g)
    BY <2>2 DEF RunInv
  <2>4. PICK c \in 0..Turns(r) : Heard(r, m, box, g, c)
    BY <2>2 DEF RunInv
  <2>5. Turns(r) \in {1, 2} /\ c \in Nat
    BY <2>2, <2>4, RunLines
  <2>6. Len(box) \in {0, 1}
    <3>1. Len(<<>>) = 0
      OBVIOUS
    <3>2. \A x : Len(<<x>>) = 1
      BY OneItem
    <3> QED BY <2>4, <3>1, <3>2, Zenon DEF Heard
  <2>7. Len(g.served) <= Len(Script(r)) /\ g.served = SubSeq(Script(r), 1, Len(g.served))
    BY <2>3 DEF Logged
  <2>8. ASSUME m.open PROVE Len(m.asked) - m.got <= 1
    <3>1. Len(m.asked) <= c + 1 /\ m.got = c + Len(box)
      BY <2>4, <2>8 DEF Heard
    <3>2. Len(m.asked) \in Nat
      BY <2>2 DEF Streams, Typed
    <3> QED BY <2>5, <2>6, <3>1, <3>2
  <2>9. \A i \in 1..Len(g.answers) : g.answers[i] # "-ERR line too long"
    BY <2>3, Zenon DEF Logged, LineTooLong
  <2>10. ASSUME r.exit = "0"
         PROVE  /\ g.served = Script(r) /\ IsOK(Verdict(r, g))
                /\ g.answers[1] = "+OK authenticated"
    <3>1. Len(g.answers) = Turns(r) /\ IsOK(g.answers[Turns(r)]) /\ g.answers[1] = Accepted
      BY <2>3, <2>10 DEF Concluded
    <3>2. Len(g.answers) >= Turns(r)
      BY <2>5, <3>1
    <3>3. IsOK(Verdict(r, g))
      BY <3>1, <3>2, Zenon DEF Verdict
    <3>4. g.served = Script(r)
      <4>1. PICK q \in Seq(Byte), p \in Seq(Byte) : q = g.served /\ p = Script(r)
        BY <2>2, <2>3, ScriptIs DEF Logged
      <4>2. Begins(q, p)
        BY <2>7, <4>1, BeginsIs
      <4>3. /\ p # <<>> /\ p[Len(p)] = LF
            /\ Cardinality(Places(p, LF)) = Turns(r) /\ Cardinality(Places(q, LF)) = Len(g.answers)
        BY <2>2, <2>3, <4>1, ScriptIs DEF Logged
      <4> QED BY <3>1, <4>1, <4>2, <4>3, FewerLines
    <3> QED BY <3>1, <3>3, <3>4, Zenon DEF Accepted
  <2>11. r.exit = "1" /\ r.told # "" => ~IsOK(Verdict(r, g))
    BY <2>3, Zenon DEF Concluded
  <2>12. Len(box) <= 1
    <3>1. PICK n \in {0, 1} : n = Len(box)
      BY <2>6
    <3>2. n <= 1
      OBVIOUS
    <3> QED BY <3>1, <3>2
  <2> QED BY <2>1, <2>7, <2>8, <2>9, <2>10, <2>11, <2>12, Zenon
<1>2. Conforms
  BY <1>1, Zenon DEF Conforms
<1>3. ASSUME NEW s \in Sessions, cli[s].pc = "other" PROVE cli[s].exit = "none"
  BY <1>3 DEF RunsInv, RunInv
<1>4. ExitTellsTruth
  BY <1>1, <1>3, Zenon DEF ExitTellsTruth
<1> QED BY <1>2, <1>4

(***************************************************************************)
(* The inductive invariant of the runs of the client: how many lines a run *)
(* has sent and how many responses it has read at each place of main, and  *)
(* that what the service has handled is a beginning of its lines, each     *)
(* with its response; also after the end of either side.                   *)
(***************************************************************************)
THEOREM RunsInvariant == CSpec => []RunsInv
<1>1. CInit => RunsInv
  BY RunsBegin
<1>2. ServiceInv /\ ServiceInv' /\ StreamInv /\ PeersInv /\ RunsInv /\ [CNext]_allVars => RunsInv'
  BY RunsKept
<1> QED BY <1>1, <1>2, ServiceInvariant, StreamInvariant, PeersInvariant, PTL DEF CSpec

(***************************************************************************)
(* docs/management-protocol.md:36: the client waits for each response and  *)
(* never repeats its command, whatever is lost or interrupted, and never   *)
(* sends a line that the service finds too long.                           *)
(***************************************************************************)
THEOREM ClientConforms == CSpec => []Conforms
<1>1. RunsInv /\ StreamInv /\ PeersInv => Conforms
  BY RunsConform
<1> QED BY <1>1, RunsInvariant, StreamInvariant, PeersInvariant, PTL

(***************************************************************************)
(* README.md:146: exit code 0 is exactly a command carried out once by a   *)
(* session that gave the secret; an error that was told is a command that  *)
(* was not carried out.                                                    *)
(***************************************************************************)
THEOREM ExitCodesTellTheTruth == CSpec => []ExitTellsTruth
<1>1. RunsInv /\ StreamInv /\ PeersInv => ExitTellsTruth
  BY RunsConform
<1> QED BY <1>1, RunsInvariant, StreamInvariant, PeersInvariant, PTL

=============================================================================
