------------------------- MODULE NegotiationProofs --------------------------
(***************************************************************************)
(* Proofs about the negotiation, for every client, every way its bytes are *)
(* cut into pieces, every contents of the users store and every buffer:    *)
(* each parser knows, after n bytes, exactly what the n bytes say.         *)
(***************************************************************************)
EXTENDS Negotiation, SequenceTheorems, WellFoundedInduction, TLAPS

-----------------------------------------------------------------------------
\* C data.

LEMMA Byte8 ==
    ASSUME NEW n \in 0..255
    PROVE  U8(n) = n
BY DEF U8

\* What is left of m bytes that begin after the second.
LEMMA ToGo ==
    ASSUME NEW m \in 0..255, NEW n \in Nat, n >= 2, n < 2 + m
    PROVE  2 + m - n \in 1..255
OBVIOUS

\* The n + 1 bytes that a parser has been given or is given now.
Given(a, n) == n \in Nat /\ \A i \in 1..n : a[i] \in 0..255

LEMMA NoCellsIs ==
    ASSUME NEW a, NEW k
    PROVE  NoCells = Cells(a, k, 0)
BY DEF NoCells, Cells

LEMMA StoreNext ==
    ASSUME NEW a, NEW k \in Nat, NEW n \in Nat
    PROVE  Store(Cells(a, k, n), n, a[k + 1 + n]) = Cells(a, k, n + 1)
<1>1. DOMAIN Cells(a, k, n) \cup {n} = 0..(n + 1 - 1)
  BY DEF Cells
<1> QED BY <1>1 DEF Store, Cells

LEMMA StoreZero ==
    ASSUME NEW a, NEW k \in Nat, NEW n \in Nat
    PROVE  Store(Cells(a, k, n), n, 0) = Closed(a, k, n)
<1>1. DOMAIN Cells(a, k, n) \cup {n} = 0..n
  BY DEF Cells
<1> QED BY <1>1 DEF Store, Cells, Closed

-----------------------------------------------------------------------------
\* The parsers: one byte more.

LEMMA OffersNext ==
    ASSUME NEW a, NEW n \in Nat, n >= 2
    PROVE  Offers(a, n) \cup ({a[n + 1]} \cap {0, 2}) = Offers(a, n + 1)
<1>1. 3..(n + 1) = 3..n \cup {n + 1}
  OBVIOUS
<1> QED BY <1>1 DEF Offers

LEMMA HelloNext ==
    ASSUME NEW a, NEW n \in Nat, Given(a, n + 1), NEW p, HelloKnows(a, n, p), p.ps \notin Final
    PROVE  HelloKnows(a, n + 1, HelloByte(p, a[n + 1]))
<1>1. CASE n = 0 /\ p = HelloInit
  BY <1>1 DEF HelloInit, HelloByte, HelloKnows, HelloState
<1>2. CASE n = 1 /\ p = HelloState(IF a[1] = 5 THEN "nmethods" ELSE "error", 0, {})
  <2>1. a[1] = 5 /\ p = HelloState("nmethods", 0, {})
    BY <1>2 DEF HelloState, Final
  <2>2. a[2] \in 0..255
    BY <1>2 DEF Given
  <2>3. HelloByte(p, a[2]) = HelloState(IF a[2] = 0 THEN "error" ELSE "methods", a[2], {})
    BY <2>1 DEF HelloByte, HelloState
  <2>4. Offers(a, 2) = {}
    BY DEF Offers
  <2> QED BY <1>2, <2>1, <2>2, <2>3, <2>4 DEF HelloKnows
<1>3. CASE n = 2 /\ a[1] = 5 /\ a[2] = 0 /\ p = HelloState("error", 0, {})
  BY <1>3 DEF HelloState, Final
<1>4. CASE /\ n >= 2 /\ a[1] = 5 /\ a[2] # 0 /\ n <= 2 + a[2]
           /\ p = HelloState(IF n = 2 + a[2] THEN "done" ELSE "methods", 2 + a[2] - n, Offers(a, n))
  <2>1. n # 2 + a[2] /\ p = HelloState("methods", 2 + a[2] - n, Offers(a, n))
    BY <1>4 DEF HelloState, Final
  <2>3a. PICK m \in 0..255 : m = a[2]
    <3>1. n >= 2 /\ 2 \in 1..(n + 1)
      BY <1>4
    <3> QED BY <3>1, Zenon DEF Given
  <2>3c. n >= 2 /\ n < 2 + m
    <3>1. n >= 2 /\ n <= 2 + m /\ n # 2 + m
      BY <1>4, <2>1, <2>3a, Zenon
    <3> QED BY <3>1
  <2>3b. 2 + m - n \in 1..255
    BY <2>3c, ToGo
  <2>3. PICK r \in 1..255 : r = 2 + a[2] - n
    BY <2>3a, <2>3b, Zenon
  <2>4. U8(r - 1) = r - 1
    BY Byte8
  <2>5. HelloByte(p, a[n + 1]) =
          HelloState(IF r = 1 THEN "done" ELSE "methods", r - 1, Offers(a, n) \cup ({a[n + 1]} \cap {0, 2}))
    BY <2>1, <2>3, <2>4 DEF HelloByte, HelloState
  <2>6. HelloByte(p, a[n + 1]) = HelloState(IF r = 1 THEN "done" ELSE "methods", r - 1, Offers(a, n + 1))
    BY <1>4, <2>5, OffersNext
  <2>7. r - 1 = 2 + a[2] - (n + 1) /\ (r = 1 <=> n + 1 = 2 + a[2])
    <3>1. r = 2 + m - n
      BY <2>3, <2>3a, Zenon
    <3>2. r - 1 = 2 + m - (n + 1) /\ (r = 1 <=> n + 1 = 2 + m)
      BY <3>1
    <3> QED BY <3>2, <2>3a, Zenon
  <2>8. n + 1 >= 2 /\ n + 1 <= 2 + a[2]
    <3>1. n + 1 >= 2 /\ n + 1 <= 2 + m
      BY <2>3c
    <3> QED BY <3>1, <2>3a, Zenon
  <2> QED BY <1>4, <2>6, <2>7, <2>8 DEF HelloKnows
<1> QED BY <1>1, <1>2, <1>3, <1>4 DEF HelloKnows

\* One byte of a name, or of a password, of which r bytes are left.
AfterUname(p, r, u, c, d, b) ==
    /\ r = 1 => AuthByte(p, b) = AuthState("plen", 0, u, 0, Store(Store(c, u - r, b), u, 0), d)
    /\ r # 1 => AuthByte(p, b) = AuthState("uname", r - 1, u, 0, Store(c, u - r, b), d)

AfterPasswd(p, r, u, v, c, d, b) ==
    /\ r = 1 => AuthByte(p, b) = AuthState("done", 0, u, v, c, Store(Store(d, v - r, b), v, 0))
    /\ r # 1 => AuthByte(p, b) = AuthState("passwd", r - 1, u, v, c, Store(d, v - r, b))

LEMMA UnameByte ==
    ASSUME NEW r \in 1..255, NEW u \in Nat, NEW c, NEW d, NEW b,
           NEW p, p = AuthState("uname", r, u, 0, c, d)
    PROVE  AfterUname(p, r, u, c, d, b)
<1>1. U8(r - 1) = r - 1 /\ (r = 1 => r - 1 = 0)
  BY Byte8
<1>3. p.ps = "uname" /\ p.rem = r /\ p.ulen = u /\ p.uname = c
  BY DEF AuthState
<1>4. PICK s1, s2 : s1 = Store(c, u - r, b) /\ s2 = Store(s1, u, 0)
  OBVIOUS
<1>5. AuthByte(p, b) =
        [p EXCEPT !.uname = IF r = 1 THEN s2 ELSE s1, !.rem = r - 1,
                  !.ps = IF r = 1 THEN "plen" ELSE "uname"]
  BY <1>1, <1>3, <1>4 DEF AuthByte
<1>6. AuthByte(p, b) = AuthState(IF r = 1 THEN "plen" ELSE "uname", r - 1, u, 0, IF r = 1 THEN s2 ELSE s1, d)
  BY <1>5 DEF AuthState
<1> QED BY <1>1, <1>4, <1>6 DEF AfterUname

LEMMA PasswdByte ==
    ASSUME NEW r \in 1..255, NEW u, NEW v \in Nat, NEW c, NEW d, NEW b,
           NEW p, p = AuthState("passwd", r, u, v, c, d)
    PROVE  AfterPasswd(p, r, u, v, c, d, b)
<1>1. U8(r - 1) = r - 1 /\ (r = 1 => r - 1 = 0)
  BY Byte8
<1>3. p.ps = "passwd" /\ p.rem = r /\ p.plen = v /\ p.passwd = d
  BY DEF AuthState
<1>4. PICK s1, s2 : s1 = Store(d, v - r, b) /\ s2 = Store(s1, v, 0)
  OBVIOUS
<1>5. AuthByte(p, b) =
        [p EXCEPT !.passwd = IF r = 1 THEN s2 ELSE s1, !.rem = r - 1,
                  !.ps = IF r = 1 THEN "done" ELSE "passwd"]
  BY <1>1, <1>3, <1>4 DEF AuthByte
<1>6. AuthByte(p, b) = AuthState(IF r = 1 THEN "done" ELSE "passwd", r - 1, u, v, c, IF r = 1 THEN s2 ELSE s1)
  BY <1>5 DEF AuthState
<1> QED BY <1>1, <1>4, <1>6 DEF AfterPasswd

LEMMA LengthByte ==
    ASSUME NEW b \in 0..255, NEW u, NEW c, NEW d
    PROVE  /\ AuthByte(AuthState("ulen", 0, 0, 0, c, d), b) =
                AuthState(IF b = 0 THEN "error" ELSE "uname", b, b, 0, c, d)
           /\ AuthByte(AuthState("plen", 0, u, 0, c, d), b) =
                AuthState(IF b = 0 THEN "error" ELSE "passwd", b, u, b, c, d)
BY DEF AuthByte, AuthState

\* A login that has its first two bytes, right so far: the length of the name is u.
Login(a, u, n, p) ==
    \/ NameKnows(a, n, p)
    \/ n >= 3 + u /\ PasswordKnows(a, u, n, p)

LEMMA NameNext ==
    ASSUME NEW a, NEW n \in Nat, n >= 2, NEW u \in 1..255, u = a[2], Given(a, n + 1),
           NEW p, NameKnows(a, n, p)
    PROVE  Login(a, u, n + 1, AuthByte(p, a[n + 1]))
<1>1. CASE n < 2 + u /\ p = AuthState("uname", 2 + u - n, u, 0, Cells(a, 2, n - 2), NoCells)
  <2>1a. u \in 0..255 /\ n < 2 + u
    BY <1>1
  <2>1b. 2 + u - n \in 1..255
    BY <2>1a, ToGo
  <2>1. PICK r \in 1..255 : r = 2 + u - n
    BY <2>1b, Zenon
  <2>2. PICK k \in Nat : k = n - 2
    OBVIOUS
  <2>3. k = u - r /\ 2 + 1 + k = n + 1 /\ n - 1 = k + 1 /\ (r = 1 => u = k + 1)
    BY <2>1, <2>2
  <2>4. Store(Cells(a, 2, k), k, a[n + 1]) = Cells(a, 2, k + 1)
    <3>1. 2 \in Nat /\ u \in Nat
      OBVIOUS
    <3>2. Store(Cells(a, 2, k), k, a[2 + 1 + k]) = Cells(a, 2, k + 1)
      BY <3>1, StoreNext, Zenon
    <3> QED BY <2>3, <3>2, Zenon
  <2>5. Store(Cells(a, 2, k + 1), k + 1, 0) = Closed(a, 2, k + 1)
    BY StoreZero
  <2>6. p = AuthState("uname", r, u, 0, Cells(a, 2, k), NoCells)
    BY <1>1, <2>1, <2>2, Zenon
  <2>7. AuthByte(p, a[n + 1]) =
             IF r = 1 THEN AuthState("plen", 0, u, 0, Closed(a, 2, u), NoCells)
             ELSE AuthState("uname", r - 1, u, 0, Cells(a, 2, k + 1), NoCells)
    <3>1. /\ r = 1 => AuthByte(p, a[n + 1]) =
               AuthState("plen", 0, u, 0, Store(Store(Cells(a, 2, k), u - r, a[n + 1]), u, 0), NoCells)
          /\ r # 1 => AuthByte(p, a[n + 1]) =
               AuthState("uname", r - 1, u, 0, Store(Cells(a, 2, k), u - r, a[n + 1]), NoCells)
      <4>1. u \in Nat
        OBVIOUS
      <4>2. AfterUname(p, r, u, Cells(a, 2, k), NoCells, a[n + 1])
        BY <2>6, <4>1, UnameByte
      <4> QED BY <4>2 DEF AfterUname
    <3>2. CASE r = 1
      BY <2>3, <2>4, <2>5, <3>1, <3>2, Zenon
    <3>3. CASE r # 1
      BY <2>3, <2>4, <3>1, <3>3, Zenon
    <3> QED BY <3>2, <3>3
  <2>8. n + 1 - 2 = k + 1 /\ r - 1 = 2 + u - (n + 1) /\ (r = 1 <=> n + 1 = 2 + u) /\ n + 1 <= 2 + u
    BY <2>1, <2>2
  <2> QED BY <2>7, <2>8 DEF Login, NameKnows
<1>2. CASE n = 2 + u /\ p = AuthState("plen", 0, u, 0, Closed(a, 2, u), NoCells)
  <2>1. PICK b \in 0..255 : b = a[n + 1] /\ b = a[3 + u]
    <3>1. n + 1 = 3 + u
      BY <1>2
    <3>2. a[n + 1] \in 0..255
      BY DEF Given
    <3> QED BY <3>1, <3>2, Zenon
  <2>2. AuthByte(p, a[n + 1]) =
          AuthState(IF b = 0 THEN "error" ELSE "passwd", b, u, b, Closed(a, 2, u), NoCells)
    BY <1>2, <2>1, LengthByte
  <2>3. n + 1 = 3 + u /\ 3 + u + b - (n + 1) = b /\ n + 1 - 3 - u = 0 /\ (b # 0 => n + 1 < 3 + u + b)
    BY <1>2
  <2>4. NoCells = Cells(a, 3 + u, n + 1 - 3 - u)
    BY <2>3, NoCellsIs
  <2>5. PasswordKnows(a, u, n + 1, AuthByte(p, a[n + 1]))
    BY <2>1, <2>2, <2>3, <2>4 DEF PasswordKnows
  <2> QED BY <2>3, <2>5 DEF Login
<1> QED BY <1>1, <1>2 DEF NameKnows

LEMMA PasswordNext ==
    ASSUME NEW a, NEW n \in Nat, NEW u \in 1..255, n >= 3 + u, Given(a, n + 1),
           NEW p, PasswordKnows(a, u, n, p), p.ps \notin Final
    PROVE  PasswordKnows(a, u, n + 1, AuthByte(p, a[n + 1]))
<1>0. PICK v \in 0..255 : v = a[3 + u]
  <2>1. 3 + u \in 1..(n + 1)
    OBVIOUS
  <2>2. a[3 + u] \in 0..255
    BY <2>1 DEF Given
  <2> QED BY <2>2, Zenon
<1>1. PICK c : c = Closed(a, 2, u)
  OBVIOUS
<1>2. /\ v # 0 /\ n < 3 + u + v
      /\ p = AuthState("passwd", 3 + u + v - n, u, v, c, Cells(a, 3 + u, n - 3 - u))
  <2>1. \/ n = 3 + u /\ v = 0 /\ p = AuthState("error", 0, u, 0, c, NoCells)
        \/ v # 0 /\ n < 3 + u + v
             /\ p = AuthState("passwd", 3 + u + v - n, u, v, c, Cells(a, 3 + u, n - 3 - u))
        \/ v # 0 /\ n = 3 + u + v
             /\ p = AuthState("done", 0, u, v, c, Closed(a, 3 + u, v))
    BY <1>0, <1>1, Zenon DEF PasswordKnows
  <2>2. \A x, y, z, w, q : /\ p # AuthState("error", x, y, z, w, q)
                           /\ \A k : p # AuthState("done", x, y, z, w, k)
    BY DEF AuthState, Final
  <2>3. \A x, y, z, w, q, k : p # AuthState("done", x, y, z, w, k) /\ p # AuthState("error", x, y, z, w, k)
    BY DEF AuthState, Final
  <2> QED BY <2>1, <2>3, Zenon
<1>3. PICK r \in 1..255 : r = 3 + u + v - n
  BY <1>2
<1>4. PICK k \in Nat : k = n - 3 - u
  OBVIOUS
<1>5. PICK h \in Nat : h = 3 + u
  OBVIOUS
<1>6. /\ k = v - r /\ h + 1 + k = n + 1 /\ (r = 1 => v = k + 1)
      /\ n + 1 - 3 - u = k + 1 /\ 3 + u + v - (n + 1) = r - 1
      /\ (r = 1 => n + 1 = 3 + u + v) /\ (r # 1 => n + 1 < 3 + u + v)
  BY <1>3, <1>4, <1>5
<1>7. Store(Cells(a, h, k), k, a[n + 1]) = Cells(a, h, k + 1)
  <2>1. Store(Cells(a, h, k), k, a[h + 1 + k]) = Cells(a, h, k + 1)
    BY StoreNext, Zenon
  <2> QED BY <1>6, <2>1, Zenon
<1>8. Store(Cells(a, h, k + 1), k + 1, 0) = Closed(a, h, k + 1)
  BY StoreZero
<1>9. AuthByte(p, a[n + 1]) =
        IF r = 1 THEN AuthState("done", 0, u, v, c, Closed(a, h, v))
        ELSE AuthState("passwd", r - 1, u, v, c, Cells(a, h, k + 1))
  <2>0. v \in Nat
    OBVIOUS
  <2>1. p = AuthState("passwd", r, u, v, c, Cells(a, h, k)) /\ v \in Nat
    BY <1>2, <1>3, <1>4, <1>5, <2>0, Zenon
  <2>2. /\ r = 1 => AuthByte(p, a[n + 1]) =
             AuthState("done", 0, u, v, c, Store(Store(Cells(a, h, k), v - r, a[n + 1]), v, 0))
        /\ r # 1 => AuthByte(p, a[n + 1]) =
             AuthState("passwd", r - 1, u, v, c, Store(Cells(a, h, k), v - r, a[n + 1]))
    <3>1. AfterPasswd(p, r, u, v, c, Cells(a, h, k), a[n + 1])
      BY <2>1, PasswdByte
    <3> QED BY <3>1 DEF AfterPasswd
  <2>3. CASE r = 1
    BY <1>6, <1>7, <1>8, <2>2, <2>3, Zenon
  <2>4. CASE r # 1
    BY <1>6, <1>7, <2>2, <2>4, Zenon
  <2> QED BY <2>3, <2>4
<1>10. CASE r = 1
  <2>1. n + 1 = 3 + u + v /\ AuthByte(p, a[n + 1]) = AuthState("done", 0, u, v, c, Closed(a, 3 + u, v))
    BY <1>5, <1>6, <1>9, <1>10, Zenon
  <2> QED BY <1>0, <1>1, <1>2, <2>1, Zenon DEF PasswordKnows
<1>11. CASE r # 1
  <2>1. /\ n + 1 < 3 + u + v
        /\ AuthByte(p, a[n + 1]) =
             AuthState("passwd", 3 + u + v - (n + 1), u, v, c, Cells(a, 3 + u, n + 1 - 3 - u))
    BY <1>5, <1>6, <1>9, <1>11, Zenon
  <2>2. /\ a[3 + u] # 0 /\ n + 1 < 3 + u + a[3 + u]
        /\ AuthByte(p, a[n + 1]) =
             AuthState("passwd", 3 + u + a[3 + u] - (n + 1), u, a[3 + u], Closed(a, 2, u),
                       Cells(a, 3 + u, n + 1 - 3 - u))
    BY <1>0, <1>1, <1>2, <2>1, Zenon
  <2> QED BY <2>2 DEF PasswordKnows
<1> QED BY <1>10, <1>11

LEMMA AuthNext ==
    ASSUME NEW a, NEW n \in Nat, Given(a, n + 1), NEW p, AuthKnows(a, n, p), p.ps \notin Final
    PROVE  AuthKnows(a, n + 1, AuthByte(p, a[n + 1]))
<1>1. CASE n = 0 /\ p = AuthInit
  BY <1>1 DEF AuthInit, AuthByte, AuthKnows, AuthState
<1>2. CASE n = 1 /\ p = AuthState(IF a[1] = 1 THEN "ulen" ELSE "error", 0, 0, 0, NoCells, NoCells)
  <2>1. a[1] = 1 /\ p = AuthState("ulen", 0, 0, 0, NoCells, NoCells)
    BY <1>2 DEF AuthState, Final
  <2>2. PICK u \in 0..255 : u = a[2]
    BY <1>2 DEF Given
  <2>3. AuthByte(p, a[2]) = AuthState(IF u = 0 THEN "error" ELSE "uname", u, u, 0, NoCells, NoCells)
    BY <2>1, <2>2, LengthByte
  <2>4. NoCells = Cells(a, 2, 0)
    BY NoCellsIs
  <2>5. n + 1 = 2 /\ 2 + u - 2 = u /\ 2 - 2 = 0 /\ (u # 0 => 2 < 2 + u)
    BY <1>2
  <2>6. CASE u = 0
    <3>1. AuthByte(p, a[2]) = AuthState("error", 0, 0, 0, NoCells, NoCells)
      BY <2>3, <2>6
    <3> QED BY <2>1, <2>2, <2>5, <2>6, <3>1 DEF AuthKnows
  <2>7. CASE u # 0
    <3>1. AuthByte(p, a[2]) = AuthState("uname", 2 + u - 2, u, 0, Cells(a, 2, 2 - 2), NoCells)
      BY <2>3, <2>4, <2>5, <2>7, Zenon
    <3>2. NameKnows(a, 2, AuthByte(p, a[2]))
      BY <2>2, <2>5, <2>7, <3>1, Zenon DEF NameKnows
    <3> QED BY <2>1, <2>2, <2>5, <2>7, <3>2 DEF AuthKnows
  <2> QED BY <2>6, <2>7
<1>3. CASE n = 2 /\ a[1] = 1 /\ a[2] = 0 /\ p = AuthState("error", 0, 0, 0, NoCells, NoCells)
  BY <1>3 DEF AuthState, Final
<1>4. ASSUME n >= 2, a[1] = 1, a[2] # 0, NEW u \in 1..255, u = a[2],
             NameKnows(a, n, p) \/ (n >= 3 + u /\ PasswordKnows(a, u, n, p))
      PROVE  AuthKnows(a, n + 1, AuthByte(p, a[n + 1]))
  <2>1. Login(a, u, n + 1, AuthByte(p, a[n + 1]))
    <3>1. n >= 3 + u => n + 1 >= 3 + u
      OBVIOUS
    <3>2. CASE NameKnows(a, n, p)
      BY <1>4, <3>2, NameNext
    <3>3. CASE n >= 3 + u /\ PasswordKnows(a, u, n, p)
      BY <1>4, <3>1, <3>3, PasswordNext DEF Login
    <3> QED BY <1>4, <3>2, <3>3
  <2>2. n + 1 >= 2
    BY <1>4
  <2> QED BY <1>4, <2>1, <2>2, Zenon DEF Login, AuthKnows
<1>5. CASE /\ n >= 2 /\ a[1] = 1 /\ a[2] # 0
           /\ NameKnows(a, n, p) \/ (n >= 3 + a[2] /\ PasswordKnows(a, a[2], n, p))
  <2>0. n >= 2 /\ a[2] # 0
    BY <1>5, Zenon
  <2>1. a[2] \in 0..255
    BY <2>0 DEF Given
  <2>2. PICK u \in 1..255 : u = a[2]
    BY <2>0, <2>1
  <2>3. NameKnows(a, n, p) \/ (n >= 3 + u /\ PasswordKnows(a, u, n, p))
    BY <1>5, <2>2, Zenon
  <2> QED BY <1>4, <1>5, <2>2, <2>3
<1> QED BY <1>1, <1>2, <1>3, <1>5 DEF AuthKnows

\* One byte of an address of which r bytes are left and q are stored.
AfterAddr(p, r, q, t, c, b) ==
    /\ r = 1 => RequestByte(p, b) =
         RequestState("dst_port", 0, 0, t,
                      IF t = FQDN THEN Store(Store(c, q, b), q + 1, 0) ELSE Store(c, q, b), 0)
    /\ r # 1 => RequestByte(p, b) = RequestState("dst_addr", r - 1, q + 1, t, Store(c, q, b), 0)

LEMMA AddrBytes ==
    ASSUME NEW r \in 1..255, NEW q \in 0..254, NEW t, NEW c, NEW b,
           NEW p, p = RequestState("dst_addr", r, q, t, c, 0)
    PROVE  AfterAddr(p, r, q, t, c, b)
<1>1. U8(r - 1) = r - 1 /\ U8(q + 1) = q + 1 /\ (r = 1 => r - 1 = 0) /\ ~(q >= MaxFqdnLen) /\ r # 0
  BY Byte8 DEF MaxFqdnLen
<1>2. /\ p.ps = "dst_addr" /\ p.rem = r /\ p.read = q /\ p.type = t /\ p.addr = c
  BY DEF RequestState
<1>3. RequestByte(p, b) = AddrByte(p, b)
  BY <1>1, <1>2 DEF RequestByte
<1>4. PICK s1, s2 : s1 = Store(c, q, b) /\ s2 = Store(s1, q + 1, 0)
  OBVIOUS
<1>5. AddrByte(p, b) =
        [p EXCEPT !.addr = IF r = 1 /\ t = FQDN THEN s2 ELSE s1, !.rem = r - 1,
                  !.read = IF r = 1 THEN 0 ELSE q + 1,
                  !.ps = IF r = 1 THEN "dst_port" ELSE "dst_addr"]
  BY <1>1, <1>2, <1>4 DEF AddrByte
<1>6. AddrByte(p, b) =
        RequestState(IF r = 1 THEN "dst_port" ELSE "dst_addr", r - 1, IF r = 1 THEN 0 ELSE q + 1, t,
                     IF r = 1 /\ t = FQDN THEN s2 ELSE s1, 0)
  BY <1>5 DEF RequestState
<1> QED BY <1>1, <1>3, <1>4, <1>6 DEF AfterAddr

LEMMA PortBytes ==
    ASSUME NEW t, NEW c, NEW b, NEW h
    PROVE  /\ RequestByte(RequestState("dst_port", 0, 0, t, c, 0), b) =
                RequestState("dst_port", 0, 1, t, c, 256 * b)
           /\ RequestByte(RequestState("dst_port", 0, 1, t, c, h), b) =
                RequestState("done", 0, 0, t, c, h + b)
<1>1. PICK p : p = RequestState("dst_port", 0, 0, t, c, 0)
  OBVIOUS
<1>2. p.ps = "dst_port" /\ p.read = 0
  BY <1>1 DEF RequestState
<1>3. RequestByte(p, b) = [p EXCEPT !.port = 256 * b, !.read = 1]
  BY <1>2 DEF RequestByte
<1>4. RequestByte(p, b) = RequestState("dst_port", 0, 1, t, c, 256 * b)
  <2>1. PICK v : v = 256 * b
    OBVIOUS
  <2>2. RequestByte(p, b) = [p EXCEPT !.port = v, !.read = 1]
    BY <1>3, <2>1, Zenon
  <2>3. RequestByte(p, b) = RequestState("dst_port", 0, 1, t, c, v)
    BY <1>1, <2>2 DEF RequestState
  <2> QED BY <2>1, <2>3, Zenon
<1>5. PICK q : q = RequestState("dst_port", 0, 1, t, c, h)
  OBVIOUS
<1>6. q.ps = "dst_port" /\ q.read = 1 /\ q.port = h
  BY <1>5 DEF RequestState
<1>7. RequestByte(q, b) = [q EXCEPT !.port = h + b, !.read = 0, !.ps = "done"]
  BY <1>6 DEF RequestByte
<1>8. RequestByte(q, b) = RequestState("done", 0, 0, t, c, h + b)
  BY <1>5, <1>7 DEF RequestState
<1> QED BY <1>1, <1>4, <1>5, <1>8, Zenon

LEMMA AddressNext ==
    ASSUME NEW a, NEW k \in Nat, NEW len \in 1..255, NEW n \in Nat, k <= n,
           NEW p, AddressKnows(a, k, len, n, p), p.ps \notin Final
    PROVE  AddressKnows(a, k, len, n + 1, RequestByte(p, a[n + 1]))
<1>1. PICK t : t = a[4]
  OBVIOUS
<1>2. PICK addr : addr = IF t = FQDN THEN Closed(a, k, len) ELSE Cells(a, k, len)
  OBVIOUS
<1>3. PICK high : high = 256 * a[k + len + 1]
  OBVIOUS
<1>4. CASE n < k + len /\ p = RequestState("dst_addr", k + len - n, n - k, t, Cells(a, k, n - k), 0)
  <2>1. PICK r \in 1..255, q \in 0..254 : r = k + len - n /\ q = n - k
    <3>1. n < k + len
      BY <1>4, Zenon
    <3>2. k + len - n \in 1..255 /\ n - k \in 0..254
      BY <3>1
    <3> QED BY <3>2, Zenon
  <2>2. p = RequestState("dst_addr", r, q, t, Cells(a, k, q), 0)
    BY <1>4, <2>1, Zenon
  <2>3. AfterAddr(p, r, q, t, Cells(a, k, q), a[n + 1])
    BY <2>2, AddrBytes
  <2>4. /\ k + 1 + q = n + 1 /\ n + 1 - k = q + 1 /\ k + len - (n + 1) = r - 1
        /\ (r = 1 => len = q + 1 /\ n + 1 = k + len) /\ (r # 1 => n + 1 < k + len) /\ q \in Nat
    BY <2>1
  <2>5. Store(Cells(a, k, q), q, a[n + 1]) = Cells(a, k, q + 1)
    <3>1. Store(Cells(a, k, q), q, a[k + 1 + q]) = Cells(a, k, q + 1)
      BY <2>4, StoreNext, Zenon
    <3> QED BY <2>4, <3>1, Zenon
  <2>6. Store(Cells(a, k, q + 1), q + 1, 0) = Closed(a, k, q + 1)
    BY StoreZero
  <2>7. CASE r = 1
    <3>1. RequestByte(p, a[n + 1]) =
            RequestState("dst_port", 0, 0, t, IF t = FQDN THEN Closed(a, k, q + 1) ELSE Cells(a, k, q + 1), 0)
      BY <2>3, <2>5, <2>6, <2>7 DEF AfterAddr
    <3>2. RequestByte(p, a[n + 1]) = RequestState("dst_port", 0, 0, t, addr, 0)
      BY <1>2, <2>4, <2>7, <3>1
    <3> QED BY <1>1, <1>2, <2>4, <2>7, <3>2 DEF AddressKnows
  <2>8. CASE r # 1
    <3>1. RequestByte(p, a[n + 1]) = RequestState("dst_addr", r - 1, q + 1, t, Cells(a, k, q + 1), 0)
      BY <2>3, <2>5, <2>8 DEF AfterAddr
    <3>2. RequestByte(p, a[n + 1]) =
            RequestState("dst_addr", k + len - (n + 1), n + 1 - k, a[4], Cells(a, k, n + 1 - k), 0)
      BY <1>1, <2>4, <3>1, Zenon
    <3> QED BY <2>4, <2>8, <3>2 DEF AddressKnows
  <2> QED BY <2>7, <2>8
<1>5. CASE n = k + len /\ p = RequestState("dst_port", 0, 0, t, addr, 0)
  <2>1. n + 1 = k + len + 1
    BY <1>5
  <2>2. RequestByte(p, a[n + 1]) = RequestState("dst_port", 0, 1, t, addr, high)
    BY <1>3, <1>5, <2>1, PortBytes
  <2> QED BY <1>1, <1>2, <1>3, <2>1, <2>2 DEF AddressKnows
<1>6. CASE n = k + len + 1 /\ p = RequestState("dst_port", 0, 1, t, addr, high)
  <2>1. n + 1 = k + len + 2
    BY <1>6
  <2>2. RequestByte(p, a[n + 1]) = RequestState("done", 0, 0, t, addr, high + a[k + len + 2])
    BY <1>6, <2>1, PortBytes
  <2> QED BY <1>1, <1>2, <1>3, <2>1, <2>2 DEF AddressKnows
<1>7. CASE n = k + len + 2 /\ p = RequestState("done", 0, 0, t, addr, high + a[k + len + 2])
  BY <1>7 DEF RequestState, Final
<1> QED BY <1>1, <1>2, <1>3, <1>4, <1>5, <1>6, <1>7 DEF AddressKnows

LEMMA HeadBytes ==
    ASSUME NEW b \in 0..255, NEW c
    PROVE  /\ RequestByte(RequestState("version", 0, 0, 0, c, 0), b) =
                RequestState(IF b = 5 THEN "cmd" ELSE "error", 0, 0, 0, c, 0)
           /\ RequestByte(RequestState("cmd", 0, 0, 0, c, 0), b) =
                RequestState(IF b = 1 THEN "rsv" ELSE "unsupported_cmd", 0, 0, 0, c, 0)
           /\ RequestByte(RequestState("rsv", 0, 0, 0, c, 0), b) =
                RequestState("atyp", 0, 0, 0, c, 0)
<1>1. PICK p : p = RequestState("version", 0, 0, 0, c, 0)
  OBVIOUS
<1>2. RequestByte(p, b) = RequestState(IF b = 5 THEN "cmd" ELSE "error", 0, 0, 0, c, 0)
  BY <1>1 DEF RequestState, RequestByte
<1>3. PICK q : q = RequestState("cmd", 0, 0, 0, c, 0)
  OBVIOUS
<1>4. RequestByte(q, b) = RequestState(IF b = 1 THEN "rsv" ELSE "unsupported_cmd", 0, 0, 0, c, 0)
  BY <1>3 DEF RequestState, RequestByte
<1>5. PICK r : r = RequestState("rsv", 0, 0, 0, c, 0)
  OBVIOUS
<1>6. RequestByte(r, b) = RequestState("atyp", 0, 0, 0, c, 0)
  BY <1>5 DEF RequestState, RequestByte
<1> QED BY <1>1, <1>2, <1>3, <1>4, <1>5, <1>6, Zenon

LEMMA TypeByte ==
    ASSUME NEW b \in 0..255, NEW c, NEW p, p = RequestState("atyp", 0, 0, 0, c, 0)
    PROVE  /\ b = IPv4 => RequestByte(p, b) = RequestState("dst_addr", 4, 0, b, c, 0)
           /\ b = IPv6 => RequestByte(p, b) = RequestState("dst_addr", 16, 0, b, c, 0)
           /\ b = FQDN => RequestByte(p, b) = RequestState("dst_addr", 0, 0, b, c, 0)
           /\ b \notin {IPv4, IPv6, FQDN} =>
                RequestByte(p, b) = RequestState("unsupported_atyp", 0, 0, b, c, 0)
<1>1. p.ps = "atyp"
  BY DEF RequestState
<1>2. RequestByte(p, b) =
        IF b \in {IPv4, IPv6, FQDN}
        THEN [p EXCEPT !.type = b, !.read = 0, !.rem = AddrLen(b), !.ps = "dst_addr"]
        ELSE [p EXCEPT !.type = b, !.read = 0, !.ps = "unsupported_atyp"]
  BY <1>1 DEF RequestByte
<1>3. AddrLen(IPv4) = 4 /\ AddrLen(IPv6) = 16 /\ AddrLen(FQDN) = 0
  BY DEF AddrLen, IPv4, IPv6, FQDN
<1>4. CASE b \in {IPv4, IPv6, FQDN}
  <2>1. RequestByte(p, b) = RequestState("dst_addr", AddrLen(b), 0, b, c, 0)
    BY <1>2, <1>4 DEF RequestState
  <2> QED BY <1>3, <1>4, <2>1
<1>5. CASE b \notin {IPv4, IPv6, FQDN}
  BY <1>2, <1>5 DEF RequestState
<1> QED BY <1>4, <1>5

LEMMA NameLengthByte ==
    ASSUME NEW b \in 0..255, NEW c, NEW p, p = RequestState("dst_addr", 0, 0, FQDN, c, 0)
    PROVE  /\ b = 0 => RequestByte(p, b) = RequestState("error", 0, 0, FQDN, c, 0)
           /\ b # 0 => RequestByte(p, b) = RequestState("dst_addr", b, 0, FQDN, c, 0)
<1>1. p.ps = "dst_addr" /\ p.type = FQDN /\ p.rem = 0
  BY DEF RequestState
<1>2. RequestByte(p, b) = IF b = 0 THEN [p EXCEPT !.ps = "error"] ELSE [p EXCEPT !.rem = b, !.read = 0]
  BY <1>1 DEF RequestByte
<1> QED BY <1>2 DEF RequestState

\* A request that has its first four bytes, right so far.
Body(a, n, p) ==
    \/ a[4] = IPv4 /\ AddressKnows(a, 4, 4, n, p)
    \/ a[4] = IPv6 /\ AddressKnows(a, 4, 16, n, p)
    \/ a[4] = FQDN /\ n = 4 /\ p = RequestState("dst_addr", 0, 0, FQDN, NoCells, 0)
    \/ a[4] = FQDN /\ n = 5 /\ a[5] = 0 /\ p = RequestState("error", 0, 0, FQDN, NoCells, 0)
    \/ a[4] = FQDN /\ n >= 5 /\ a[5] # 0 /\ AddressKnows(a, 5, a[5], n, p)

LEMMA RequestIs ==
    ASSUME NEW a, NEW n, NEW p
    PROVE  RequestKnows(a, n, p) <=>
             HeadKnows(a, n, p) \/ (n >= 4 /\ a[1] = 5 /\ a[2] = 1 /\ Body(a, n, p))
BY DEF RequestKnows, Body

LEMMA AddressBegins ==
    ASSUME NEW a, NEW k \in Nat, NEW len \in 1..255
    PROVE  AddressKnows(a, k, len, k, RequestState("dst_addr", len, 0, a[4], NoCells, 0))
<1>1. NoCells = Cells(a, k, k - k) /\ k + len - k = len /\ k - k = 0 /\ k < k + len
  BY NoCellsIs
<1>2. RequestState("dst_addr", len, 0, a[4], NoCells, 0) =
        RequestState("dst_addr", k + len - k, k - k, a[4], Cells(a, k, k - k), 0)
  BY <1>1, Zenon
<1> QED BY <1>1, <1>2, Zenon DEF AddressKnows

LEMMA BodyNext ==
    ASSUME NEW a, NEW n \in Nat, n >= 4, Given(a, n + 1), NEW p, Body(a, n, p), p.ps \notin Final
    PROVE  Body(a, n + 1, RequestByte(p, a[n + 1]))
<1>1. CASE a[4] = IPv4 /\ AddressKnows(a, 4, 4, n, p)
  <2>1. AddressKnows(a, 4, 4, n + 1, RequestByte(p, a[n + 1]))
    BY <1>1, AddressNext
  <2> QED BY <1>1, <2>1 DEF Body
<1>2. CASE a[4] = IPv6 /\ AddressKnows(a, 4, 16, n, p)
  <2>1. AddressKnows(a, 4, 16, n + 1, RequestByte(p, a[n + 1]))
    BY <1>2, AddressNext
  <2> QED BY <1>2, <2>1 DEF Body
<1>3. CASE a[4] = FQDN /\ n = 4 /\ p = RequestState("dst_addr", 0, 0, FQDN, NoCells, 0)
  <2>1. PICK b \in 0..255 : b = a[5]
    <3>1. a[n + 1] \in 0..255
      BY DEF Given
    <3>2a. n = 4
      BY <1>3, Zenon
    <3>2. n + 1 = 5
      BY <3>2a
    <3> QED BY <3>1, <3>2, Zenon
  <2>2. n + 1 = 5
    BY <1>3
  <2>3. CASE b = 0
    <3>1. RequestByte(p, b) = RequestState("error", 0, 0, FQDN, NoCells, 0)
      BY <1>3, <2>3, NameLengthByte
    <3> QED BY <1>3, <2>1, <2>2, <2>3, <3>1, Zenon DEF Body
  <2>4. CASE b # 0
    <3>1. RequestByte(p, b) = RequestState("dst_addr", b, 0, FQDN, NoCells, 0)
      BY <1>3, <2>4, NameLengthByte
    <3>2. AddressKnows(a, 5, b, 5, RequestState("dst_addr", b, 0, a[4], NoCells, 0))
      <4>1. b \in 1..255 /\ 5 \in Nat
        BY <2>4
      <4> QED BY <4>1, AddressBegins, Zenon
    <3>3. AddressKnows(a, 5, a[5], n + 1, RequestByte(p, a[n + 1]))
      BY <1>3, <2>1, <2>2, <3>1, <3>2, Zenon
    <3> QED BY <1>3, <2>1, <2>2, <2>4, <3>3 DEF Body
  <2> QED BY <2>3, <2>4
<1>4. CASE a[4] = FQDN /\ n = 5 /\ a[5] = 0 /\ p = RequestState("error", 0, 0, FQDN, NoCells, 0)
  BY <1>4 DEF RequestState, Final
<1>5. CASE a[4] = FQDN /\ n >= 5 /\ a[5] # 0 /\ AddressKnows(a, 5, a[5], n, p)
  <2>1. n >= 5 /\ a[5] # 0
    BY <1>5, Zenon
  <2>2. a[5] \in 0..255
    BY <2>1 DEF Given
  <2>3. PICK len \in 1..255 : len = a[5]
    BY <2>1, <2>2
  <2>4. AddressKnows(a, 5, len, n, p)
    BY <1>5, <2>3, Zenon
  <2>5. AddressKnows(a, 5, len, n + 1, RequestByte(p, a[n + 1]))
    BY <2>1, <2>4, AddressNext
  <2>6. n + 1 >= 5
    BY <2>1
  <2> QED BY <1>5, <2>3, <2>5, <2>6, Zenon DEF Body
<1> QED BY <1>1, <1>2, <1>3, <1>4, <1>5 DEF Body

LEMMA RequestNext ==
    ASSUME NEW a, NEW n \in Nat, Given(a, n + 1), NEW p, RequestKnows(a, n, p), p.ps \notin Final
    PROVE  RequestKnows(a, n + 1, RequestByte(p, a[n + 1]))
<1>0. PICK b \in 0..255 : b = a[n + 1]
  <2>1. a[n + 1] \in 0..255
    BY DEF Given
  <2> QED BY <2>1, Zenon
<1>1. CASE n = 0 /\ p = RequestInit
  <2>1. RequestByte(p, b) = RequestState(IF b = 5 THEN "cmd" ELSE "error", 0, 0, 0, NoCells, 0)
    BY <1>1, HeadBytes DEF RequestInit, RequestState
  <2> QED BY <1>0, <1>1, <2>1, RequestIs DEF HeadKnows
<1>2. CASE n = 1 /\ p = RequestState(IF a[1] = 5 THEN "cmd" ELSE "error", 0, 0, 0, NoCells, 0)
  <2>1. a[1] = 5 /\ p = RequestState("cmd", 0, 0, 0, NoCells, 0)
    BY <1>2 DEF RequestState, Final
  <2>2. RequestByte(p, b) = RequestState(IF b = 1 THEN "rsv" ELSE "unsupported_cmd", 0, 0, 0, NoCells, 0)
    BY <2>1, HeadBytes
  <2> QED BY <1>0, <1>2, <2>1, <2>2, RequestIs DEF HeadKnows
<1>3. CASE n = 2 /\ a[1] = 5
         /\ p = RequestState(IF a[2] = 1 THEN "rsv" ELSE "unsupported_cmd", 0, 0, 0, NoCells, 0)
  <2>1. a[2] = 1 /\ p = RequestState("rsv", 0, 0, 0, NoCells, 0)
    BY <1>3 DEF RequestState, Final
  <2>2. RequestByte(p, b) = RequestState("atyp", 0, 0, 0, NoCells, 0)
    BY <2>1, HeadBytes
  <2> QED BY <1>0, <1>3, <2>1, <2>2, RequestIs DEF HeadKnows
<1>4. CASE n = 3 /\ a[1] = 5 /\ a[2] = 1 /\ p = RequestState("atyp", 0, 0, 0, NoCells, 0)
  <2>1. n + 1 = 4 /\ b = a[4]
    BY <1>0, <1>4
  <2>2. CASE b = IPv4
    <3>1. RequestByte(p, b) = RequestState("dst_addr", 4, 0, b, NoCells, 0)
      BY <1>4, <2>2, TypeByte
    <3>2. AddressKnows(a, 4, 4, 4, RequestState("dst_addr", 4, 0, a[4], NoCells, 0))
      BY AddressBegins
    <3>3. Body(a, 4, RequestByte(p, b))
      BY <2>1, <2>2, <3>1, <3>2, Zenon DEF Body
    <3> QED BY <1>0, <1>4, <2>1, <3>3, RequestIs
  <2>3. CASE b = IPv6
    <3>1. RequestByte(p, b) = RequestState("dst_addr", 16, 0, b, NoCells, 0)
      BY <1>4, <2>3, TypeByte
    <3>2. AddressKnows(a, 4, 16, 4, RequestState("dst_addr", 16, 0, a[4], NoCells, 0))
      BY AddressBegins
    <3>3. Body(a, 4, RequestByte(p, b))
      BY <2>1, <2>3, <3>1, <3>2, Zenon DEF Body
    <3> QED BY <1>0, <1>4, <2>1, <3>3, RequestIs
  <2>4. CASE b = FQDN
    <3>1. RequestByte(p, b) = RequestState("dst_addr", 0, 0, b, NoCells, 0)
      BY <1>4, <2>4, TypeByte
    <3>3. Body(a, 4, RequestByte(p, b))
      BY <2>1, <2>4, <3>1, Zenon DEF Body
    <3> QED BY <1>0, <1>4, <2>1, <3>3, RequestIs
  <2>5. CASE b \notin {IPv4, IPv6, FQDN}
    <3>1. RequestByte(p, b) = RequestState("unsupported_atyp", 0, 0, b, NoCells, 0)
      BY <1>4, <2>5, TypeByte
    <3>2. HeadKnows(a, 4, RequestByte(p, b))
      BY <1>4, <2>1, <2>5, <3>1, Zenon DEF HeadKnows
    <3> QED BY <1>0, <2>1, <3>2, RequestIs
  <2> QED BY <2>2, <2>3, <2>4, <2>5
<1>5. CASE n = 4 /\ a[1] = 5 /\ a[2] = 1 /\ a[4] \notin {IPv4, IPv6, FQDN}
         /\ p = RequestState("unsupported_atyp", 0, 0, a[4], NoCells, 0)
  BY <1>5 DEF RequestState, Final
<1>6. CASE n >= 4 /\ a[1] = 5 /\ a[2] = 1 /\ Body(a, n, p)
  <2>1. Body(a, n + 1, RequestByte(p, a[n + 1]))
    BY <1>6, BodyNext
  <2> QED BY <1>6, <2>1, RequestIs
<1> QED BY <1>1, <1>2, <1>3, <1>4, <1>5, <1>6, RequestIs DEF HeadKnows

-----------------------------------------------------------------------------
\* The states that the parsers can be in.

HelloStates   == {"version", "nmethods", "methods", "done", "error"}
AuthStates    == {"ver", "ulen", "uname", "plen", "passwd", "done", "error"}
RequestStates ==
    {"version", "cmd", "rsv", "atyp", "dst_addr", "dst_port"} \cup Final

LEMMA HelloStatesAre ==
    ASSUME NEW a, NEW n, NEW p, HelloKnows(a, n, p)
    PROVE  p.ps \in HelloStates
BY DEF HelloKnows, HelloInit, HelloState, HelloStates

LEMMA AuthStatesAre ==
    ASSUME NEW a, NEW n, NEW p, AuthKnows(a, n, p)
    PROVE  p.ps \in AuthStates
<1>1. \A ps, x, u, v, c, d : AuthState(ps, x, u, v, c, d).ps = ps
  BY DEF AuthState
<1>2. AuthInit.ps = "ver"
  BY DEF AuthInit
<1>3. NameKnows(a, n, p) => p.ps \in AuthStates
  BY <1>1 DEF NameKnows, AuthStates
<1>4. ASSUME NEW u, PasswordKnows(a, u, n, p) PROVE p.ps \in AuthStates
  BY <1>1, <1>4 DEF PasswordKnows, AuthStates
<1> QED BY <1>1, <1>2, <1>3, <1>4 DEF AuthKnows, AuthStates

LEMMA RequestStatesAre ==
    ASSUME NEW a, NEW n, NEW p, RequestKnows(a, n, p)
    PROVE  p.ps \in RequestStates
<1>1. \A ps, x, u, v, c, d : RequestState(ps, x, u, v, c, d).ps = ps
  BY DEF RequestState
<1>2. RequestInit.ps = "version"
  BY DEF RequestInit
<1>3. ASSUME NEW k, NEW len, AddressKnows(a, k, len, n, p) PROVE p.ps \in RequestStates
  BY <1>1, <1>3 DEF AddressKnows, RequestStates, Final
<1>4. HeadKnows(a, n, p) => p.ps \in RequestStates
  BY <1>1, <1>2 DEF HeadKnows, RequestStates, Final
<1> QED BY <1>1, <1>3, <1>4 DEF RequestKnows, RequestStates, Final

-----------------------------------------------------------------------------
\* The session.

LEMMA StreamIs ==
    ASSUME stream \in Streams
    PROVE  stream \in Seq(0..255) /\ Len(stream) \in Nat /\ \A i \in 1..Len(stream) : stream[i] \in 0..255
<1>1. stream \in Seq(0..255)
  BY StreamsAssumption
<1>2. Len(stream) \in Nat
  BY <1>1
<1>3. \A i \in 1..Len(stream) : stream[i] \in 0..255
  BY <1>1, ElementOfSeq
<1> QED BY <1>1, <1>2, <1>3

LEMMA MessageIs ==
    ASSUME BufferInv
    PROVE  /\ Read \in Nat /\ Len(stream) \in Nat /\ Read <= Len(stream) - start
           /\ \A n \in 0..(Len(stream) - start) : Given(Message, n)
           /\ \A i \in 1..(Len(stream) - start) : Message[i] = At(i)
<1>1. stream \in Seq(0..255) /\ Len(stream) \in Nat /\ \A i \in 1..Len(stream) : stream[i] \in 0..255
  BY StreamIs DEF BufferInv
<1>2. start \in Nat /\ rd \in Nat /\ start <= rd /\ rd <= Len(stream)
  BY <1>1 DEF BufferInv
<1>3. \A i \in 1..(Len(stream) - start) : Message[i] = At(i) /\ Message[i] \in 0..255
  BY <1>1, <1>2 DEF Message, At
<1>4. ASSUME NEW n \in 0..(Len(stream) - start) PROVE Given(Message, n)
  <2>1. n \in Nat /\ \A i \in 1..n : i \in 1..(Len(stream) - start)
    BY <1>1, <1>2
  <2> QED BY <1>3, <2>1 DEF Given
<1> QED BY <1>1, <1>2, <1>3, <1>4 DEF Read

LEMMA InitInv ==
    Init => NegotiationInv
<1> SUFFICES ASSUME Init PROVE NegotiationInv
  OBVIOUS
<1>0. Len(stream) \in Nat
  BY StreamIs DEF Init
<1>1. BufferInv
  <2>1. busy <=> rd < got
    <3>1. ~(rd < got)
      BY DEF Init
    <3> QED BY <3>1, Zenon DEF Init
  <2> QED BY <1>0, <2>1, BufferAssumption DEF Init, BufferInv
<1>2. HelloInit.ps = "version"
  BY DEF HelloInit
<1>3. SessionInv
  <2>1. busy \in BOOLEAN
    BY DEF Init
  <2> QED BY <1>2, <2>1 DEF Init, SessionInv, ReadStates, WriteStates, Settled, Final
<1>4. HelloKnows(Message, Read, par)
  BY DEF Init, Read, HelloKnows
<1> QED BY <1>1, <1>3, <1>4 DEF NegotiationInv, ParserInv, Init

\* A step that leaves the parser and its message alone, and the phase too or ends it.
LEMMA ParserKept ==
    ASSUME ParserInv, UNCHANGED <<stream, start, rd, par>>,
           st' = st \/ st' \in {"ERROR", "DONE"}
    PROVE  ParserInv'
<1>1. Message' = Message /\ Read' = Read /\ par' = par
  BY DEF Message, Read
<1> QED BY <1>1 DEF ParserInv

LEMMA RecvKeeps ==
    ASSUME NegotiationInv, Recv
    PROVE  NegotiationInv'
<1>1. BufferInv'
  <2>1. Len(stream) \in Nat
    BY StreamIs DEF NegotiationInv, BufferInv
  <2>2. PICK n \in 1..(BufferSize - (got - base)) : got + n <= Len(stream) /\ got' = got + n
    BY DEF Recv, Available
  <2>3. base \in Nat /\ rd \in Nat /\ got \in Nat /\ base <= rd /\ rd <= got
    BY DEF NegotiationInv, BufferInv
  <2>4. /\ got' \in Nat /\ rd < got' /\ got' <= Len(stream) /\ got' - base <= BufferSize
    BY <2>1, <2>2, <2>3, BufferAssumption
  <2>5. UNCHANGED <<stream, users, base, rd, start>> /\ busy'
    BY DEF Recv
  <2>6. rd # got'
    BY <2>3, <2>4
  <2> QED BY <2>4, <2>5, <2>6 DEF NegotiationInv, BufferInv
<1>2. SessionInv'
  BY DEF NegotiationInv, SessionInv, Recv
<1> QED BY <1>1, <1>2, ParserKept DEF NegotiationInv, Recv

LEMMA EndKeeps ==
    ASSUME NegotiationInv, RecvEnds \/ RecvFails \/ WriteFails
    PROVE  NegotiationInv'
<1>1. BufferInv'
  <2>1. UNCHANGED <<stream, got, rd, base, start, users>> /\ st' = "ERROR"
    BY DEF RecvEnds, RecvFails, WriteFails, Fail
  <2>2. st' \notin ReadStates
    BY <2>1 DEF ReadStates
  <2> QED BY <2>1, <2>2 DEF NegotiationInv, BufferInv
<1>2. SessionInv'
  <2>1. /\ st \in ReadStates \cup WriteStates /\ UNCHANGED <<par, out, code>>
        /\ st' = "ERROR" /\ why' = "peer" /\ busy' = FALSE
    BY DEF RecvEnds, RecvFails, WriteFails, Fail
  <2>2. st # "ERROR"
    BY <2>1 DEF ReadStates, WriteStates
  <2>3. par.ps # "error"
    BY <2>2 DEF NegotiationInv, SessionInv
  <2>4. st' \in Settled /\ st' \notin ReadStates
    BY <2>1 DEF Settled, ReadStates
  <2> QED BY <2>1, <2>3, <2>4 DEF NegotiationInv, SessionInv
<1> QED BY <1>1, <1>2, ParserKept DEF NegotiationInv, RecvEnds, RecvFails, WriteFails, Fail

LEMMA WaitKeeps ==
    ASSUME NegotiationInv, WritePart \/ Rests \/ Administer
    PROVE  NegotiationInv'
<1>1. BufferInv'
  <2>1. UNCHANGED <<stream, got, rd, base, start, st>> /\ users' \in Accounts
    BY DEF NegotiationInv, BufferInv, WritePart, Rests, Administer
  <2>2. st' \in ReadStates => busy' = busy
    BY DEF WritePart, Rests, Administer, ReadStates, WriteStates, Settled
  <2>3. st' \in ReadStates => (busy' <=> rd' < got')
    BY <2>1, <2>2, Zenon DEF NegotiationInv, BufferInv
  <2> QED BY <2>1, <2>3 DEF NegotiationInv, BufferInv
<1>2. SessionInv'
  <2>1. UNCHANGED <<st, par, code, why>>
    BY DEF WritePart, Rests, Administer
  <2>2. out' \in 0..10
    BY DEF NegotiationInv, SessionInv, WritePart, Rests, Administer
  <2>3. busy' \in BOOLEAN
    BY DEF NegotiationInv, SessionInv, WritePart, Rests, Administer
  <2> QED BY <2>1, <2>2, <2>3 DEF NegotiationInv, SessionInv
<1> QED BY <1>1, <1>2, ParserKept DEF NegotiationInv, WritePart, Rests, Administer

LEMMA Afresh ==
    ASSUME NEW a
    PROVE  /\ AuthKnows(a, 0, AuthInit) /\ AuthInit.ps \notin Final
           /\ RequestKnows(a, 0, RequestInit) /\ RequestInit.ps \notin Final
<1>1. AuthInit.ps \notin Final /\ RequestInit.ps \notin Final
  BY DEF AuthInit, RequestInit, Final
<1> QED BY <1>1 DEF AuthKnows, RequestKnows, HeadKnows

LEMMA WriteAllKeeps ==
    ASSUME NegotiationInv, WriteAll
    PROVE  NegotiationInv'
<1>1. /\ UNCHANGED <<stream, got, rd, base, code, users>> /\ st' = AfterReply /\ out' = 0
      /\ st \in WriteStates /\ (busy' <=> st' \in ReadStates /\ rd < got) /\ busy' \in BOOLEAN
      /\ why' = IF st' = "DONE" THEN "refused" ELSE why
      /\ st' \in ReadStates => par' = Fresh(st') /\ start' = rd
      /\ st' \notin ReadStates => par' = par /\ start' = start
  BY DEF WriteAll, Pumps, CanRead
<1>2. st' \in {"DONE", "AUTH_READ", "REQUEST_READ"}
  <2>1. st = "HELLO_WRITE" => code \in {0, 2, 255}
    BY DEF NegotiationInv, SessionInv
  <2> QED BY <1>1, <2>1 DEF AfterReply, AfterHello, AfterAuth, WriteStates
<1>3. why = "alive" \/ why = "refused"
  BY <1>1 DEF NegotiationInv, SessionInv, WriteStates
<1>4. CASE st' = "DONE"
  <2>1. st' \notin ReadStates /\ st' \notin WriteStates /\ st' \in Settled
    BY <1>4 DEF ReadStates, WriteStates, Settled
  <2>2. BufferInv'
    BY <1>1, <2>1 DEF NegotiationInv, BufferInv
  <2>3. ParserInv'
    BY <1>1, <1>4, <2>1, ParserKept DEF NegotiationInv
  <2>4. why' = "refused" /\ par' = par
    BY <1>1, <1>4, <2>1
  <2>5. par.ps # "error"
    BY <1>3 DEF NegotiationInv, SessionInv
  <2>6. SessionInv'
    BY <1>1, <1>4, <2>1, <2>4, <2>5 DEF NegotiationInv, SessionInv
  <2> QED BY <2>2, <2>3, <2>6 DEF NegotiationInv
<1>5. CASE st' \in {"AUTH_READ", "REQUEST_READ"}
  <2>1. st' \in ReadStates /\ st' \notin WriteStates
    BY <1>5 DEF ReadStates, WriteStates
  <2>2. start' = rd /\ par' = Fresh(st') /\ why' = why
    BY <1>1, <1>5, <2>1
  <2>3. Read' = 0
    BY <1>1, <2>2 DEF Read, NegotiationInv, BufferInv
  <2>4. BufferInv'
    <3>1. busy' <=> rd' < got'
      BY <1>1, <2>1
    <3> QED BY <1>1, <2>2, <3>1 DEF NegotiationInv, BufferInv
  <2>5. /\ st' = "AUTH_READ" => par' = AuthInit
        /\ st' = "REQUEST_READ" => par' = RequestInit
    BY <2>2 DEF Fresh
  <2>6. /\ st' = "AUTH_READ" => AuthKnows(Message', Read', par') /\ par'.ps \notin Final
        /\ st' = "REQUEST_READ" => RequestKnows(Message', Read', par') /\ par'.ps \notin Final
    BY <2>3, <2>5, Afresh
  <2>7. ParserInv'
    BY <1>5, <2>6 DEF ParserInv
  <2>8. par'.ps \notin Final /\ par'.ps # "error"
    BY <1>5, <2>6 DEF Final
  <2>9. why' # "parser"
    BY <1>3, <2>2
  <2>10. SessionInv'
    <3>1. par'.ps \notin {"error", "unsupported_cmd", "unsupported_atyp"}
      BY <2>8 DEF Final
    <3> QED BY <1>1, <1>3, <1>5, <2>1, <2>2, <2>8, <2>9, <3>1 DEF NegotiationInv, SessionInv
  <2> QED BY <2>4, <2>7, <2>10 DEF NegotiationInv
<1> QED BY <1>2, <1>4, <1>5

\* The byte that *_consume takes, and the message to which it belongs.
LEMMA TakesByte ==
    ASSUME NegotiationInv, Consume
    PROVE  /\ Message' = Message /\ Read' = Read + 1
           /\ Read \in Nat /\ Given(Message, Read + 1)
           /\ Message[Read + 1] = stream[rd + 1]
           /\ par' = Parsed(Message[Read + 1])
           /\ BufferInv' \/ ~(st' \in ReadStates => (busy' <=> rd + 1 < got))
<1>1. /\ rd < got /\ rd' = rd + 1 /\ base' = (IF rd + 1 = got THEN got ELSE base)
      /\ UNCHANGED <<stream, got, users, start>> /\ par' = Parsed(stream[rd + 1])
  BY DEF Consume, ReadByte, CanRead
<1>2. BufferInv
  BY DEF NegotiationInv
<1>3. /\ base \in Nat /\ rd \in Nat /\ got \in Nat /\ start \in Nat
      /\ start <= rd /\ base <= rd /\ got <= Len(stream) /\ got - base <= BufferSize
  BY <1>2 DEF BufferInv
<1>4. /\ Read \in Nat /\ Len(stream) \in Nat /\ Read <= Len(stream) - start
      /\ \A n \in 0..(Len(stream) - start) : Given(Message, n)
      /\ \A i \in 1..(Len(stream) - start) : Message[i] = At(i)
  BY <1>2, MessageIs
<1>5. Read = rd - start
  BY DEF Read
<1>6. Read + 1 \in 1..(Len(stream) - start) /\ Read + 1 \in 0..(Len(stream) - start) /\ start + (Read + 1) = rd + 1
  BY <1>1, <1>3, <1>4, <1>5
<1>7. Given(Message, Read + 1) /\ Message[Read + 1] = At(Read + 1)
  BY <1>4, <1>6
<1>8. At(Read + 1) = stream[rd + 1]
  BY <1>6 DEF At
<1>9. Message' = Message /\ Read' = Read + 1
  BY <1>1, <1>3 DEF Message, Read
<1>10. ASSUME st' \in ReadStates => (busy' <=> rd + 1 < got) PROVE BufferInv'
  <2>1. /\ base' \in Nat /\ rd' \in Nat /\ got' \in Nat /\ start' \in Nat
        /\ start' <= rd' /\ base' <= rd' /\ rd' <= got' /\ got' <= Len(stream)
        /\ got' - base' <= BufferSize /\ (rd' = got' => base' = got')
    BY <1>1, <1>3, <1>4, BufferAssumption
  <2>2. st' \in ReadStates => (busy' <=> rd' < got')
    BY <1>1, <1>10, Zenon
  <2> QED BY <1>1, <1>2, <2>1, <2>2 DEF BufferInv
<1> QED BY <1>1, <1>4, <1>7, <1>8, <1>9, <1>10

\* What the parser of the state knows with that byte.
LEMMA ParsedKnows ==
    ASSUME NegotiationInv, Consume
    PROVE  /\ st = "HELLO_READ" => HelloKnows(Message', Read', par')
           /\ st = "AUTH_READ" => AuthKnows(Message', Read', par')
           /\ st = "REQUEST_READ" => RequestKnows(Message', Read', par')
<1>1. /\ Message' = Message /\ Read' = Read + 1
      /\ Read \in Nat /\ Given(Message, Read + 1)
      /\ par' = Parsed(Message[Read + 1])
  BY TakesByte
<1>2. st \in ReadStates => par.ps \notin Final
  BY DEF NegotiationInv, SessionInv
<1>3. CASE st = "HELLO_READ"
  <2>1. HelloKnows(Message, Read, par) /\ par.ps \notin Final
    BY <1>2, <1>3 DEF NegotiationInv, ParserInv, ReadStates
  <2>2. par' = HelloByte(par, Message[Read + 1])
    BY <1>1, <1>3 DEF Parsed
  <2>3. HelloKnows(Message, Read + 1, HelloByte(par, Message[Read + 1]))
    BY <1>1, <2>1, HelloNext
  <2> QED BY <1>1, <1>3, <2>2, <2>3
<1>4. CASE st = "AUTH_READ"
  <2>1. AuthKnows(Message, Read, par) /\ par.ps \notin Final
    BY <1>2, <1>4 DEF NegotiationInv, ParserInv, ReadStates
  <2>2. par' = AuthByte(par, Message[Read + 1])
    BY <1>1, <1>4 DEF Parsed
  <2>3. AuthKnows(Message, Read + 1, AuthByte(par, Message[Read + 1]))
    BY <1>1, <2>1, AuthNext
  <2> QED BY <1>1, <1>4, <2>2, <2>3
<1>5. CASE st = "REQUEST_READ"
  <2>1. RequestKnows(Message, Read, par) /\ par.ps \notin Final
    BY <1>2, <1>5 DEF NegotiationInv, ParserInv, ReadStates
  <2>2. par' = RequestByte(par, Message[Read + 1])
    BY <1>1, <1>5 DEF Parsed
  <2>3. RequestKnows(Message, Read + 1, RequestByte(par, Message[Read + 1]))
    BY <1>1, <2>1, RequestNext
  <2> QED BY <1>1, <1>5, <2>2, <2>3
<1> QED BY <1>3, <1>4, <1>5

\* How the handler leaves the session when a message is whole.
LEMMA ProcessLeaves ==
    ASSUME NegotiationInv, Consume, par'.ps \in Final \ {"error"}
    PROVE  /\ out' \in 0..10 /\ code' \in {0, 1, 2, 7, 8, 255} /\ busy' = TRUE /\ why' = why
           /\ st = "HELLO_READ" => st' = "HELLO_WRITE" /\ code' \in {0, 2, 255} /\ par'.ps = "done"
           /\ st = "AUTH_READ" => st' = "AUTH_WRITE" /\ par'.ps = "done"
           /\ st = "REQUEST_READ" =>
                \/ st' = "REQUEST_WRITE"
                \/ st' = "REQUEST_RESOLV" /\ par'.ps = "done" /\ par'.type = FQDN
                \/ st' = "CONNECTING" /\ par'.ps = "done" /\ par'.type # FQDN
<1>1. Process(par') /\ busy' = TRUE /\ why' = why
  BY DEF Consume, Final
<1>2. out \in 0..10 /\ st \in ReadStates
  BY DEF NegotiationInv, SessionInv, Consume
<1>3. CASE st = "HELLO_READ"
  <2>1. par'.ps \in HelloStates
    BY <1>3, ParsedKnows, HelloStatesAre
  <2>2. par'.ps = "done"
    BY <2>1 DEF HelloStates, Final
  <2>3. st' = "HELLO_WRITE" /\ out' = 2 /\ code' = Method(par'.offered)
    BY <1>1, <1>3 DEF Process, HelloMarshall
  <2>4. Method(par'.offered) \in {0, 2, 255}
    BY DEF Method
  <2> QED BY <1>1, <1>3, <2>2, <2>3, <2>4
<1>4. CASE st = "AUTH_READ"
  <2>1. par'.ps \in AuthStates
    BY <1>4, ParsedKnows, AuthStatesAre
  <2>2. par'.ps = "done"
    BY <2>1 DEF AuthStates, Final
  <2>3. st' = "AUTH_WRITE" /\ out' = 2 /\ code' = Status(par')
    BY <1>1, <1>4 DEF Process, AuthMarshall
  <2>4. Status(par') \in {0, 1}
    BY DEF Status
  <2> QED BY <1>1, <1>4, <2>2, <2>3, <2>4
<1>5. CASE st = "REQUEST_READ"
  <2>1. RequestProcess(par')
    BY <1>1, <1>5 DEF Process
  <2>2. CASE par'.ps = "unsupported_cmd"
    BY <1>1, <1>5, <2>1, <2>2 DEF RequestProcess, RequestMarshall
  <2>3. CASE par'.ps = "unsupported_atyp"
    BY <1>1, <1>5, <2>1, <2>3 DEF RequestProcess, RequestMarshall
  <2>4. CASE par'.ps = "done"
    <3>1. par'.type = FQDN =>
            \/ st' = "REQUEST_RESOLV" /\ code' = 1 /\ UNCHANGED out
            \/ RequestMarshall(1)
      BY <2>1, <2>4 DEF RequestProcess
    <3>2. par'.type # FQDN => st' = "CONNECTING" /\ code' = 1 /\ UNCHANGED out
      BY <2>1, <2>4 DEF RequestProcess
    <3>3. out' \in 0..10 /\ code' = 1
      BY <1>2, <3>1, <3>2 DEF RequestMarshall
    <3>4. \/ st' = "REQUEST_WRITE"
          \/ st' = "REQUEST_RESOLV" /\ par'.type = FQDN
          \/ st' = "CONNECTING" /\ par'.type # FQDN
      BY <3>1, <3>2 DEF RequestMarshall
    <3> QED BY <1>1, <1>5, <2>4, <3>3, <3>4
  <2> QED BY <2>2, <2>3, <2>4 DEF Final
<1> QED BY <1>2, <1>3, <1>4, <1>5 DEF ReadStates

LEMMA ConsumeKeeps ==
    ASSUME NegotiationInv, Consume
    PROVE  NegotiationInv'
<1>1. st \in ReadStates /\ why # "parser"
  <2>1. st \in ReadStates /\ st # "ERROR"
    BY DEF Consume, ReadStates
  <2> QED BY <2>1 DEF NegotiationInv, SessionInv
<1>2. /\ st = "HELLO_READ" => HelloKnows(Message', Read', par')
      /\ st = "AUTH_READ" => AuthKnows(Message', Read', par')
      /\ st = "REQUEST_READ" => RequestKnows(Message', Read', par')
  BY ParsedKnows
<1>3. BufferInv' \/ ~(st' \in ReadStates => (busy' <=> rd + 1 < got))
  BY TakesByte
<1>4. SessionInv
  BY DEF NegotiationInv
<1>5. CASE par'.ps = "error"
  <2>1. st' = "ERROR" /\ why' = "parser" /\ busy' = FALSE /\ UNCHANGED <<out, code>>
    BY <1>5 DEF Consume, Fail, Final
  <2>2. st' \notin ReadStates /\ st' \in Settled
    BY <2>1 DEF ReadStates, Settled
  <2>3. BufferInv'
    BY <1>3, <2>2
  <2>4. SessionInv'
    BY <1>4, <1>5, <2>1, <2>2 DEF SessionInv
  <2>5. ParserInv'
    BY <1>1, <1>2, <2>1 DEF ParserInv, ReadStates
  <2> QED BY <2>3, <2>4, <2>5 DEF NegotiationInv
<1>6. CASE par'.ps \in Final \ {"error"}
  <2>1. /\ out' \in 0..10 /\ code' \in {0, 1, 2, 7, 8, 255} /\ busy' = TRUE /\ why' = why
        /\ st = "HELLO_READ" => st' = "HELLO_WRITE" /\ code' \in {0, 2, 255} /\ par'.ps = "done"
        /\ st = "AUTH_READ" => st' = "AUTH_WRITE" /\ par'.ps = "done"
        /\ st = "REQUEST_READ" =>
             \/ st' = "REQUEST_WRITE"
             \/ st' = "REQUEST_RESOLV" /\ par'.ps = "done" /\ par'.type = FQDN
             \/ st' = "CONNECTING" /\ par'.ps = "done" /\ par'.type # FQDN
    BY <1>6, ProcessLeaves
  <2>2. st' \in {"HELLO_WRITE", "AUTH_WRITE", "REQUEST_WRITE", "REQUEST_RESOLV", "CONNECTING"}
    BY <1>1, <2>1 DEF ReadStates
  <2>3. st' \notin ReadStates /\ st' \in WriteStates \cup Settled
    BY <2>2 DEF ReadStates, WriteStates, Settled
  <2>4. BufferInv'
    BY <1>3, <2>3
  <2>5. why' = "alive" \/ why' = "refused"
    <3>1. st # "ERROR"
      BY <1>1 DEF ReadStates
    <3> QED BY <1>4, <2>1, <3>1 DEF SessionInv
  <2>6. SessionInv'
    <3>1. par'.ps \notin {"error"} /\ busy' \in BOOLEAN
      BY <1>6, <2>1
    <3>2. st' # "REQUEST_WRITE" => par'.ps = "done"
      BY <1>1, <2>1 DEF ReadStates
    <3>3. st' = "HELLO_WRITE" => code' \in {0, 2, 255}
      BY <1>1, <2>1 DEF ReadStates
    <3>4. (st' = "REQUEST_RESOLV" => par'.type = FQDN) /\ (st' = "CONNECTING" => par'.type # FQDN)
      BY <1>1, <2>1 DEF ReadStates
    <3> QED BY <1>6, <2>1, <2>3, <2>5, <3>1, <3>2, <3>3, <3>4 DEF SessionInv
  <2>7. ParserInv'
    BY <1>1, <1>2, <2>1 DEF ParserInv, ReadStates
  <2> QED BY <2>4, <2>6, <2>7 DEF NegotiationInv
<1>7. CASE par'.ps \notin Final
  <2>1. (busy' <=> rd + 1 < got) /\ busy' \in BOOLEAN /\ UNCHANGED <<st, out, code, why>>
    BY <1>7 DEF Consume, More, Final
  <2>2. BufferInv'
    BY <1>3, <2>1
  <2>3. ParserInv'
    BY <1>1, <1>2, <2>1 DEF ParserInv, ReadStates
  <2>4. st' \notin WriteStates \cup Settled
    BY <1>1, <2>1 DEF ReadStates, WriteStates, Settled
  <2>5. SessionInv'
    <3>1. par'.ps \notin {"error", "unsupported_cmd", "unsupported_atyp"}
      BY <1>7 DEF Final
    <3>2. st' \notin {"HELLO_WRITE", "AUTH_WRITE", "CONNECTING", "REQUEST_RESOLV", "REQUEST_WRITE"}
      BY <2>4 DEF WriteStates, Settled
    <3> QED BY <1>1, <1>4, <1>7, <2>1, <3>1, <3>2 DEF SessionInv
  <2> QED BY <2>2, <2>3, <2>5 DEF NegotiationInv
<1> QED BY <1>5, <1>6, <1>7

(***************************************************************************)
(* The inductive invariant: however recv cuts the stream, and whatever an  *)
(* administrator does, the parser of the state holds, field by field, what *)
(* the bytes of its message that were read say.                            *)
(***************************************************************************)
THEOREM ParsersKnow == Spec => []NegotiationInv
<1>1. ASSUME NegotiationInv, Next PROVE NegotiationInv'
  BY <1>1, RecvKeeps, EndKeeps, ConsumeKeeps, WriteAllKeeps, WaitKeeps DEF Next
<1>2. ASSUME NegotiationInv, UNCHANGED vars PROVE NegotiationInv'
  <2>1. Message' = Message /\ Read' = Read
    BY <1>2 DEF vars, Message, Read
  <2>2. ParserInv'
    BY <1>2, ParserKept DEF vars, NegotiationInv
  <2>3. BufferInv' /\ SessionInv'
    BY <1>2 DEF vars, NegotiationInv, BufferInv, SessionInv
  <2> QED BY <2>2, <2>3 DEF NegotiationInv
<1> QED BY <1>1, <1>2, InitInv, PTL DEF Spec

-----------------------------------------------------------------------------
\* What the reference says of the bytes read.

\* a and n are the message and how much of it was read.
Reads(a, n) ==
    /\ n \in Nat /\ n = Read /\ Given(a, n)
    /\ \A i \in 1..n : At(i) = a[i]

LEMMA ReadsMessage ==
    ASSUME BufferInv
    PROVE  Reads(Message, Read)
<1>1. /\ Read \in Nat /\ Len(stream) \in Nat /\ Read <= Len(stream) - start
      /\ \A n \in 0..(Len(stream) - start) : Given(Message, n)
      /\ \A i \in 1..(Len(stream) - start) : Message[i] = At(i)
  BY MessageIs
<1>2. Given(Message, Read)
  <2>1. Read \in 0..(Len(stream) - start)
    BY <1>1 DEF BufferInv
  <2> QED BY <1>1, <2>1
<1>3. \A i \in 1..Read : i \in 1..(Len(stream) - start)
  BY <1>1 DEF BufferInv
<1> QED BY <1>1, <1>2, <1>3 DEF Reads

LEMMA HelloBadIs ==
    ASSUME NEW a, NEW n, Reads(a, n), NEW p, HelloKnows(a, n, p)
    PROVE  HelloBad(n) = IF p.ps = "error" THEN n ELSE 0
<1>1. n \in Nat /\ (n >= 1 => At(1) = a[1]) /\ (n >= 2 => At(2) = a[2] /\ a[2] \in 0..255)
  BY DEF Reads, Given
<1>2. CASE n = 0 /\ p = HelloInit
  BY <1>1, <1>2 DEF HelloInit, HelloBad
<1>3. CASE n = 1 /\ p = HelloState(IF a[1] = 5 THEN "nmethods" ELSE "error", 0, {})
  BY <1>1, <1>3 DEF HelloState, HelloBad
<1>4. CASE n = 2 /\ a[1] = 5 /\ a[2] = 0 /\ p = HelloState("error", 0, {})
  BY <1>1, <1>4 DEF HelloState, HelloBad
<1>5. CASE /\ n >= 2 /\ a[1] = 5 /\ a[2] # 0 /\ n <= 2 + a[2]
           /\ p = HelloState(IF n = 2 + a[2] THEN "done" ELSE "methods", 2 + a[2] - n, Offers(a, n))
  <2>1. p.ps # "error" /\ n >= 2 /\ At(1) = 5 /\ At(2) # 0
    BY <1>1, <1>5 DEF HelloState
  <2> QED BY <1>1, <2>1 DEF HelloBad
<1> QED BY <1>2, <1>3, <1>4, <1>5 DEF HelloKnows

LEMMA AuthBadIs ==
    ASSUME NEW a, NEW n, Reads(a, n), NEW p, AuthKnows(a, n, p)
    PROVE  AuthBad(n) = IF p.ps = "error" THEN n ELSE 0
<1>1. n \in Nat /\ (n >= 1 => At(1) = a[1]) /\ (n >= 2 => At(2) = a[2] /\ a[2] \in 0..255)
  BY DEF Reads, Given
<1>0. \A ps, x, u, v, c, d : AuthState(ps, x, u, v, c, d).ps = ps
  BY DEF AuthState
<1>2. CASE n = 0 /\ p = AuthInit
  BY <1>1, <1>2 DEF AuthInit, AuthBad
<1>3. CASE n = 1 /\ p = AuthState(IF a[1] = 1 THEN "ulen" ELSE "error", 0, 0, 0, NoCells, NoCells)
  BY <1>0, <1>1, <1>3 DEF AuthBad
<1>4. CASE n = 2 /\ a[1] = 1 /\ a[2] = 0 /\ p = AuthState("error", 0, 0, 0, NoCells, NoCells)
  BY <1>0, <1>1, <1>4 DEF AuthBad
<1>5. CASE /\ n >= 2 /\ a[1] = 1 /\ a[2] # 0
           /\ NameKnows(a, n, p) \/ (n >= 3 + a[2] /\ PasswordKnows(a, a[2], n, p))
  <2>0. n >= 2 /\ a[1] = 1 /\ a[2] # 0
    BY <1>5, Zenon
  <2>1. PICK u \in 1..255 : u = a[2] /\ u = At(2)
    BY <1>1, <2>0
  <2>2. AuthBad(n) = IF n >= 3 + u /\ At(3 + u) = 0 THEN 3 + u ELSE 0
    BY <1>1, <2>0, <2>1 DEF AuthBad
  <2>3. CASE NameKnows(a, n, p)
    <3>1. n <= 2 + u /\ p.ps # "error"
      BY <1>0, <1>1, <2>1, <2>3 DEF NameKnows
    <3> QED BY <1>1, <2>2, <3>1
  <2>4. CASE n >= 3 + u /\ PasswordKnows(a, u, n, p)
    <3>1. At(3 + u) = a[3 + u]
      <4>1. 3 + u \in 1..n
        BY <1>1, <2>4
      <4> QED BY <4>1 DEF Reads
    <3>2. \/ n = 3 + u /\ a[3 + u] = 0 /\ p.ps = "error"
          \/ a[3 + u] # 0 /\ p.ps # "error"
      BY <1>0, <2>4 DEF PasswordKnows
    <3> QED BY <2>2, <2>4, <3>1, <3>2
  <2> QED BY <1>5, <2>1, <2>3, <2>4, Zenon
<1> QED BY <1>2, <1>3, <1>4, <1>5 DEF AuthKnows

LEMMA RequestBadIs ==
    ASSUME NEW a, NEW n, Reads(a, n), NEW p, RequestKnows(a, n, p)
    PROVE  /\ p.ps = "unsupported_cmd" => n = 2
           /\ p.ps = "unsupported_atyp" => n = 4
           /\ p.ps = "error" => n \in {1, 5}
           /\ RequestBad(n) = IF p.ps \in Final \ {"done"} THEN n ELSE 0
<1>1. /\ n \in Nat /\ (n >= 1 => At(1) = a[1]) /\ (n >= 2 => At(2) = a[2])
      /\ (n >= 4 => At(4) = a[4]) /\ (n >= 5 => At(5) = a[5])
  BY DEF Reads, Given
<1>0. \A ps, x, u, v, c, d : RequestState(ps, x, u, v, c, d).ps = ps
  BY DEF RequestState
<1>2. CASE n = 0 /\ p = RequestInit
  BY <1>1, <1>2 DEF RequestInit, RequestBad, Final
<1>3. CASE n = 1 /\ p = RequestState(IF a[1] = 5 THEN "cmd" ELSE "error", 0, 0, 0, NoCells, 0)
  BY <1>0, <1>1, <1>3 DEF RequestBad, Final
<1>4. CASE n = 2 /\ a[1] = 5
         /\ p = RequestState(IF a[2] = 1 THEN "rsv" ELSE "unsupported_cmd", 0, 0, 0, NoCells, 0)
  BY <1>0, <1>1, <1>4 DEF RequestBad, Final
<1>5. CASE n = 3 /\ a[1] = 5 /\ a[2] = 1 /\ p = RequestState("atyp", 0, 0, 0, NoCells, 0)
  BY <1>0, <1>1, <1>5 DEF RequestBad, Final
<1>6. CASE n = 4 /\ a[1] = 5 /\ a[2] = 1 /\ a[4] \notin {IPv4, IPv6, FQDN}
         /\ p = RequestState("unsupported_atyp", 0, 0, a[4], NoCells, 0)
  BY <1>0, <1>1, <1>6 DEF RequestBad, Final
<1>7. CASE n >= 4 /\ a[1] = 5 /\ a[2] = 1 /\ Body(a, n, p)
  <2>1. ASSUME NEW k, NEW len, AddressKnows(a, k, len, n, p)
        PROVE  p.ps \in {"dst_addr", "dst_port", "done"}
    BY <1>0, <2>1 DEF AddressKnows
  <2>2. /\ a[4] \in {IPv4, IPv6, FQDN}
        /\ \/ p.ps \in {"dst_addr", "dst_port", "done"} /\ ~(n >= 5 /\ a[4] = FQDN /\ a[5] = 0)
           \/ p.ps = "error" /\ n = 5 /\ a[4] = FQDN /\ a[5] = 0
    BY <1>0, <1>1, <1>7, <2>1 DEF Body, IPv4, IPv6, FQDN
  <2> QED BY <1>1, <1>7, <2>2 DEF RequestBad, Final
<1> QED BY <1>2, <1>3, <1>4, <1>5, <1>6, <1>7, RequestIs DEF HeadKnows

\* The three parsers in the union are told apart by their fields.
LEMMA HelloFields ==
    ASSUME NEW a, NEW n, NEW p, HelloKnows(a, n, p)
    PROVE  "offered" \in DOMAIN p /\ "port" \notin DOMAIN p /\ "uname" \notin DOMAIN p
<1>1. \A ps, x, o : DOMAIN HelloState(ps, x, o) = {"ps", "rem", "offered"}
  BY DEF HelloState
<1>2. DOMAIN HelloInit = {"ps", "rem", "offered"}
  BY DEF HelloInit
<1>3. DOMAIN p = {"ps", "rem", "offered"}
  BY <1>1, <1>2 DEF HelloKnows
<1> QED BY <1>3

LEMMA AuthFields ==
    ASSUME NEW a, NEW n, NEW p, AuthKnows(a, n, p)
    PROVE  "offered" \notin DOMAIN p /\ "port" \notin DOMAIN p /\ "uname" \in DOMAIN p
<1> DEFINE D == {"ps", "rem", "ulen", "plen", "uname", "passwd"}
<1>1. \A ps, x, u, v, c, d : DOMAIN AuthState(ps, x, u, v, c, d) = D
  BY DEF AuthState
<1>2. DOMAIN AuthInit = D
  BY DEF AuthInit
<1> HIDE DEF D
<1>3. DOMAIN p = D
  BY <1>1, <1>2 DEF AuthKnows, NameKnows, PasswordKnows
<1> QED BY <1>3 DEF D

LEMMA RequestFields ==
    ASSUME NEW a, NEW n, NEW p, RequestKnows(a, n, p)
    PROVE  "offered" \notin DOMAIN p /\ "port" \in DOMAIN p /\ "uname" \notin DOMAIN p
<1> DEFINE D == {"ps", "rem", "read", "type", "addr", "port"}
<1>1. \A ps, x, u, v, c, d : DOMAIN RequestState(ps, x, u, v, c, d) = D
  BY DEF RequestState
<1>2. DOMAIN RequestInit = D
  BY DEF RequestInit
<1> HIDE DEF D
<1>3. DOMAIN p = D
  BY <1>1, <1>2 DEF RequestKnows, HeadKnows, AddressKnows
<1> QED BY <1>3 DEF D

LEMMA InvRefuses ==
    ASSUME NegotiationInv
    PROVE  RefusedExactly
<1>1. /\ why = "parser" <=> par.ps = "error"
      /\ par.ps \in {"unsupported_cmd", "unsupported_atyp"} /\ why = "alive" => st = "REQUEST_WRITE"
  BY DEF NegotiationInv, SessionInv
<1>2. Reads(Message, Read) /\ Read \in Nat
  BY ReadsMessage DEF NegotiationInv, Reads
<1>3. CASE HelloKnows(Message, Read, par)
  <2>1. "offered" \in DOMAIN par /\ "port" \notin DOMAIN par /\ "uname" \notin DOMAIN par
    BY <1>3, HelloFields
  <2>2. HelloBad(Read) = IF par.ps = "error" THEN Read ELSE 0
    BY <1>2, <1>3, HelloBadIs
  <2>3. par.ps \notin {"unsupported_cmd", "unsupported_atyp"}
    BY <1>3, HelloStatesAre DEF HelloStates
  <2> QED BY <1>1, <2>1, <2>2, <2>3 DEF RefusedExactly
<1>4. CASE AuthKnows(Message, Read, par)
  <2>1. "offered" \notin DOMAIN par /\ "port" \notin DOMAIN par /\ "uname" \in DOMAIN par
    BY <1>4, AuthFields
  <2>2. AuthBad(Read) = IF par.ps = "error" THEN Read ELSE 0
    BY <1>2, <1>4, AuthBadIs
  <2>3. par.ps \notin {"unsupported_cmd", "unsupported_atyp"}
    BY <1>4, AuthStatesAre DEF AuthStates
  <2> QED BY <1>1, <2>1, <2>2, <2>3 DEF RefusedExactly
<1>5. CASE RequestKnows(Message, Read, par)
  <2>1. "offered" \notin DOMAIN par /\ "port" \in DOMAIN par /\ "uname" \notin DOMAIN par
    BY <1>5, RequestFields
  <2>2. /\ par.ps = "unsupported_cmd" => Read = 2
        /\ par.ps = "unsupported_atyp" => Read = 4
        /\ par.ps = "error" => Read \in {1, 5}
        /\ RequestBad(Read) = IF par.ps \in Final \ {"done"} THEN Read ELSE 0
    BY <1>2, <1>5, RequestBadIs
  <2>3. PICK bad : bad = RequestBad(Read)
    OBVIOUS
  <2>4. /\ par.ps = "error" => bad = Read /\ bad # 2 /\ bad # 4
        /\ par.ps = "unsupported_cmd" => bad = 2
        /\ par.ps = "unsupported_atyp" => bad = 4
        /\ par.ps \notin {"error", "unsupported_cmd", "unsupported_atyp"} => bad = 0
    BY <2>2, <2>3 DEF Final
  <2>5. /\ why = "parser" => bad = Read
        /\ par.ps = "unsupported_cmd"  <=> bad = 2
        /\ par.ps = "unsupported_atyp" <=> bad = 4
        /\ why = "alive" /\ st # "REQUEST_WRITE" => bad = 0
    BY <1>1, <2>4
  <2>6. bad = (CASE par.ps \in {"unsupported_cmd", "unsupported_atyp"} -> RequestBad(Read)
                 [] "offered" \in DOMAIN par -> HelloBad(Read)
                 [] "uname" \in DOMAIN par   -> AuthBad(Read)
                 [] OTHER -> RequestBad(Read))
    BY <2>1, <2>3
  <2> QED BY <2>1, <2>5, <2>6, Zenon DEF RefusedExactly
<1> QED BY <1>3, <1>4, <1>5 DEF NegotiationInv, ParserInv

(***************************************************************************)
(* For every client and every buffer: a message is refused at its first    *)
(* wrong byte, with the reply for that byte, and no other is refused.      *)
(***************************************************************************)
THEOREM RefusesExactly == Spec => []RefusedExactly
BY ParsersKnow, InvRefuses, PTL

-----------------------------------------------------------------------------
\* Whole messages.

LEMMA HelloPending ==
    ASSUME NEW a, NEW n, Reads(a, n), NEW p, HelloKnows(a, n, p), p.ps \notin Final
    PROVE  ~HelloWhole(n)
<1>1. n \in Nat /\ (n >= 2 => At(2) = a[2] /\ a[2] \in 0..255)
  BY DEF Reads, Given
<1>2. SUFFICES ASSUME n >= 2 PROVE ~(n >= 2 + a[2])
  BY <1>1 DEF HelloWhole, HelloLen
<1>3. n <= 2 + a[2] /\ n # 2 + a[2]
  BY <1>1, <1>2 DEF HelloKnows, HelloState, Final
<1> QED BY <1>1, <1>2, <1>3

LEMMA AuthPending ==
    ASSUME NEW a, NEW n, Reads(a, n), NEW p, AuthKnows(a, n, p), p.ps \notin Final
    PROVE  ~AuthWhole(n)
<1>0. \A ps, x, u, v, c, d : AuthState(ps, x, u, v, c, d).ps = ps
  BY DEF AuthState
<1>1. n \in Nat /\ (n >= 2 => At(2) = a[2] /\ a[2] \in 0..255)
  BY DEF Reads, Given
<1>2. SUFFICES ASSUME n >= 2, n >= 3 + At(2) PROVE ~(n >= AuthLen)
  BY DEF AuthWhole
<1>3. PICK u \in 0..255 : u = a[2] /\ u = At(2)
  BY <1>1, <1>2
<1>4. 3 + u \in 1..n
  BY <1>1, <1>2, <1>3
<1>5. PICK v \in 0..255 : v = a[3 + u] /\ v = At(3 + u)
  BY <1>4 DEF Reads, Given
<1>6. AuthLen = 3 + u + v
  BY <1>3, <1>5 DEF AuthLen
<1>7. /\ n >= 2 /\ a[1] = 1 /\ a[2] # 0
      /\ NameKnows(a, n, p) \/ (n >= 3 + a[2] /\ PasswordKnows(a, a[2], n, p))
  <2>1. n # 0 /\ n # 1 /\ ~(n = 2 /\ a[2] = 0)
    BY <1>1, <1>2, <1>3
  <2> QED BY <2>1, Zenon DEF AuthKnows
<1>8. ~NameKnows(a, n, p)
  BY <1>1, <1>2, <1>3 DEF NameKnows
<1>9. PasswordKnows(a, u, n, p)
  BY <1>3, <1>7, <1>8, Zenon
<1>10. n < 3 + u + v
  BY <1>0, <1>5, <1>9 DEF PasswordKnows, Final
<1> QED BY <1>1, <1>6, <1>10

LEMMA AddressPending ==
    ASSUME NEW a, NEW k \in Nat, NEW len \in Nat, NEW n \in Nat,
           NEW p, AddressKnows(a, k, len, n, p), p.ps \notin Final
    PROVE  ~(n >= k + len + 2)
<1>0. \A ps, x, u, v, c, d : RequestState(ps, x, u, v, c, d).ps = ps
  BY DEF RequestState
<1>1. n < k + len \/ n = k + len \/ n = k + len + 1
  BY <1>0 DEF AddressKnows, Final
<1> QED BY <1>1

LEMMA RequestPending ==
    ASSUME NEW a, NEW n, Reads(a, n), NEW p, RequestKnows(a, n, p), p.ps \notin Final
    PROVE  ~RequestWhole(n)
<1>1. n \in Nat /\ (n >= 4 => At(4) = a[4]) /\ (n >= 5 => At(5) = a[5] /\ a[5] \in 0..255)
  BY DEF Reads, Given
<1>2. SUFFICES ASSUME n >= 5 PROVE ~(n >= RequestLen)
  BY DEF RequestWhole
<1>3. Body(a, n, p)
  <2>1. ~HeadKnows(a, n, p)
    BY <1>1, <1>2 DEF HeadKnows
  <2> QED BY <2>1, RequestIs
<1>4. CASE a[4] = IPv4
  <2>1. AddressKnows(a, 4, 4, n, p)
    BY <1>3, <1>4 DEF Body, IPv4, IPv6, FQDN
  <2>2. ~(n >= 4 + 4 + 2)
    BY <1>1, <2>1, AddressPending
  <2>3. RequestLen = 10
    BY <1>1, <1>2, <1>4 DEF RequestLen, IPv4, IPv6, FQDN
  <2> QED BY <1>1, <2>2, <2>3
<1>5. CASE a[4] = IPv6
  <2>1. AddressKnows(a, 4, 16, n, p)
    BY <1>3, <1>5 DEF Body, IPv4, IPv6, FQDN
  <2>2. ~(n >= 4 + 16 + 2)
    BY <1>1, <2>1, AddressPending
  <2>3. RequestLen = 22
    BY <1>1, <1>2, <1>5 DEF RequestLen, IPv4, IPv6, FQDN
  <2> QED BY <1>1, <2>2, <2>3
<1>6. CASE a[4] = FQDN
  <2>0. PICK len \in 0..255 : len = a[5] /\ len = At(5)
    BY <1>1, <1>2
  <2>1. AddressKnows(a, 5, len, n, p)
    <3>1. p # RequestState("error", 0, 0, FQDN, NoCells, 0)
      BY DEF RequestState, Final
    <3>2. n # 4 /\ FQDN # IPv4 /\ FQDN # IPv6
      BY <1>1, <1>2 DEF IPv4, IPv6, FQDN
    <3> QED BY <1>3, <1>6, <2>0, <3>1, <3>2, Zenon DEF Body
  <2>2. ~(n >= 5 + len + 2)
    BY <1>1, <2>1, AddressPending
  <2>3. RequestLen = 7 + len
    BY <1>1, <1>2, <1>6, <2>0 DEF RequestLen, IPv4, IPv6, FQDN
  <2> QED BY <1>1, <2>2, <2>3
<1> QED BY <1>3, <1>4, <1>5, <1>6 DEF Body

LEMMA InvWaits ==
    ASSUME NegotiationInv
    PROVE  NothingLeftWaiting
<1> SUFFICES ASSUME ~busy, st \in ReadStates
             PROVE  /\ ~CanRead /\ Available > 0
                    /\ CASE st = "HELLO_READ"   -> ~HelloWhole(Read)
                         [] st = "AUTH_READ"    -> ~AuthWhole(Read)
                         [] st = "REQUEST_READ" -> ~RequestWhole(Read)
  BY DEF NothingLeftWaiting
<1>1. ~(rd < got)
  BY DEF NegotiationInv, BufferInv
<1>2. rd = got /\ base = got /\ got \in Nat
  BY <1>1 DEF NegotiationInv, BufferInv
<1>3. ~CanRead /\ Available > 0
  BY <1>1, <1>2, BufferAssumption DEF CanRead, Available
<1>4. Reads(Message, Read) /\ par.ps \notin Final
  BY ReadsMessage DEF NegotiationInv, SessionInv
<1>5. /\ st = "HELLO_READ" => ~HelloWhole(Read)
      /\ st = "AUTH_READ" => ~AuthWhole(Read)
      /\ st = "REQUEST_READ" => ~RequestWhole(Read)
  BY <1>4, HelloPending, AuthPending, RequestPending DEF NegotiationInv, ParserInv
<1> QED BY <1>3, <1>5 DEF ReadStates

(***************************************************************************)
(* For every client and every buffer: a session that waits for its client  *)
(* has taken all it was sent, misses a part of the message and has room.   *)
(***************************************************************************)
THEOREM LeavesNothingWaiting == Spec => []NothingLeftWaiting
BY ParsersKnow, InvWaits, PTL

-----------------------------------------------------------------------------
\* Strings: what strcmp sees of an array is the field up to its first zero.

\* A nonempty set of natural numbers has a least element.
LEMMA Least ==
    ASSUME NEW S, S \subseteq Nat, S # {}
    PROVE  \E m \in S : \A k \in S : m <= k
<1>1. PICK m \in S : \A k \in S : ~(<<k, m>> \in OpToRel(<, Nat))
  BY NatLessThanWellFounded, WFMin
<1>2. \A k \in S : ~(k < m)
  BY <1>1 DEF OpToRel
<1> QED BY <1>2

\* e is the first of the cells 0..n that is zero.
FirstZero(c, n, e) == e \in 0..n /\ c[e] = 0 /\ \A j \in 0..(e - 1) : c[j] # 0

LEMMA FirstZeroExists ==
    ASSUME NEW c, NEW n \in Nat, c[n] = 0
    PROVE  \E e \in 0..n : FirstZero(c, n, e)
<1> DEFINE S == {j \in 0..n : c[j] = 0}
<1>1. S \subseteq Nat /\ n \in S
  OBVIOUS
<1>2. PICK e \in S : \A k \in S : e <= k
  <2>1. S # {}
    BY <1>1
  <2> HIDE DEF S
  <2> QED BY <1>1, <2>1, Least
<1>3. e \in 0..n /\ c[e] = 0
  OBVIOUS
<1>4. ASSUME NEW j \in 0..(e - 1) PROVE c[j] # 0
  <2>1. j \in 0..n /\ ~(e <= j)
    BY <1>3
  <2> QED BY <1>2, <2>1
<1> QED BY <1>3, <1>4 DEF FirstZero

LEMMA FirstZeroUnique ==
    ASSUME NEW c, NEW n \in Nat, NEW e, FirstZero(c, n, e), NEW f, FirstZero(c, n, f)
    PROVE  e = f
<1>1. e \in 0..n /\ f \in 0..n
  BY DEF FirstZero
<1>2. ~(e < f)
  <2>1. e < f => e \in 0..(f - 1)
    BY <1>1
  <2> QED BY <2>1 DEF FirstZero
<1>3. ~(f < e)
  <2>1. f < e => f \in 0..(e - 1)
    BY <1>1
  <2> QED BY <2>1 DEF FirstZero
<1> QED BY <1>1, <1>2, <1>3

LEMMA CStringIs ==
    ASSUME NEW c, NEW n \in Nat, DOMAIN c = 0..n, c[n] = 0, NEW e, FirstZero(c, n, e)
    PROVE  CString(c) = [i \in 1..e |-> c[i - 1]]
<1> DEFINE P(k) == c[k] = 0 /\ \A j \in 0..(k - 1) : c[j] # 0
<1>1. \A k \in 0..n : P(k) <=> k = e
  BY FirstZeroUnique DEF FirstZero
<1>2. e \in 0..n
  BY DEF FirstZero
<1>3. (CHOOSE k \in DOMAIN c : P(k)) = e
  <2>1. (CHOOSE k \in 0..n : P(k)) = e
    <3> HIDE DEF P
    <3> QED BY <1>1, <1>2
  <2> QED BY <2>1
<1> QED BY <1>3 DEF CString

LEMMA CutIs ==
    ASSUME NEW s \in Seq(0..255), NEW e, NEW n \in Nat, n = Len(s), e \in 0..n,
           e < n => s[e + 1] = 0, \A i \in 1..e : s[i] # 0
    PROVE  Cut(s) = [i \in 1..e |-> s[i]]
<1>1. CASE e = n
  <2>1. Cut(s) = s
    BY <1>1 DEF Cut
  <2> QED BY <1>1, <2>1
<1>2. CASE e < n
  <2> DEFINE P(k) == s[k] = 0 /\ \A j \in 1..(k - 1) : s[j] # 0
  <2>1. e + 1 \in 1..n /\ s[e + 1] = 0
    BY <1>2
  <2>2. ASSUME NEW k \in 1..n PROVE P(k) <=> k = e + 1
    <3>1. k < e + 1 => k \in 1..e
      OBVIOUS
    <3>2. k > e + 1 => e + 1 \in 1..(k - 1)
      OBVIOUS
    <3>3. P(k) => k = e + 1
      BY <2>1, <3>1, <3>2
    <3>4. P(e + 1)
      BY <2>1
    <3> QED BY <3>3, <3>4
  <2>3. (CHOOSE k \in 1..Len(s) : P(k)) = e + 1
    <3> HIDE DEF P
    <3> QED BY <2>1, <2>2
  <2>4. Cut(s) = SubSeq(s, 1, e)
    <3>1. \E i \in 1..Len(s) : s[i] = 0
      BY <2>1
    <3>2. PICK q : q = CHOOSE k \in 1..Len(s) : P(k)
      OBVIOUS
    <3>3. Cut(s) = SubSeq(s, 1, q - 1)
      BY <3>1, <3>2 DEF Cut
    <3>4. q = e + 1
      BY <2>3, <3>2, Zenon
    <3>5. q - 1 = e
      BY <3>4
    <3> QED BY <3>3, <3>5
  <2>6. SubSeq(s, 1, e) = [i \in 1..e |-> s[i]]
    OBVIOUS
  <2> QED BY <2>4, <2>6
<1> QED BY <1>1, <1>2

\* s is the n bytes of a that follow the first k.
Spells(s, a, k, n) ==
    s \in Seq(0..255) /\ Len(s) = n /\ \A i \in 1..n : s[i] = a[k + i]

LEMMA StringIs ==
    ASSUME NEW a, NEW k \in Nat, NEW n \in Nat, NEW s, Spells(s, a, k, n)
    PROVE  CString(Closed(a, k, n)) = Cut(s)
<1>0. s \in Seq(0..255) /\ Len(s) = n /\ \A i \in 1..n : s[i] = a[k + i]
  BY DEF Spells
<1>1. PICK c : c = Closed(a, k, n)
  OBVIOUS
<1>2. DOMAIN c = 0..n /\ c[n] = 0
  BY <1>1 DEF Closed
<1>3. \A i \in 1..n : c[i - 1] = s[i]
  <2>1. ASSUME NEW i \in 1..n PROVE c[i - 1] = s[i]
    <3>1. i - 1 \in 0..n /\ i - 1 # n /\ k + 1 + (i - 1) = k + i
      OBVIOUS
    <3> QED BY <1>0, <1>1, <3>1 DEF Closed
  <2> QED BY <2>1
<1>4. PICK e \in 0..n : FirstZero(c, n, e)
  BY <1>2, FirstZeroExists
<1>5. CString(c) = [i \in 1..e |-> c[i - 1]]
  BY <1>2, <1>4, CStringIs
<1>6. \A i \in 1..e : s[i] # 0
  <2>1. ASSUME NEW i \in 1..e PROVE s[i] # 0
    <3>1. i \in 1..n /\ i - 1 \in 0..(e - 1)
      OBVIOUS
    <3> QED BY <1>3, <1>4, <3>1 DEF FirstZero
  <2> QED BY <2>1
<1>7. e < n => s[e + 1] = 0
  <2>1. e < n => e + 1 \in 1..n /\ e + 1 - 1 = e
    OBVIOUS
  <2> QED BY <1>3, <1>4, <2>1 DEF FirstZero
<1>8. Cut(s) = [i \in 1..e |-> s[i]]
  BY <1>0, <1>6, <1>7, CutIs
<1>9. \A i \in 1..e : c[i - 1] = s[i]
  BY <1>3
<1> QED BY <1>1, <1>5, <1>8, <1>9

\* The bytes of a field that was read.
LEMMA BytesAre ==
    ASSUME BufferInv, NEW a, NEW n, Reads(a, n), NEW k \in Nat, NEW m \in Nat, k + m <= n
    PROVE  Spells(Bytes(k + 1, m), a, k, m)
<1>1. stream \in Seq(0..255) /\ Len(stream) \in Nat /\ \A i \in 1..Len(stream) : stream[i] \in 0..255
  BY StreamIs DEF BufferInv
<1>2. /\ start \in Nat /\ rd \in Nat /\ rd <= Len(stream) /\ n = rd - start /\ n \in Nat
  BY <1>1 DEF BufferInv, Reads, Read
<1>3. PICK f \in Int, l \in Int : f = start + (k + 1) /\ l = start + (k + 1) + m - 1
  BY <1>2
<1>4. \A i \in f..l : i \in 1..Len(stream)
  BY <1>1, <1>2, <1>3
<1>5. PICK b : b = SubSeq(stream, f, l)
  OBVIOUS
<1>6. /\ b \in Seq(0..255) /\ Len(b) = (IF f <= l THEN l - f + 1 ELSE 0)
      /\ \A i \in 1..(l - f + 1) : b[i] = stream[f + i - 1]
  <2>1. \A i \in f..l : stream[i] \in 0..255
    BY <1>1, <1>4
  <2> QED BY <1>5, <2>1, SubSeqProperties
<1>7. l - f + 1 = m /\ (f <= l <=> m # 0) /\ Len(b) = m
  BY <1>2, <1>3, <1>6
<1>8. ASSUME NEW i \in 1..m PROVE b[i] = a[k + i]
  <2>1. k + i \in 1..n /\ f + i - 1 = start + (k + i)
    BY <1>2, <1>3
  <2>2. At(k + i) = a[k + i]
    BY <2>1 DEF Reads
  <2> QED BY <1>6, <1>7, <2>1, <2>2 DEF At
<1>9. Bytes(k + 1, m) = b
  BY <1>3, <1>5 DEF Bytes
<1>10. Spells(b, a, k, m)
  BY <1>6, <1>7, <1>8 DEF Spells
<1> QED BY <1>9, <1>10, Zenon

LEMMA FieldIs ==
    ASSUME BufferInv, NEW a, NEW n, Reads(a, n), NEW k \in Nat, NEW m \in Nat, k + m <= n
    PROVE  CString(Closed(a, k, m)) = Cut(Bytes(k + 1, m))
<1>1. Spells(Bytes(k + 1, m), a, k, m)
  BY BytesAre
<1> QED BY <1>1, StringIs, Zenon

-----------------------------------------------------------------------------
\* Whole messages are what they say.

LEMMA HelloDone ==
    ASSUME NEW a, NEW n, Reads(a, n), NEW p, HelloKnows(a, n, p)
    PROVE  /\ p.rem \in 0..255
           /\ p.ps = "done" =>
                n = HelloLen /\ p.offered = {At(i) : i \in 3..HelloLen} \cap {0, 2}
<1>1. n \in Nat /\ (n >= 2 => At(2) = a[2] /\ a[2] \in 0..255) /\ \A i \in 1..n : At(i) = a[i]
  BY DEF Reads, Given
<1>2. p.rem \in 0..255
  <2>1. p.rem = 0 \/ (n >= 2 /\ n <= 2 + a[2] /\ p.rem = 2 + a[2] - n)
    BY DEF HelloKnows, HelloState, HelloInit
  <2>2. CASE n >= 2
    <3>1. PICK m \in 0..255 : m = a[2]
      BY <1>1, <2>2
    <3>2. p.rem = 0 \/ (n <= 2 + m /\ p.rem = 2 + m - n)
      BY <2>1, <3>1, Zenon
    <3>3. CASE n <= 2 + m /\ p.rem = 2 + m - n
      <4>1. 2 + m - n \in 0..255
        BY <1>1, <2>2, <3>3
      <4> QED BY <3>3, <4>1, Zenon
    <3>4. 0 \in 0..255
      OBVIOUS
    <3> QED BY <3>2, <3>3, <3>4, Zenon
  <2> QED BY <2>1, <2>2
<1>3. ASSUME p.ps = "done"
      PROVE  n = HelloLen /\ p.offered = {At(i) : i \in 3..HelloLen} \cap {0, 2}
  <2>1. n >= 2 /\ n = 2 + a[2] /\ p.offered = Offers(a, n)
    BY <1>3 DEF HelloKnows, HelloState, HelloInit
  <2>2. n = HelloLen
    BY <1>1, <2>1 DEF HelloLen
  <2>3. \A i \in 3..n : At(i) = a[i]
    BY <1>1
  <2>4. {At(i) : i \in 3..n} = {a[i] : i \in 3..n}
    BY <2>3
  <2> QED BY <2>1, <2>2, <2>4 DEF Offers
<1> QED BY <1>2, <1>3

LEMMA AuthDone ==
    ASSUME BufferInv, NEW a, NEW n, Reads(a, n), NEW p, AuthKnows(a, n, p)
    PROVE  /\ p.rem \in 0..255
           /\ p.ps = "done" =>
                /\ n = AuthLen
                /\ CString(p.uname) = Cut(Bytes(3, At(2)))
                /\ CString(p.passwd) = Cut(Bytes(4 + At(2), At(3 + At(2))))
<1>0. \A ps, x, u, v, c, d : LET q == AuthState(ps, x, u, v, c, d)
                             IN  q.ps = ps /\ q.rem = x /\ q.uname = c /\ q.passwd = d
  BY DEF AuthState
<1>1. n \in Nat /\ (n >= 2 => At(2) = a[2] /\ a[2] \in 0..255)
  BY DEF Reads, Given
<1>2. CASE n = 0 /\ p = AuthInit
  BY <1>2 DEF AuthInit
<1>3. CASE n = 1 /\ p = AuthState(IF a[1] = 1 THEN "ulen" ELSE "error", 0, 0, 0, NoCells, NoCells)
  BY <1>0, <1>3
<1>4. CASE n = 2 /\ a[1] = 1 /\ a[2] = 0 /\ p = AuthState("error", 0, 0, 0, NoCells, NoCells)
  BY <1>0, <1>4
<1>5. CASE /\ n >= 2 /\ a[1] = 1 /\ a[2] # 0
           /\ NameKnows(a, n, p) \/ (n >= 3 + a[2] /\ PasswordKnows(a, a[2], n, p))
  <2>0. n >= 2
    BY <1>5, Zenon
  <2>1. PICK u \in 0..255 : u = a[2] /\ u = At(2)
    BY <1>1, <2>0
  <2>2. CASE NameKnows(a, n, p)
    <3>1. p.ps # "done" /\ (p.rem = 0 \/ (n < 2 + u /\ p.rem = 2 + u - n))
      BY <1>0, <2>1, <2>2 DEF NameKnows
    <3> QED BY <1>1, <2>0, <3>1
  <2>3. CASE n >= 3 + u /\ PasswordKnows(a, u, n, p)
    <3>1. 3 + u \in 1..n
      BY <1>1, <2>3
    <3>2. PICK v \in 0..255 : v = a[3 + u] /\ v = At(3 + u)
      BY <3>1 DEF Reads, Given
    <3>3. p.rem = 0 \/ (n < 3 + u + v /\ p.rem = 3 + u + v - n)
      BY <1>0, <2>3, <3>2 DEF PasswordKnows
    <3>4. p.rem \in 0..255
      BY <1>1, <2>3, <3>3
    <3>5. ASSUME p.ps = "done"
          PROVE  /\ n = AuthLen
                 /\ CString(p.uname) = Cut(Bytes(3, u))
                 /\ CString(p.passwd) = Cut(Bytes(4 + u, v))
      <4>1. n = 3 + u + v /\ p.uname = Closed(a, 2, u) /\ p.passwd = Closed(a, 3 + u, v)
        BY <1>0, <2>3, <3>2, <3>5 DEF PasswordKnows
      <4>2. n = AuthLen
        BY <2>1, <3>2, <4>1 DEF AuthLen
      <4>3. 2 \in Nat /\ u \in Nat /\ v \in Nat /\ 3 + u \in Nat /\ 2 + u <= n /\ 3 + u + v <= n
        BY <4>1
      <4>4. CString(Closed(a, 2, u)) = Cut(Bytes(2 + 1, u))
        BY <4>3, FieldIs
      <4>5. CString(Closed(a, 3 + u, v)) = Cut(Bytes(3 + u + 1, v))
        BY <4>3, FieldIs
      <4>6. 2 + 1 = 3 /\ 3 + u + 1 = 4 + u
        OBVIOUS
      <4> QED BY <4>1, <4>2, <4>4, <4>5, <4>6, Zenon
    <3> QED BY <2>1, <3>2, <3>4, <3>5, Zenon
  <2> QED BY <1>5, <2>1, <2>2, <2>3, Zenon
<1> QED BY <1>2, <1>3, <1>4, <1>5 DEF AuthKnows

\* A request that is whole, for an address of len bytes after the first k.
Ended(a, k, len, n, p) ==
    /\ n = k + len + 2 /\ p.type = a[4]
    /\ p.port = 256 * a[k + len + 1] + a[k + len + 2]
    /\ p.addr = IF a[4] = FQDN THEN Closed(a, k, len) ELSE Cells(a, k, len)

LEMMA AddressDone ==
    ASSUME NEW a, NEW k \in Nat, NEW len \in 0..255, NEW n \in Nat, k <= n,
           NEW p, AddressKnows(a, k, len, n, p)
    PROVE  p.rem \in 0..255 /\ (p.ps = "done" => Ended(a, k, len, n, p))
<1>0. \A ps, x, r, t, c, o : LET q == RequestState(ps, x, r, t, c, o)
                             IN  q.ps = ps /\ q.rem = x /\ q.type = t /\ q.addr = c /\ q.port = o
  BY DEF RequestState
<1>1. p.rem = 0 \/ (n < k + len /\ p.rem = k + len - n)
  BY <1>0 DEF AddressKnows
<1>2. p.rem \in 0..255
  BY <1>1
<1>3. p.ps = "done" => Ended(a, k, len, n, p)
  BY <1>0 DEF AddressKnows, Ended
<1> QED BY <1>2, <1>3

\* The same, in the reference's words.
Says(a, k, len, n, p) ==
    /\ n = RequestLen /\ p.type = At(4)
    /\ p.port = 256 * At(RequestLen - 1) + At(RequestLen)
    /\ p.addr = IF a[4] = FQDN THEN Closed(a, k, len) ELSE Cells(a, k, len)

LEMMA AddressSays ==
    ASSUME NEW a, NEW n, Reads(a, n), n >= 4, NEW k \in Nat, NEW len \in 0..255, k <= n,
           NEW p, AddressKnows(a, k, len, n, p), p.ps = "done", RequestLen = k + len + 2
    PROVE  Says(a, k, len, n, p)
<1>1. /\ n = k + len + 2 /\ p.type = a[4]
      /\ p.port = 256 * a[k + len + 1] + a[k + len + 2]
      /\ p.addr = IF a[4] = FQDN THEN Closed(a, k, len) ELSE Cells(a, k, len)
  <2>1. n \in Nat
    BY DEF Reads
  <2>2. Ended(a, k, len, n, p)
    BY <2>1, AddressDone
  <2> QED BY <2>2 DEF Ended
<1>2. n \in Nat /\ \A i \in 1..n : At(i) = a[i]
  BY DEF Reads
<1>3. 4 \in 1..n /\ k + len + 1 \in 1..n /\ k + len + 2 \in 1..n /\ RequestLen - 1 = k + len + 1
  BY <1>1, <1>2
<1>4. At(4) = a[4] /\ At(RequestLen - 1) = a[k + len + 1] /\ At(RequestLen) = a[k + len + 2]
  BY <1>2, <1>3
<1> QED BY <1>1, <1>4 DEF Says

LEMMA RequestDone ==
    ASSUME NEW a, NEW n, Reads(a, n), NEW p, RequestKnows(a, n, p)
    PROVE  /\ p.rem \in 0..255
           /\ p.ps = "done" =>
                \/ a[4] = IPv4 /\ n = 10 /\ Says(a, 4, 4, n, p)
                \/ a[4] = IPv6 /\ n = 22 /\ Says(a, 4, 16, n, p)
                \/ a[4] = FQDN /\ a[5] \in 0..255 /\ a[5] = At(5) /\ n = 7 + a[5]
                     /\ Says(a, 5, a[5], n, p)
<1>0. \A ps, x, r, t, c, o : LET q == RequestState(ps, x, r, t, c, o)
                             IN  q.ps = ps /\ q.rem = x
  BY DEF RequestState
<1>1. n \in Nat /\ (n >= 4 => At(4) = a[4]) /\ (n >= 5 => At(5) = a[5] /\ a[5] \in 0..255)
  BY DEF Reads, Given
<1>2. HeadKnows(a, n, p) => p.rem = 0 /\ p.ps # "done"
  <2>1. RequestInit.rem = 0 /\ RequestInit.ps = "version"
    BY DEF RequestInit
  <2> QED BY <1>0, <2>1 DEF HeadKnows
<1>3. CASE n >= 4 /\ Body(a, n, p)
  <2>1. CASE a[4] = IPv4 /\ AddressKnows(a, 4, 4, n, p)
    <3>1. RequestLen = 4 + 4 + 2
      BY <1>1, <1>3, <2>1 DEF RequestLen, IPv4, IPv6, FQDN
    <3>2. p.rem \in 0..255
      <4>1. 4 \in Nat /\ 4 \in 0..255 /\ 4 <= n
        BY <1>1, <1>3
      <4> QED BY <1>1, <2>1, <4>1, AddressDone, Zenon
    <3>3. p.ps = "done" => Says(a, 4, 4, n, p)
      <4>1. 4 \in Nat /\ 4 \in 0..255 /\ 4 <= n
        BY <1>1, <1>3
      <4> QED BY <1>3, <2>1, <3>1, <4>1, AddressSays, Zenon
    <3>4. p.ps = "done" => n = 10
      BY <3>1, <3>3 DEF Says
    <3> QED BY <2>1, <3>2, <3>3, <3>4
  <2>2. CASE a[4] = IPv6 /\ AddressKnows(a, 4, 16, n, p)
    <3>1. RequestLen = 4 + 16 + 2
      BY <1>1, <1>3, <2>2 DEF RequestLen, IPv4, IPv6, FQDN
    <3>2. p.rem \in 0..255
      <4>1. 4 \in Nat /\ 16 \in 0..255 /\ 4 <= n
        BY <1>1, <1>3
      <4> QED BY <1>1, <2>2, <4>1, AddressDone, Zenon
    <3>3. p.ps = "done" => Says(a, 4, 16, n, p)
      <4>1. 4 \in Nat /\ 16 \in 0..255 /\ 4 <= n
        BY <1>1, <1>3
      <4> QED BY <1>3, <2>2, <3>1, <4>1, AddressSays, Zenon
    <3>4. p.ps = "done" => n = 22
      BY <3>1, <3>3 DEF Says
    <3> QED BY <2>2, <3>2, <3>3, <3>4
  <2>3. CASE a[4] = FQDN /\ n = 4 /\ p = RequestState("dst_addr", 0, 0, FQDN, NoCells, 0)
    BY <1>0, <2>3
  <2>4. CASE a[4] = FQDN /\ n = 5 /\ a[5] = 0 /\ p = RequestState("error", 0, 0, FQDN, NoCells, 0)
    BY <1>0, <2>4
  <2>5. CASE a[4] = FQDN /\ n >= 5 /\ a[5] # 0 /\ AddressKnows(a, 5, a[5], n, p)
    <3>0. PICK len \in 0..255 : len = a[5] /\ len = At(5)
      BY <1>1, <2>5
    <3>1. RequestLen = 5 + len + 2 /\ RequestLen = 7 + len
      BY <1>1, <1>3, <2>5, <3>0 DEF RequestLen, IPv4, IPv6, FQDN
    <3>2. n >= 5 /\ AddressKnows(a, 5, len, n, p)
      BY <2>5, <3>0, Zenon
    <3>3. p.rem \in 0..255
      BY <1>1, <3>2, AddressDone
    <3>4. p.ps = "done" => Says(a, 5, len, n, p)
      BY <1>3, <3>1, <3>2, AddressSays
    <3>5. p.ps = "done" => n = 7 + len
      BY <3>1, <3>4 DEF Says
    <3> QED BY <2>5, <3>0, <3>3, <3>4, <3>5, Zenon
  <2> QED BY <1>3, <2>1, <2>2, <2>3, <2>4, <2>5 DEF Body
<1> QED BY <1>2, <1>3, RequestIs

LEMMA InvTypes ==
    ASSUME NegotiationInv
    PROVE  TypeOK
<1>1. Reads(Message, Read)
  BY ReadsMessage DEF NegotiationInv
<1>2. par.rem \in 0..255
  BY <1>1, HelloDone, AuthDone, RequestDone DEF NegotiationInv, ParserInv
<1>3. /\ stream \in Streams /\ users \in Accounts
      /\ 0 <= base /\ base <= rd /\ rd <= got /\ got <= Len(stream)
      /\ got - base <= BufferSize /\ start \in 0..rd
  BY DEF NegotiationInv, BufferInv
<1>4. /\ st \in ReadStates \cup WriteStates \cup Settled
      /\ out \in 0..10 /\ code \in 0..255 /\ busy \in BOOLEAN
      /\ why \in {"alive", "peer", "parser", "refused"}
  BY DEF NegotiationInv, SessionInv
<1> QED BY <1>2, <1>3, <1>4 DEF TypeOK

LEMMA InvDecodes ==
    ASSUME NegotiationInv
    PROVE  Decoded
<1>1. Reads(Message, Read) /\ BufferInv
  BY ReadsMessage DEF NegotiationInv
<1>2. PICK a, n : a = Message /\ n = Read
  OBVIOUS
<1>3. Reads(a, n)
  BY <1>1, <1>2, Zenon
<1>4. ASSUME st = "HELLO_WRITE"
      PROVE  Read = HelloLen /\ par.offered = {At(i) : i \in 3..HelloLen} \cap {0, 2}
  <2>1. HelloKnows(Message, Read, par) /\ par.ps = "done"
    BY <1>4 DEF NegotiationInv, ParserInv, SessionInv
  <2> QED BY <1>1, <2>1, HelloDone
<1>5. ASSUME st = "AUTH_WRITE"
      PROVE  /\ Read = AuthLen
             /\ CString(par.uname) = Cut(Bytes(3, At(2)))
             /\ CString(par.passwd) = Cut(Bytes(4 + At(2), At(3 + At(2))))
  <2>1. AuthKnows(Message, Read, par) /\ par.ps = "done"
    BY <1>5 DEF NegotiationInv, ParserInv, SessionInv
  <2> QED BY <1>1, <2>1, AuthDone
<1>6. ASSUME st \in {"CONNECTING", "REQUEST_RESOLV"}
      PROVE  /\ Read = RequestLen
             /\ par.port = 256 * At(RequestLen - 1) + At(RequestLen)
             /\ par.type = At(4)
             /\ IF st = "REQUEST_RESOLV"
                THEN At(4) = FQDN /\ CString(par.addr) = Cut(Bytes(6, At(5)))
                ELSE At(4) # FQDN /\ \A i \in 5..(RequestLen - 2) : par.addr[i - 5] = At(i)
  <2>1. /\ RequestKnows(a, n, par) /\ par.ps = "done"
        /\ (st = "REQUEST_RESOLV" => par.type = FQDN) /\ (st = "CONNECTING" => par.type # FQDN)
    BY <1>2, <1>6 DEF NegotiationInv, ParserInv, SessionInv
  <2>2. \/ a[4] = IPv4 /\ n = 10 /\ Says(a, 4, 4, n, par)
        \/ a[4] = IPv6 /\ n = 22 /\ Says(a, 4, 16, n, par)
        \/ a[4] = FQDN /\ a[5] \in 0..255 /\ a[5] = At(5) /\ n = 7 + a[5]
             /\ Says(a, 5, a[5], n, par)
    BY <1>3, <2>1, RequestDone
  <2>3. /\ Read = RequestLen /\ par.type = At(4)
        /\ par.port = 256 * At(RequestLen - 1) + At(RequestLen)
    BY <1>2, <2>2 DEF Says
  <2>4. n \in Nat /\ n = RequestLen /\ \A i \in 1..n : At(i) = a[i]
    BY <1>2, <1>3, <2>3 DEF Reads
  <2>5. ASSUME NEW len \in Nat, a[4] # FQDN, n = 4 + len + 2, Says(a, 4, len, n, par)
        PROVE  At(4) # FQDN /\ \A i \in 5..(RequestLen - 2) : par.addr[i - 5] = At(i)
    <3>1. par.addr = Cells(a, 4, len)
      BY <2>5 DEF Says
    <3>2. At(4) = a[4]
      BY <2>4, <2>5
    <3>3. ASSUME NEW i \in 5..(RequestLen - 2) PROVE par.addr[i - 5] = At(i)
      <4>1. i \in 1..n /\ i - 5 \in 0..(len - 1) /\ 4 + 1 + (i - 5) = i
        BY <2>4, <2>5
      <4>2. Cells(a, 4, len)[i - 5] = a[4 + 1 + (i - 5)]
        BY <4>1 DEF Cells
      <4> QED BY <2>4, <3>1, <4>1, <4>2
    <3> QED BY <2>5, <3>2, <3>3
  <2>6. CASE a[4] = IPv4 /\ n = 10 /\ Says(a, 4, 4, n, par)
    <3>1. 4 \in Nat /\ a[4] # FQDN /\ n = 4 + 4 + 2
      BY <2>6 DEF IPv4, FQDN
    <3>2. At(4) # FQDN /\ \A i \in 5..(RequestLen - 2) : par.addr[i - 5] = At(i)
      BY <2>5, <2>6, <3>1
    <3> QED BY <1>6, <2>1, <2>3, <3>2
  <2>7. CASE a[4] = IPv6 /\ n = 22 /\ Says(a, 4, 16, n, par)
    <3>1. 16 \in Nat /\ a[4] # FQDN /\ n = 4 + 16 + 2
      BY <2>7 DEF IPv6, FQDN
    <3>2. At(4) # FQDN /\ \A i \in 5..(RequestLen - 2) : par.addr[i - 5] = At(i)
      BY <2>5, <2>7, <3>1
    <3> QED BY <1>6, <2>1, <2>3, <3>2
  <2>8. CASE a[4] = FQDN /\ a[5] \in 0..255 /\ a[5] = At(5) /\ n = 7 + a[5]
             /\ Says(a, 5, a[5], n, par)
    <3>1. PICK len \in 0..255 : len = a[5] /\ len = At(5)
      BY <2>8
    <3>2. n = 7 + len /\ Says(a, 5, len, n, par)
      BY <2>8, <3>1, Zenon
    <3>3. At(4) = FQDN
      BY <2>4, <2>8, <3>2
    <3>4. par.addr = Closed(a, 5, len)
      BY <2>8, <3>2 DEF Says
    <3>5. 5 \in Nat /\ len \in Nat /\ 5 + len <= n
      BY <3>2
    <3>6. CString(Closed(a, 5, len)) = Cut(Bytes(5 + 1, len))
      BY <1>1, <1>3, <3>5, FieldIs
    <3>7. CString(par.addr) = Cut(Bytes(6, At(5)))
      <4>1. 5 + 1 = 6
        OBVIOUS
      <4> QED BY <3>1, <3>4, <3>6, <4>1, Zenon
    <3>8. st = "REQUEST_RESOLV"
      BY <1>6, <2>1, <2>3, <3>3
    <3> QED BY <2>3, <3>3, <3>7, <3>8
  <2> QED BY <2>2, <2>6, <2>7, <2>8
<1> QED BY <1>4, <1>5, <1>6, InvTypes DEF Decoded

(***************************************************************************)
(* For every client and every way its bytes are cut into pieces, what the  *)
(* session decodes is what the messages say as a whole, to the last byte   *)
(* of each and none of the next.                                           *)
(***************************************************************************)
THEOREM DecodesExactly == Spec => []Decoded
BY ParsersKnow, InvDecodes, PTL

=============================================================================
