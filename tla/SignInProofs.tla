---------------------------- MODULE SignInProofs ----------------------------
(***************************************************************************)
(* Theorems about SignIn, for any inboxes, limits and window.              *)
(***************************************************************************)
EXTENDS SignIn, Sums

-----------------------------------------------------------------------------
LEMMA Sizes == Window \in Nat /\ Window > 0 /\ PerEmail \in Nat /\ PerEmail > 0
BY SignInAssumption

(* The mails of the last n ticks *)

Sent(m, n) == SumFunction([i \in 0..n - 1 |-> m[i]])

LEMMA SentNone == ASSUME NEW m PROVE Sent(m, 0) = 0
<1>. DEFINE f == [i \in 0..0 - 1 |-> m[i]]
<1>1. DOMAIN f = {}
  OBVIOUS
<1>. HIDE DEF f
<1>2. SumFunction(f) = 0
  BY <1>1, SumEmpty
<1>. QED
  BY <1>2 DEF Sent, f

LEMMA SentType ==
  ASSUME NEW m, NEW n \in Nat, \A i \in 0..n - 1 : m[i] \in Nat
  PROVE  Sent(m, n) \in Nat
<1>. DEFINE f == [i \in 0..n - 1 |-> m[i]]
<1>1. IsFiniteSet(DOMAIN f) /\ \A i \in DOMAIN f : f[i] \in Nat
  BY FS_Interval
<1>. HIDE DEF f
<1>2. SumFunction(f) \in Nat
  BY <1>1, SumNat
<1>. QED
  BY <1>2 DEF Sent, f

LEMMA SentMore ==
  ASSUME NEW m, NEW n \in Nat, \A i \in 0..n : m[i] \in Nat
  PROVE  Sent(m, n + 1) = m[n] + Sent(m, n)
<1>. DEFINE f == [i \in 0..(n + 1) - 1 |-> m[i]]
            g == [i \in 0..n - 1 |-> m[i]]
<1>1. IsFiniteSet(DOMAIN f) /\ DOMAIN f = 0..n
  BY FS_Interval
<1>2. n \in DOMAIN f /\ f[n] = m[n] /\ \A i \in DOMAIN f : f[i] \in Int
  OBVIOUS
<1>3. Without(f, n) = g
  <2>1. (0..n) \ {n} = 0..n - 1
    OBVIOUS
  <2>2. Without(f, n) = [i \in 0..n - 1 |-> f[i]]
    BY <1>1, <2>1 DEF Without
  <2>. QED
    BY <2>2
<1>. HIDE DEF f, g
<1>4. SumFunction(f) = f[n] + SumFunction(Without(f, n))
  BY <1>1, <1>2, SumWithout
<1>5. SumFunction(f) = m[n] + SumFunction(g)
  BY <1>2, <1>3, <1>4
<1>. QED
  BY <1>5 DEF Sent, f, g

(* A tick later, the mails of n ticks are those of n + 1. *)
LEMMA SentShift ==
  ASSUME NEW m \in [0..Window - 1 -> Nat], NEW s \in [0..Window - 1 -> Nat],
         s[0] = 0, \A i \in 1..Window - 1 : s[i] = m[i - 1]
  PROVE  \A n \in 0..Window - 1 : Sent(s, n + 1) = Sent(m, n)
<1>0. PICK k \in Nat : k = Window - 1
  BY Sizes
<1>. DEFINE B == {n \in 0..k : Sent(s, n + 1) # Sent(m, n)}
<1>. SUFFICES ASSUME B # {}
              PROVE  FALSE
  BY <1>0
<1>1. PICK n \in B : \A j \in B : n =< j
  <2>1. B \in SUBSET Nat
    OBVIOUS
  <2>. HIDE DEF B
  <2>. QED
    BY <2>1, FirstFailure
<1>2. n \in 0..k /\ n \in Nat
  OBVIOUS
<1>3. \A i \in 0..k : s[i] \in Nat /\ m[i] \in Nat
  BY <1>0
<1>4. Sent(s, n + 1) = s[n] + Sent(s, n)
  <2>1. \A i \in 0..n : s[i] \in Nat
    BY <1>2, <1>3
  <2>. HIDE DEF B
  <2>. QED
    BY <1>2, <2>1, SentMore
<1>5. CASE n = 0
  BY <1>4, <1>5, SentNone
<1>6. CASE n > 0
  <2>1. n - 1 \in 0..k /\ n - 1 \notin B
    BY <1>1, <1>2, <1>6
  <2>2. Sent(s, (n - 1) + 1) = Sent(m, n - 1)
    BY <2>1
  <2>3. Sent(m, (n - 1) + 1) = m[n - 1] + Sent(m, n - 1)
    <3>1. n - 1 \in Nat /\ \A i \in 0..n - 1 : m[i] \in Nat
      BY <1>2, <1>3, <1>6
    <3>. HIDE DEF B
    <3>. QED
      BY <3>1, SentMore
  <2>4. (n - 1) + 1 = n /\ s[n] = m[n - 1]
    BY <1>0, <1>2, <1>6
  <2>. QED
    BY <1>4, <2>2, <2>3, <2>4
<1>. QED
  BY <1>2, <1>5, <1>6

(* One mail more, now. *)
LEMMA SentOne ==
  ASSUME NEW n \in Nat \ {0}, NEW m, NEW s, \A i \in 0..n - 1 : m[i] \in Nat,
         s[0] = m[0] + 1, \A i \in 1..n - 1 : s[i] = m[i]
  PROVE  Sent(s, n) = Sent(m, n) + 1
<1>. DEFINE f == [i \in 0..n - 1 |-> m[i]]
            g == [i \in 0..n - 1 |-> s[i]]
<1>1. IsFiniteSet(0..n - 1) /\ DOMAIN f = 0..n - 1 /\ DOMAIN g = 0..n - 1 /\ 0 \in 0..n - 1
  BY FS_Interval
<1>2. \A i \in 0..n - 1 : i = 0 \/ i \in 1..n - 1
  OBVIOUS
<1>3. /\ \A i \in 0..n - 1 : f[i] \in Nat /\ g[i] \in Nat
      /\ g[0] = f[0] + 1 /\ \A i \in (0..n - 1) \ {0} : g[i] = f[i]
  BY <1>2
<1>4. Without(f, 0) = Without(g, 0)
  BY <1>1, <1>3 DEF Without
<1>. HIDE DEF f, g
<1>5. SumFunction(f) = f[0] + SumFunction(Without(f, 0))
  <2>1. IsFiniteSet(DOMAIN f) /\ 0 \in DOMAIN f /\ \A i \in DOMAIN f : f[i] \in Int
    BY <1>1, <1>3
  <2>. QED
    BY <2>1, SumWithout
<1>6. SumFunction(g) = g[0] + SumFunction(Without(g, 0))
  <2>1. IsFiniteSet(DOMAIN g) /\ 0 \in DOMAIN g /\ \A i \in DOMAIN g : g[i] \in Int
    BY <1>1, <1>3
  <2>. QED
    BY <2>1, SumWithout
<1>7. SumFunction(f) \in Nat
  BY <1>1, <1>3, SumNat
<1>8. SumFunction(Without(f, 0)) \in Int
  <2>. DEFINE h == Without(f, 0)
  <2>1. DOMAIN h = (0..n - 1) \ {0} /\ \A i \in DOMAIN h : h[i] \in Int
    BY <1>1, <1>3 DEF Without
  <2>2. IsFiniteSet(DOMAIN h)
    BY <1>1, <2>1, FS_Subset
  <2>. HIDE DEF h
  <2>. QED
    BY <2>1, <2>2, SumType DEF h
<1>9. SumFunction(g) = SumFunction(f) + 1
  BY <1>1, <1>3, <1>4, <1>5, <1>6, <1>8
<1>. QED
  BY <1>9 DEF Sent, f, g


LEMMA SentIn ==
  ASSUME NEW m \in [0..Window - 1 -> Nat]
  PROVE  /\ \A n \in 0..Window : Sent(m, n) \in Nat
         /\ \A n \in 0..Window - 1 : Sent(m, n + 1) = m[n] + Sent(m, n) /\ m[n] \in Nat
<1>1. Window \in Nat /\ Window > 0
  BY Sizes
<1>2. ASSUME NEW n \in 0..Window
      PROVE  Sent(m, n) \in Nat
  <2>1. n \in Nat /\ \A i \in 0..n - 1 : m[i] \in Nat
    BY <1>1
  <2>. QED
    BY <2>1, SentType
<1>3. ASSUME NEW n \in 0..Window - 1
      PROVE  Sent(m, n + 1) = m[n] + Sent(m, n) /\ m[n] \in Nat
  <2>1. n \in Nat /\ \A i \in 0..n : m[i] \in Nat
    BY <1>1
  <2>. QED
    BY <2>1, SentMore
<1>. QED
  BY <1>2, <1>3

-----------------------------------------------------------------------------
(* The life of a counter *)

(* The watched inbox's counter has been counting for b ticks, b = Window   *)
(* standing for any longer time: its mails, with the p it has admitted and *)
(* that are yet to go out, are within its count and the limit; a first     *)
(* request is older than the last b ticks; and what an earlier counter has *)
(* admitted within the window is below the limit, since its first request  *)
(* is out of it.                                                           *)
Life(m, p, c, b) ==
  /\ b > 0      => Sent(m, b) + p < c /\ Sent(m, b) + p < PerEmail
  /\ b < Window => /\ Sent(m, b + 1) + p =< c /\ Sent(m, b + 1) + p =< PerEmail
                   /\ Sent(m, Window) - Sent(m, b + 1) < PerEmail

LEMMA LifeIs ==
  ASSUME NEW m, NEW p, NEW c, NEW b,
         b > 0 => Sent(m, b) + p < c /\ Sent(m, b) + p < PerEmail,
         b < Window => /\ Sent(m, b + 1) + p =< c /\ Sent(m, b + 1) + p =< PerEmail
                       /\ Sent(m, Window) - Sent(m, b + 1) < PerEmail
  PROVE  Life(m, p, c, b)
BY Zenon DEF Life

(* It lives for a window at least, and for longer if its expiry was lost. *)
Spread(m, p, c, t) ==
  IF c = 0 THEN t = 0 /\ p = 0 /\ m[0] = 0 /\ Sent(m, Window) < PerEmail
  ELSE /\ t = Forever \/ t \in 1..Window
       /\ \E b \in 0..Window : (t # Forever => b >= Window - t) /\ Life(m, p, c, b)

LEMMA SpreadBounds ==
  ASSUME NEW m \in [0..Window - 1 -> Nat], NEW p \in Nat, NEW c \in Nat, NEW t, Spread(m, p, c, t)
  PROVE  Sent(m, Window) < 2 * PerEmail
<1>0. Window \in Nat /\ Window > 0 /\ PerEmail \in Nat /\ PerEmail > 0
  BY Sizes
<1>1. /\ \A n \in 0..Window : Sent(m, n) \in Nat
  BY SentIn
<1>2. Sent(m, Window) \in Nat
  BY <1>0, <1>1
<1>3. CASE c = 0
  BY <1>0, <1>1, <1>2, <1>3 DEF Spread
<1>4. CASE c # 0
  <2>1. PICK b \in 0..Window : Life(m, p, c, b)
    BY <1>4 DEF Spread
  <2>2. CASE b = Window
    BY <1>0, <1>1, <1>2, <2>1, <2>2 DEF Life
  <2>3. CASE b < Window
    <3>1. b + 1 \in 0..Window
      BY <1>0, <1>1, <2>3
    <3>2. Sent(m, b + 1) \in Nat
      BY <1>0, <1>1, <3>1
    <3>. QED
      BY <1>0, <1>1, <1>2, <2>1, <2>3, <3>2 DEF Life
  <2>. QED
    BY <1>0, <1>1, <2>2, <2>3
<1>. QED
  BY <1>3, <1>4

(* An admitted request that sends no mail. *)
LEMMA SpreadLess ==
  ASSUME NEW m \in [0..Window - 1 -> Nat], NEW p \in Nat, NEW c \in Nat, NEW t, Spread(m, p, c, t),
         NEW q \in Nat, q =< p
  PROVE  Spread(m, q, c, t)
<1>0. Window \in Nat /\ Window > 0 /\ PerEmail \in Nat /\ PerEmail > 0
  BY Sizes
<1>1. /\ \A n \in 0..Window : Sent(m, n) \in Nat
  BY SentIn
<1>2. CASE c = 0
  BY <1>2 DEF Spread
<1>3. CASE c # 0
  <2>1. PICK b \in 0..Window : (t # Forever => b >= Window - t) /\ Life(m, p, c, b)
    BY <1>3 DEF Spread
  <2>2. Sent(m, b) \in Nat /\ (b < Window => b + 1 \in 0..Window /\ Sent(m, b + 1) \in Nat)
    BY <1>0, <1>1
  <2>3. b > 0 => Sent(m, b) + q < c /\ Sent(m, b) + q < PerEmail
    BY <1>0, <2>1, <2>2 DEF Life
  <2>4. b < Window => /\ Sent(m, b + 1) + q =< c /\ Sent(m, b + 1) + q =< PerEmail
                      /\ Sent(m, Window) - Sent(m, b + 1) < PerEmail
    BY <1>0, <2>1, <2>2 DEF Life
  <2>5. Life(m, q, c, b)
    BY <2>3, <2>4, LifeIs
  <2>. QED
    BY <1>3, <2>1, <2>5 DEF Spread
<1>. QED
  BY <1>2, <1>3

(* A request is counted, and admitted or not. *)
LEMMA SpreadCounts ==
  ASSUME NEW m \in [0..Window - 1 -> Nat], NEW p \in Nat, NEW c \in Nat, NEW t, Spread(m, p, c, t),
         NEW d, d = (IF c =< PerEmail THEN c ELSE PerEmail) + 1,
         NEW u, u = IF d = 1 \/ t = Forever THEN Window ELSE t,
         NEW q \in Nat, q = p \/ (q = p + 1 /\ d =< PerEmail)
  PROVE  Spread(m, q, d, u)
<1>0. Window \in Nat /\ Window > 0 /\ PerEmail \in Nat /\ PerEmail > 0
  BY Sizes
<1>1. /\ \A n \in 0..Window : Sent(m, n) \in Nat
      /\ \A n \in 0..Window - 1 : Sent(m, n + 1) = m[n] + Sent(m, n) /\ m[n] \in Nat
  BY SentIn
<1>2. d \in Nat /\ d # 0 /\ Window # Forever /\ Window \in 1..Window
  BY <1>0, <1>1 DEF Forever
<1>3. CASE c = 0
  <2>1. d = 1 /\ u = Window /\ q =< 1
    BY <1>0, <1>1, <1>3 DEF Spread
  <2>2. 0 \in 0..Window /\ 0 < Window /\ Sent(m, 0 + 1) = 0
    <3>1. 0 \in 0..Window - 1
      BY <1>0, <1>1
    <3>2. Sent(m, 0 + 1) = m[0] + Sent(m, 0) /\ m[0] = 0
      BY <1>0, <1>1, <1>3, <3>1 DEF Spread
    <3>. QED
      BY <1>0, <3>2, SentNone
  <2>3. Sent(m, Window) < PerEmail /\ Sent(m, Window) \in Nat
    BY <1>0, <1>1, <1>3 DEF Spread
  <2>4. Life(m, q, d, 0)
    BY <1>0, <1>1, <2>1, <2>2, <2>3 DEF Life
  <2>. QED
    BY <1>2, <2>1, <2>2, <2>4 DEF Spread
<1>4. CASE c # 0
  <2>1. PICK b \in 0..Window : (t # Forever => b >= Window - t) /\ Life(m, p, c, b)
    BY <1>4 DEF Spread
  <2>2. Sent(m, b) \in Nat /\ (b < Window => b + 1 \in 0..Window /\ Sent(m, b + 1) \in Nat)
    BY <1>0, <1>1
  <2>3. d # 1 /\ (t = Forever \/ t \in 1..Window)
    BY <1>0, <1>1, <1>4 DEF Spread
  <2>4. Life(m, q, d, b)
    <3>1. \/ q = p /\ (d = c + 1 \/ d = PerEmail + 1)
          \/ q = p + 1 /\ d = c + 1 /\ d =< PerEmail
      BY <1>0, <1>1
    <3>2. ASSUME b > 0
          PROVE  Sent(m, b) + q < d /\ Sent(m, b) + q < PerEmail
      <4>1. Sent(m, b) + p < c /\ Sent(m, b) + p < PerEmail
        BY <2>1, <3>2 DEF Life
      <4>. QED
        BY <1>0, <1>2, <2>2, <3>1, <4>1
    <3>3. ASSUME b < Window
          PROVE  /\ Sent(m, b + 1) + q =< d /\ Sent(m, b + 1) + q =< PerEmail
                 /\ Sent(m, Window) - Sent(m, b + 1) < PerEmail
      <4>1. /\ Sent(m, b + 1) + p =< c /\ Sent(m, b + 1) + p =< PerEmail
            /\ Sent(m, Window) - Sent(m, b + 1) < PerEmail
        BY <2>1, <3>3 DEF Life
      <4>. QED
        BY <1>0, <1>2, <2>2, <3>1, <3>3, <4>1
    <3>. QED
      BY <3>2, <3>3, LifeIs
  <2>5. u \in 1..Window /\ u # Forever /\ b >= Window - u
    BY <1>0, <1>1, <1>2, <2>1, <2>3 DEF Forever
  <2>. QED
    BY <1>2, <2>4, <2>5 DEF Spread
<1>. QED
  BY <1>3, <1>4

(* An admitted request sends its mail. *)
LEMMA SpreadMails ==
  ASSUME NEW m \in [0..Window - 1 -> Nat], NEW p \in Nat, NEW c \in Nat, NEW t, Spread(m, p, c, t),
         p > 0, NEW s \in [0..Window - 1 -> Nat],
         s[0] = m[0] + 1, \A i \in 1..Window - 1 : s[i] = m[i], NEW q \in Nat, q =< p - 1
  PROVE  Spread(s, q, c, t)
<1>0. Window \in Nat /\ Window > 0 /\ PerEmail \in Nat /\ PerEmail > 0
  BY Sizes
<1>1. /\ \A n \in 0..Window : Sent(m, n) \in Nat
  BY SentIn
<1>2. ASSUME NEW n \in 1..Window
      PROVE  Sent(s, n) = Sent(m, n) + 1
  <2>1. n \in Nat \ {0} /\ (\A i \in 0..n - 1 : m[i] \in Nat) /\ \A i \in 1..n - 1 : s[i] = m[i]
    BY <1>0, <1>1
  <2>. QED
    BY <2>1, SentOne
<1>3. c # 0
  BY DEF Spread
<1>4. PICK b \in 0..Window : (t # Forever => b >= Window - t) /\ Life(m, p, c, b)
  BY <1>3 DEF Spread
<1>5. /\ Sent(m, b) \in Nat /\ (b > 0 => Sent(s, b) = Sent(m, b) + 1)
      /\ Sent(m, Window) \in Nat /\ Sent(s, Window) = Sent(m, Window) + 1
  BY <1>0, <1>1, <1>2
<1>6. b < Window => Sent(m, b + 1) \in Nat /\ Sent(s, b + 1) = Sent(m, b + 1) + 1
  <2>1. b < Window => b + 1 \in 0..Window /\ b + 1 \in 1..Window
    BY <1>0, <1>1
  <2>. QED
    BY <1>0, <1>1, <1>2, <2>1
<1>7. ASSUME b > 0
      PROVE  Sent(s, b) + q < c /\ Sent(s, b) + q < PerEmail
  <2>1. Sent(m, b) + p < c /\ Sent(m, b) + p < PerEmail
    BY <1>4, <1>7 DEF Life
  <2>2. Sent(m, b) \in Nat /\ Sent(s, b) = Sent(m, b) + 1
    BY <1>5, <1>7
  <2>3. \A x, y, z \in Int : z =< y - 1 => (x + 1) + z =< x + y
    OBVIOUS
  <2>4. Sent(s, b) + q =< Sent(m, b) + p
    BY <2>2, <2>3
  <2>. QED
    BY <1>0, <2>1, <2>2, <2>4
<1>8. ASSUME b < Window
      PROVE  /\ Sent(s, b + 1) + q =< c /\ Sent(s, b + 1) + q =< PerEmail
             /\ Sent(s, Window) - Sent(s, b + 1) < PerEmail
  <2>1. /\ Sent(m, b + 1) + p =< c /\ Sent(m, b + 1) + p =< PerEmail
        /\ Sent(m, Window) - Sent(m, b + 1) < PerEmail
    BY <1>4, <1>8 DEF Life
  <2>2. Sent(m, b + 1) \in Nat /\ Sent(s, b + 1) = Sent(m, b + 1) + 1
    BY <1>6, <1>8
  <2>3. Sent(m, Window) \in Nat /\ Sent(s, Window) = Sent(m, Window) + 1
    BY <1>5
  <2>4. Sent(s, b + 1) + q =< c /\ Sent(s, b + 1) + q =< PerEmail
    <3>1. \A x, y, z \in Int : z =< y - 1 => (x + 1) + z =< x + y
      OBVIOUS
    <3>2. Sent(s, b + 1) + q =< Sent(m, b + 1) + p
      BY <2>2, <3>1
    <3>. QED
      BY <1>0, <2>1, <2>2, <3>2
  <2>5. \A x, y \in Int : (y + 1) - (x + 1) = y - x
    OBVIOUS
  <2>6. Sent(s, Window) - Sent(s, b + 1) = Sent(m, Window) - Sent(m, b + 1)
    BY <2>2, <2>3, <2>5
  <2>. QED
    BY <2>1, <2>4, <2>6
<1>9. Life(s, q, c, b)
  BY <1>7, <1>8, LifeIs
<1>. QED
  BY <1>3, <1>4, <1>9 DEF Spread

(* Time passes, with no request under way. *)
LEMMA SpreadTicks ==
  ASSUME NEW m \in [0..Window - 1 -> Nat], NEW c \in Nat, NEW t, Spread(m, 0, c, t),
         NEW s \in [0..Window - 1 -> Nat], s[0] = 0, \A i \in 1..Window - 1 : s[i] = m[i - 1],
         NEW d, d = IF t = 1 THEN 0 ELSE c,
         NEW u, u = IF t = 1 THEN 0 ELSE IF t > 1 THEN t - 1 ELSE t
  PROVE  Spread(s, 0, d, u)
<1>0. Window \in Nat /\ Window > 0 /\ PerEmail \in Nat /\ PerEmail > 0
  BY Sizes
<1>1. /\ \A n \in 0..Window : Sent(m, n) \in Nat
      /\ \A n \in 0..Window - 1 : Sent(m, n + 1) = m[n] + Sent(m, n) /\ m[n] \in Nat
  BY SentIn
<1>2. \A n \in 0..Window - 1 : Sent(s, n + 1) = Sent(m, n)
  BY SentShift
<1>3. Sent(s, Window) = Sent(m, Window - 1) /\ Sent(m, Window - 1) =< Sent(m, Window)
      /\ Sent(m, Window - 1) \in Nat /\ Sent(m, Window) \in Nat
  <2>1. Window - 1 \in 0..Window - 1 /\ Window - 1 \in 0..Window /\ (Window - 1) + 1 = Window
        /\ Window \in 0..Window
    BY <1>0, <1>1
  <2>2. Sent(s, (Window - 1) + 1) = Sent(m, Window - 1)
        /\ Sent(m, (Window - 1) + 1) = m[Window - 1] + Sent(m, Window - 1) /\ m[Window - 1] \in Nat
    BY <1>0, <1>1, <1>2, <2>1
  <2>. QED
    BY <1>0, <1>1, <2>1, <2>2
<1>4. CASE c = 0
  BY <1>0, <1>1, <1>3, <1>4 DEF Spread, Forever
<1>5. CASE c # 0
  <2>1. PICK b \in 0..Window : (t # Forever => b >= Window - t) /\ Life(m, 0, c, b)
    BY <1>5 DEF Spread
  <2>2. t = Forever \/ t \in 1..Window
    BY <1>5 DEF Spread
  <2>3. Sent(m, b) \in Nat /\ (b = 0 => Sent(m, b) = 0)
    BY <1>0, <1>1, SentNone
  <2>4. b > 0 => Sent(m, b) < c /\ Sent(m, b) < PerEmail
    BY <1>0, <2>1, <2>3 DEF Life
  <2>5. Sent(m, b) < c /\ Sent(m, b) < PerEmail
    BY <1>0, <1>5, <2>3, <2>4
  <2>6. CASE t = 1
    <3>1. b = Window - 1 \/ b = Window
      BY <1>0, <1>1, <2>1, <2>6 DEF Forever
    <3>2. Sent(m, Window - 1) < PerEmail
      BY <1>0, <1>3, <2>5, <3>1
    <3>3. d = 0 /\ u = 0
      BY <2>6
    <3>. QED
      BY <1>3, <3>2, <3>3 DEF Spread
  <2>7. CASE t # 1
    <3>. DEFINE e == IF b < Window THEN b + 1 ELSE Window
    <3>1. d = c /\ (u = Forever \/ (u \in 1..Window /\ u = t - 1 /\ t \in 1..Window /\ t # Forever))
      <4>1. CASE t = Forever
        BY <4>1 DEF Forever
      <4>2. CASE t \in 1..Window
        BY <1>0, <2>7, <4>2 DEF Forever
      <4>. QED
        BY <2>2, <4>1, <4>2
    <3>2. e \in 0..Window /\ e > 0 /\ (u # Forever => e >= Window - u)
      <4>1. e \in 0..Window /\ e > 0
        BY <1>0
      <4>2. CASE u = t - 1 /\ t \in 1..Window /\ t # Forever
        <5>1. b >= Window - t
          BY <2>1, <4>2
        <5>. QED
          BY <1>0, <4>1, <4>2, <5>1
      <4>. QED
        BY <3>1, <4>1, <4>2
    <3>3. Sent(s, e) < c /\ Sent(s, e) < PerEmail /\ Sent(s, e) \in Nat
      <4>1. CASE b < Window
        <5>1. b \in 0..Window - 1 /\ e = b + 1
          BY <1>0, <1>1, <4>1
        <5>. QED
          BY <1>2, <2>3, <2>5, <5>1
      <4>2. CASE b = Window
        BY <1>0, <1>1, <1>3, <2>3, <2>5, <4>2
      <4>. QED
        BY <1>0, <1>1, <4>1, <4>2
    <3>4. ASSUME e < Window
          PROVE  /\ Sent(s, e + 1) =< c /\ Sent(s, e + 1) =< PerEmail
                 /\ Sent(s, Window) - Sent(s, e + 1) < PerEmail
                 /\ Sent(s, e + 1) \in Nat
      <4>1. b < Window /\ e = b + 1 /\ b + 1 \in 0..Window - 1 /\ b + 1 \in 0..Window
        BY <1>0, <1>1, <3>4
      <4>2. Sent(s, e + 1) = Sent(m, b + 1) /\ Sent(m, b + 1) \in Nat
        BY <1>0, <1>1, <1>2, <4>1
      <4>3. Sent(m, b + 1) + 0 =< c /\ Sent(m, b + 1) + 0 =< PerEmail
            /\ Sent(m, Window) - Sent(m, b + 1) < PerEmail
        BY <2>1, <4>1 DEF Life
      <4>. QED
        BY <1>0, <1>3, <4>2, <4>3
    <3>. HIDE DEF e
    <3>5. Life(s, 0, d, e)
      BY <1>0, <3>1, <3>3, <3>4 DEF Life
    <3>. QED
      BY <1>5, <3>1, <3>2, <3>5 DEF Spread
  <2>. QED
    BY <2>6, <2>7
<1>. QED
  BY <1>4, <1>5


-----------------------------------------------------------------------------
(* The invariant *)

Inbox == <<Watched, "signin">>

(* Admitted by the inbox's counter, and not refused by the other one. *)
Pends(r) == r.email = Watched /\ Inbox \notin r.left /\ r.denied = FALSE

Pending(r) == IF Pends(r) THEN 1 ELSE 0

Underway == Pending(ask["phone"]) + Pending(ask["other"])

IsAsk(r) ==
  /\ r = [email |-> r.email, channel |-> r.channel, left |-> r.left, denied |-> r.denied]
  /\ r.denied \in BOOLEAN

AsksOK == ask = [a \in Askers |-> ask[a]] /\ \A a \in Askers : IsAsk(ask[a])

CounterOK ==
  /\ budget = [s \in Subjects |-> budget[s]]
  /\ budget[Inbox] = [count |-> budget[Inbox].count, ttl |-> budget[Inbox].ttl]
  /\ budget[Inbox].count \in Nat

MailsOK ==
  /\ mails \in [0..Window - 1 -> Nat]
  /\ Spread(mails, Underway, budget[Inbox].count, budget[Inbox].ttl)

(* While the screen waits for an answer, it names what was asked for. *)
ScreenOK ==
  /\ phone = [phase |-> phone.phase, email |-> phone.email, mailed |-> phone.mailed]
  /\ ScreenNamesInbox
  /\ ask["phone"] # Idle => /\ phone.phase = "sending"
                            /\ ask["phone"].email = phone.email
                            /\ ask["phone"].channel \in Channels

IndInv == AsksOK /\ CounterOK /\ MailsOK /\ ScreenOK

-----------------------------------------------------------------------------
(* Requests *)

LEMMA InboxIs == Inbox \in Subjects /\ Inbox # Ip /\ Limit(Inbox) = PerEmail
<1>1. Inbox \in Emails \X {"signin"} /\ Inbox \in Emails \X (Channels \cup {"signin"})
  BY SignInAssumption DEF Inbox
<1>2. Inbox # Ip
  BY <1>1, SignInAssumption
<1>. QED
  BY <1>1, <1>2 DEF Subjects, Limit

LEMMA UnderwayIs ==
  /\ Underway \in Nat
  /\ \A a \in Askers : Pending(ask[a]) \in {0, 1} /\ Pending(ask[a]) =< Underway
BY DEF Underway, Pending, Askers

LEMMA AskSet ==
  ASSUME AsksOK, NEW a \in Askers, NEW r, IsAsk(r), ask' = [ask EXCEPT ![a] = r]
  PROVE  /\ AsksOK' /\ ask'[a] = r /\ \A x \in Askers \ {a} : ask'[x] = ask[x]
         /\ Underway' = Underway - Pending(ask[a]) + Pending(r)
<1>1. /\ ask' = [x \in Askers |-> ask'[x]] /\ ask'[a] = r
      /\ \A x \in Askers \ {a} : ask'[x] = ask[x]
  BY DEF AsksOK
<1>2. AsksOK'
  BY <1>1 DEF AsksOK
<1>3. /\ Pending(ask["phone"]) \in Int /\ Pending(ask["other"]) \in Int /\ Pending(r) \in Int
  BY DEF Pending
<1>4. Underway' = Underway - Pending(ask[a]) + Pending(r)
  <2>1. Underway' = Pending(ask'["phone"]) + Pending(ask'["other"])
    BY DEF Underway, Pending, Pends
  <2>2. CASE a = "phone"
    <3>1. ask'["phone"] = r /\ ask'["other"] = ask["other"]
      BY <1>1, <2>2 DEF Askers
    <3>. QED
      BY <1>3, <2>1, <2>2, <3>1 DEF Underway
  <2>3. CASE a = "other"
    <3>1. ask'["other"] = r /\ ask'["phone"] = ask["phone"]
      BY <1>1, <2>3 DEF Askers
    <3>. QED
      BY <1>3, <2>1, <2>3, <3>1 DEF Underway
  <2>. QED
    BY <2>2, <2>3 DEF Askers
<1>. QED
  BY <1>1, <1>2, <1>4

LEMMA AsksAre ==
  /\ IsAsk(Idle) /\ Pending(Idle) = 0
  /\ \A email, channel : /\ IsAsk(Request(email, channel)) /\ Pending(Request(email, channel)) = 0
                         /\ Request(email, channel).email = email
                         /\ Request(email, channel).channel = channel
<1>1. IsAsk(Idle) /\ Pending(Idle) = 0
  BY SignInAssumption DEF IsAsk, Idle, Pending, Pends
<1>. QED
  BY <1>1 DEF IsAsk, Request, Keys, Pending, Pends, Inbox

(* A request begins, or ends without a mail. *)
LEMMA AskKeeps ==
  ASSUME IndInv, NEW a \in Askers, NEW r, IsAsk(r), Pending(r) = 0,
         ask' = [ask EXCEPT ![a] = r], UNCHANGED <<budget, mails>>
  PROVE  AsksOK' /\ CounterOK' /\ MailsOK'
<1>1. AsksOK' /\ Underway' = Underway - Pending(ask[a]) + Pending(r)
  BY AskSet DEF IndInv
<1>2. Underway \in Nat /\ Underway' \in Nat /\ Underway' =< Underway
  BY <1>1, UnderwayIs
<1>3. CounterOK'
  BY DEF IndInv, CounterOK
<1>4. /\ mails \in [0..Window - 1 -> Nat] /\ budget[Inbox].count \in Nat
      /\ Spread(mails, Underway, budget[Inbox].count, budget[Inbox].ttl)
  BY DEF IndInv, MailsOK, CounterOK
<1>5. Spread(mails, Underway', budget[Inbox].count, budget[Inbox].ttl)
  BY <1>2, <1>4, SpreadLess
<1>. QED
  BY <1>1, <1>3, <1>4, <1>5 DEF MailsOK

LEMMA ConsumedIs ==
  ASSUME CounterOK, NEW s \in Subjects, budget' = Consumed(s)
  PROVE  /\ CounterOK'
         /\ s # Inbox => budget'[Inbox] = budget[Inbox]
         /\ s = Inbox =>
              LET c == budget[Inbox].count
                  d == (IF c =< PerEmail THEN c ELSE PerEmail) + 1
              IN  /\ Consumed(s)[s].count = d /\ budget'[Inbox].count = d
                  /\ budget'[Inbox].ttl = IF d = 1 \/ budget[Inbox].ttl = Forever THEN Window
                                          ELSE budget[Inbox].ttl
<1>. DEFINE c == Min({budget[s].count, Limit(s)}) + 1
            u == IF c = 1 \/ budget[s].ttl = Forever THEN Window ELSE budget[s].ttl
            v == [count |-> c, ttl |-> u]
<1>1. Consumed(s) = [budget EXCEPT ![s] = v]
  BY DEF Consumed
<1>2. v.count = c /\ v.ttl = u /\ v = [count |-> v.count, ttl |-> v.ttl]
  OBVIOUS
<1>. HIDE DEF v
<1>3. /\ budget' = [x \in Subjects |-> budget'[x]] /\ budget'[s] = v /\ Consumed(s)[s] = v
      /\ \A x \in Subjects \ {s} : budget'[x] = budget[x]
  BY <1>1 DEF CounterOK
<1>. HIDE DEF u, c
<1>4. CASE s # Inbox
  <2>1. budget'[Inbox] = budget[Inbox]
    BY <1>3, <1>4, InboxIs
  <2>. QED
    BY <1>3, <1>4, <2>1 DEF CounterOK
<1>5. CASE s = Inbox
  <2>1. \A x, y \in Nat : Min({x, y}) = IF x =< y THEN x ELSE y
    <3>. TAKE x, y \in Nat
    <3>1. \E w \in {x, y} : \A z \in {x, y} : w =< z
      OBVIOUS
    <3>2. Min({x, y}) \in {x, y} /\ \A z \in {x, y} : Min({x, y}) =< z
      BY <3>1 DEF Min
    <3>. QED
      BY <3>2
  <2>2. budget[Inbox].count \in Nat /\ PerEmail \in Nat /\ Limit(s) = PerEmail
    BY <1>5, InboxIs, Sizes DEF CounterOK
  <2>3. c = (IF budget[Inbox].count =< PerEmail THEN budget[Inbox].count ELSE PerEmail) + 1
    BY <1>5, <2>1, <2>2 DEF c
  <2>4. u = IF c = 1 \/ budget[Inbox].ttl = Forever THEN Window ELSE budget[Inbox].ttl
    BY <1>5 DEF u
  <2>5. budget'[Inbox] = v /\ c \in Nat
    BY <1>3, <1>5, <2>2, <2>3
  <2>6. CounterOK'
    BY <1>2, <1>3, <2>5 DEF CounterOK
  <2>. QED
    BY <1>2, <1>3, <1>5, <2>3, <2>4, <2>5, <2>6
<1>. QED
  BY <1>4, <1>5

LEMMA CountKeeps ==
  ASSUME IndInv, NEW a \in Askers, Count(a)
  PROVE  IndInv'
<1>1. PICK s \in ask[a].left :
        /\ budget' = Consumed(s)
        /\ ask' = [ask EXCEPT ![a] =
                     [email |-> @.email, channel |-> @.channel, left |-> @.left \ {s},
                      denied |-> @.denied \/ Consumed(s)[s].count > Limit(s)]]
        /\ UNCHANGED <<mails, phone>>
  BY DEF Count
<1>. DEFINE r == [email |-> ask[a].email, channel |-> ask[a].channel, left |-> ask[a].left \ {s},
                  denied |-> ask[a].denied \/ Consumed(s)[s].count > Limit(s)]
<1>2. ask' = [ask EXCEPT ![a] = r]
  BY <1>1
<1>3. /\ IsAsk(r) /\ r.email = ask[a].email /\ r.channel = ask[a].channel
      /\ r.left = ask[a].left \ {s}
      /\ r.denied = (ask[a].denied \/ Consumed(s)[s].count > Limit(s))
  BY DEF IsAsk
<1>. HIDE DEF r
<1>4. AsksOK /\ CounterOK /\ ask[a] # Idle
  BY <1>1 DEF IndInv, Idle
<1>5. /\ AsksOK' /\ ask'[a] = r /\ \A x \in Askers \ {a} : ask'[x] = ask[x]
      /\ Underway' = Underway - Pending(ask[a]) + Pending(r)
  BY <1>2, <1>3, <1>4, AskSet
<1>6. ScreenOK'
  <2>1. ask'["phone"] # Idle => /\ phone.phase = "sending"
                                /\ ask'["phone"].email = phone.email
                                /\ ask'["phone"].channel \in Channels
    BY <1>3, <1>4, <1>5 DEF IndInv, ScreenOK, Askers
  <2>. QED
    BY <1>1, <2>1 DEF IndInv, ScreenOK, ScreenNamesInbox
<1>. DEFINE c == budget[Inbox].count
            t == budget[Inbox].ttl
<1>7. mails \in [0..Window - 1 -> Nat] /\ c \in Nat /\ Spread(mails, Underway, c, t)
  BY DEF IndInv, MailsOK, CounterOK
<1>8. Underway \in Nat /\ Pending(r) \in {0, 1} /\ Pending(ask[a]) \in {0, 1}
      /\ Pending(ask[a]) =< Underway
  BY UnderwayIs DEF Pending
<1>9. CASE s \notin Subjects
  <2>1. budget' = budget /\ s # Inbox
    BY <1>1, <1>4, <1>9, InboxIs DEF Consumed, CounterOK
  <2>2. Pends(r) => Pends(ask[a])
    BY <1>3, <1>4, <2>1 DEF Pends, AsksOK, IsAsk
  <2>3. Underway' \in Nat /\ Underway' =< Underway
    BY <1>5, <1>8, <2>2 DEF Pending
  <2>4. Spread(mails, Underway', c, t)
    BY <1>7, <1>8, <2>3, SpreadLess
  <2>. QED
    BY <1>1, <1>4, <1>5, <1>6, <1>7, <2>1, <2>4 DEF IndInv, MailsOK, CounterOK
<1>10. CASE s \in Subjects /\ s # Inbox
  <2>1. CounterOK' /\ budget'[Inbox] = budget[Inbox]
    BY <1>1, <1>4, <1>10, ConsumedIs
  <2>2. Pends(r) => Pends(ask[a])
    BY <1>3, <1>4, <1>10 DEF Pends, AsksOK, IsAsk
  <2>3. Underway' \in Nat /\ Underway' =< Underway
    BY <1>5, <1>8, <2>2 DEF Pending
  <2>4. Spread(mails, Underway', c, t)
    BY <1>7, <1>8, <2>3, SpreadLess
  <2>. QED
    BY <1>1, <1>5, <1>6, <1>7, <2>1, <2>4 DEF IndInv, MailsOK
<1>11. CASE s = Inbox
  <2>. DEFINE d == (IF c =< PerEmail THEN c ELSE PerEmail) + 1
              u == IF d = 1 \/ t = Forever THEN Window ELSE t
  <2>1. /\ CounterOK' /\ Consumed(s)[s].count = d
        /\ budget'[Inbox].count = d /\ budget'[Inbox].ttl = u /\ Limit(s) = PerEmail
    BY <1>1, <1>4, <1>11, ConsumedIs, InboxIs
  <2>2. ~ Pends(ask[a])
    BY <1>1, <1>11 DEF Pends
  <2>3. Pends(r) => ~ (d > PerEmail)
    BY <1>3, <2>1 DEF Pends
  <2>4. d \in Nat /\ PerEmail \in Nat
    BY <1>7, Sizes
  <2>. HIDE DEF d, c, t
  <2>5. Underway' \in Nat /\ (Underway' = Underway \/ (Underway' = Underway + 1 /\ d =< PerEmail))
    BY <1>5, <1>8, <2>2, <2>3, <2>4 DEF Pending
  <2>6. Spread(mails, Underway', d, u)
    BY <1>7, <1>8, <2>5, SpreadCounts DEF d
  <2>. QED
    BY <1>1, <1>5, <1>6, <1>7, <2>1, <2>6 DEF IndInv, MailsOK
<1>. QED
  BY <1>9, <1>10, <1>11


(* What an answer does to the screen. *)
LEMMA ShownIs ==
  ASSUME IndInv, NEW a \in Askers, ask[a] # Idle, NEW ok \in BOOLEAN, Shown(a, ok),
         ask' = [ask EXCEPT ![a] = Idle]
  PROVE  ScreenOK'
<1>1. /\ AsksOK' /\ ask'[a] = Idle /\ \A x \in Askers \ {a} : ask'[x] = ask[x]
  BY AskSet, AsksAre DEF IndInv
<1>2. CASE a # "phone"
  <2>1. phone' = phone /\ ask'["phone"] = ask["phone"]
    BY <1>1, <1>2 DEF Shown, Askers
  <2>. QED
    BY <2>1 DEF IndInv, ScreenOK, ScreenNamesInbox
<1>3. CASE a = "phone"
  <2>1. ask'["phone"] = Idle /\ ask["phone"].email = phone.email /\ ask["phone"].channel \in Channels
    BY <1>1, <1>3 DEF IndInv, ScreenOK
  <2>2. CASE ~ ok
    <3>1. phone' = Screen("form", phone.mailed)
      BY <1>3, <2>2 DEF Shown
    <3>. QED
      BY <2>1, <3>1 DEF Screen, ScreenOK, ScreenNamesInbox
  <2>3. CASE ok
    <3>1. phone' = Screen(IF ask["phone"].channel = "code" THEN "code" ELSE "linkSent",
                          <<ask["phone"].channel, ask["phone"].email>>)
      BY <1>3, <2>3 DEF Shown
    <3>2. ask["phone"].channel = "code" \/ ask["phone"].channel = "link"
      BY <2>1 DEF Channels
    <3>. QED
      BY <2>1, <3>1, <3>2 DEF Screen, ScreenOK, ScreenNamesInbox
  <2>. QED
    BY <2>2, <2>3
<1>. QED
  BY <1>2, <1>3

LEMMA RefusedKeeps ==
  ASSUME IndInv, NEW a \in Askers, TooMany(a) \/ MailFails(a)
  PROVE  IndInv'
<1>1. /\ ask[a] # Idle /\ Shown(a, FALSE) /\ ask' = [ask EXCEPT ![a] = Idle]
      /\ UNCHANGED <<budget, mails>>
  BY DEF TooMany, MailFails, Admitted, Counted
<1>2. ScreenOK'
  BY <1>1, ShownIs
<1>3. AsksOK' /\ CounterOK' /\ MailsOK'
  BY <1>1, AsksAre, AskKeeps
<1>. QED
  BY <1>2, <1>3 DEF IndInv

LEMMA MailedKeeps ==
  ASSUME IndInv, NEW a \in Askers, Mailed(a), NEW ok \in BOOLEAN, Shown(a, ok)
  PROVE  IndInv'
<1>1. /\ ask[a] # Idle /\ ask[a].left = {} /\ ~ ask[a].denied
      /\ mails' = IF ask[a].email = Watched THEN [mails EXCEPT ![0] = @ + 1] ELSE mails
      /\ ask' = [ask EXCEPT ![a] = Idle] /\ UNCHANGED budget
  BY DEF Mailed, Admitted, Counted
<1>2. ScreenOK'
  BY <1>1, ShownIs
<1>3. CASE ask[a].email # Watched
  <2>1. UNCHANGED <<budget, mails>>
    BY <1>1, <1>3
  <2>2. AsksOK' /\ CounterOK' /\ MailsOK'
    BY <1>1, <2>1, AsksAre, AskKeeps
  <2>. QED
    BY <1>2, <2>2 DEF IndInv
<1>4. CASE ask[a].email = Watched
  <2>1. Pending(ask[a]) = 1
    <3>1. ask[a].denied = FALSE
      BY <1>1 DEF IndInv, AsksOK, IsAsk
    <3>. QED
      BY <1>1, <1>4, <3>1 DEF Pending, Pends
  <2>2. AsksOK' /\ Underway' = Underway - Pending(ask[a]) + Pending(Idle)
    BY <1>1, AskSet, AsksAre DEF IndInv
  <2>3. Underway \in Nat /\ Underway > 0 /\ Underway' \in Nat /\ Underway' =< Underway - 1
    BY <2>1, <2>2, UnderwayIs, AsksAre
  <2>4. /\ mails \in [0..Window - 1 -> Nat] /\ budget[Inbox].count \in Nat
        /\ Spread(mails, Underway, budget[Inbox].count, budget[Inbox].ttl)
    BY DEF IndInv, MailsOK, CounterOK
  <2>5. /\ mails' \in [0..Window - 1 -> Nat] /\ mails'[0] = mails[0] + 1
        /\ \A i \in 1..Window - 1 : mails'[i] = mails[i]
    <3>1. mails' = [mails EXCEPT ![0] = @ + 1]
      BY <1>1, <1>4
    <3>2. 0 \in 0..Window - 1 /\ \A i \in 1..Window - 1 : i \in 0..Window - 1 /\ i # 0
      BY Sizes
    <3>. QED
      BY <2>4, <3>1, <3>2
  <2>6. Spread(mails', Underway', budget[Inbox].count, budget[Inbox].ttl)
    BY <2>3, <2>4, <2>5, SpreadMails
  <2>7. CounterOK' /\ MailsOK'
    BY <1>1, <2>5, <2>6 DEF IndInv, CounterOK, MailsOK
  <2>. QED
    BY <1>2, <2>2, <2>7 DEF IndInv
<1>. QED
  BY <1>3, <1>4

LEMMA AsksKeeps ==
  ASSUME IndInv,
         SendCode \/ SendLink \/ \E e \in Emails, channel \in Channels : OtherAsks(e, channel)
  PROVE  IndInv'
<1>1. CASE SendCode \/ SendLink
  <2>1. PICK channel \in Channels :
          /\ phone' = Screen("sending", None)
          /\ ask' = [ask EXCEPT !["phone"] = Request(phone.email, channel)]
          /\ UNCHANGED <<budget, mails>>
    BY <1>1 DEF SendCode, SendLink, Channels
  <2>2. PICK r : r = Request(phone.email, channel)
    OBVIOUS
  <2>3. IsAsk(r) /\ Pending(r) = 0 /\ r.email = phone.email /\ r.channel = channel
    BY <2>2, AsksAre
  <2>4. "phone" \in Askers /\ ask' = [ask EXCEPT !["phone"] = r]
    BY <2>1, <2>2 DEF Askers
  <2>5. AsksOK' /\ CounterOK' /\ MailsOK'
    BY <2>1, <2>3, <2>4, AskKeeps
  <2>6. ask'["phone"] = r
    BY <2>3, <2>4, AskSet DEF IndInv
  <2>7. ScreenOK'
    BY <2>1, <2>3, <2>6 DEF Screen, ScreenOK, ScreenNamesInbox
  <2>. QED
    BY <2>5, <2>7 DEF IndInv
<1>2. CASE \E e \in Emails, channel \in Channels : OtherAsks(e, channel)
  <2>1. PICK e \in Emails, channel \in Channels :
          /\ ask' = [ask EXCEPT !["other"] = Request(e, channel)]
          /\ UNCHANGED <<budget, mails, phone>>
    BY <1>2 DEF OtherAsks
  <2>2. PICK r : r = Request(e, channel)
    OBVIOUS
  <2>3. IsAsk(r) /\ Pending(r) = 0
    BY <2>2, AsksAre
  <2>4. "other" \in Askers /\ "phone" \in Askers \ {"other"} /\ ask' = [ask EXCEPT !["other"] = r]
    BY <2>1, <2>2 DEF Askers
  <2>5. AsksOK' /\ CounterOK' /\ MailsOK'
    BY <2>1, <2>3, <2>4, AskKeeps
  <2>6. ask'["phone"] = ask["phone"]
    BY <2>3, <2>4, AskSet DEF IndInv
  <2>7. ScreenOK'
    BY <2>1, <2>6 DEF IndInv, ScreenOK, ScreenNamesInbox
  <2>. QED
    BY <2>5, <2>7 DEF IndInv
<1>. QED
  BY <1>1, <1>2

-----------------------------------------------------------------------------
(* The screen, and time *)

LEMMA ScreenKeeps ==
  ASSUME IndInv, \/ \E e \in Emails : TypeEmail(e)
                 \/ EnterCode \/ Verify \/ FollowLink \/ Restart \/ SignOut
  PROVE  IndInv'
<1>1. /\ UNCHANGED <<budget, ask, mails>> /\ phone.phase # "sending"
      /\ phone = [phase |-> phone.phase, email |-> phone.email, mailed |-> phone.mailed]
      /\ ScreenNamesInbox /\ ask["phone"] = Idle
  BY DEF TypeEmail, EnterCode, Verify, FollowLink, Restart, SignOut, IndInv, ScreenOK
<1>2. AsksOK' /\ CounterOK' /\ MailsOK'
  BY <1>1 DEF IndInv, AsksOK, CounterOK, MailsOK, Underway, Pending, Pends
<1>3. \A x : LET q == [phone EXCEPT !.phase = x]
             IN  q = [phase |-> x, email |-> phone.email, mailed |-> phone.mailed]
  BY <1>1
<1>4. \A x : LET q == [phone EXCEPT !.email = x]
             IN  q = [phase |-> phone.phase, email |-> x, mailed |-> phone.mailed]
  BY <1>1
<1>5. CASE \E e \in Emails : TypeEmail(e)
  <2>1. PICK e : phone.phase = "form"
                 /\ phone' = [phase |-> phone.phase, email |-> e, mailed |-> phone.mailed]
    BY <1>4, <1>5 DEF TypeEmail
  <2>2. ScreenOK'
    BY <1>1, <2>1 DEF ScreenOK, ScreenNamesInbox
  <2>. QED
    BY <1>2, <2>2 DEF IndInv
<1>6. CASE EnterCode \/ Verify \/ FollowLink
  <2>1. PICK x :
          /\ phone' = [phase |-> x, email |-> phone.email, mailed |-> phone.mailed]
          /\ \/ phone.phase = "code" /\ x = "verifying"
             \/ phone.phase = "verifying" /\ x \in {"signedIn", "code"}
             \/ phone.phase # "sending" /\ x \in {"signedIn", "linkFailed"}
    BY <1>3, <1>6 DEF EnterCode, Verify, FollowLink
  <2>2. ScreenOK'
    BY <1>1, <2>1 DEF ScreenOK, ScreenNamesInbox
  <2>. QED
    BY <1>2, <2>2 DEF IndInv
<1>7. CASE Restart \/ SignOut
  <2>1. phone' = Screen("form", None)
    BY <1>7 DEF Restart, SignOut
  <2>2. ScreenOK'
    BY <1>1, <2>1 DEF Screen, ScreenOK, ScreenNamesInbox
  <2>. QED
    BY <1>2, <2>2 DEF IndInv
<1>. QED
  BY <1>5, <1>6, <1>7

LEMMA LoseExpiryKeeps ==
  ASSUME IndInv, NEW s \in Subjects, LoseExpiry(s)
  PROVE  IndInv'
<1>1. /\ budget[s].ttl > 0 /\ budget' = [budget EXCEPT ![s].ttl = Forever]
      /\ UNCHANGED <<ask, mails, phone>>
  BY DEF LoseExpiry
<1>2. AsksOK' /\ ScreenOK' /\ UNCHANGED Underway
  BY <1>1 DEF IndInv, AsksOK, ScreenOK, ScreenNamesInbox, Underway, Pending, Pends
<1>3. /\ CounterOK /\ budget[Inbox].count \in Nat /\ Inbox \in Subjects
      /\ Spread(mails, Underway, budget[Inbox].count, budget[Inbox].ttl)
  BY InboxIs DEF IndInv, MailsOK, CounterOK
<1>4. CASE s # Inbox
  <2>1. CounterOK' /\ budget'[Inbox] = budget[Inbox]
    BY <1>1, <1>3, <1>4 DEF CounterOK
  <2>. QED
    BY <1>1, <1>2, <2>1 DEF IndInv, MailsOK
<1>5. CASE s = Inbox
  <2>1. /\ CounterOK' /\ budget'[Inbox].count = budget[Inbox].count
        /\ budget'[Inbox].ttl = Forever
    BY <1>1, <1>3, <1>5 DEF CounterOK
  <2>2. budget[Inbox].count # 0
    BY <1>1, <1>3, <1>5 DEF Spread
  <2>3. Spread(mails, Underway, budget[Inbox].count, Forever)
    BY <1>3, <2>2 DEF Spread
  <2>. QED
    BY <1>1, <1>2, <2>1, <2>3 DEF IndInv, MailsOK
<1>. QED
  BY <1>4, <1>5

LEMMA TickKeeps ==
  ASSUME IndInv, Tick
  PROVE  IndInv'
<1>1. /\ \A a \in Askers : ask[a] = Idle
      /\ UNCHANGED <<ask, phone>>
      /\ mails' = [n \in 0..Window - 1 |-> IF n = 0 THEN 0 ELSE mails[n - 1]]
  BY DEF Tick
<1>2. AsksOK' /\ ScreenOK' /\ Underway = 0 /\ Underway' = 0
  <2>1. Pending(ask["phone"]) = 0 /\ Pending(ask["other"]) = 0
    BY <1>1, AsksAre DEF Askers
  <2>2. UNCHANGED Underway
    BY <1>1 DEF Underway, Pending, Pends
  <2>. QED
    BY <1>1, <2>1, <2>2 DEF IndInv, AsksOK, ScreenOK, ScreenNamesInbox, Underway
<1>. DEFINE c == budget[Inbox].count
            t == budget[Inbox].ttl
            d == IF t = 1 THEN 0 ELSE c
            u == IF t = 1 THEN 0 ELSE IF t > 1 THEN t - 1 ELSE t
<1>3. /\ c \in Nat /\ mails \in [0..Window - 1 -> Nat] /\ Spread(mails, 0, c, t)
  BY <1>2 DEF IndInv, MailsOK, CounterOK
<1>4. CounterOK' /\ budget'[Inbox].count = d /\ budget'[Inbox].ttl = u
  <2>1. budget' = [s \in Subjects |-> budget'[s]]
    BY DEF Tick
  <2>2. budget'[Inbox] = IF t = 1 THEN Unset
                         ELSE IF t > 1 THEN [count |-> c, ttl |-> t - 1] ELSE budget[Inbox]
    BY InboxIs DEF Tick
  <2>3. budget[Inbox] = [count |-> c, ttl |-> t]
    BY DEF IndInv, CounterOK
  <2>4. budget'[Inbox] = [count |-> d, ttl |-> u]
    BY <2>2, <2>3 DEF Unset
  <2>5. d \in Nat
    BY <1>3
  <2>. HIDE DEF d, u
  <2>. QED
    BY <2>1, <2>4, <2>5 DEF CounterOK
<1>5. /\ mails' \in [0..Window - 1 -> Nat] /\ mails'[0] = 0
      /\ \A i \in 1..Window - 1 : mails'[i] = mails[i - 1]
  <2>1. 0 \in 0..Window - 1
        /\ \A i \in 1..Window - 1 : i \in 0..Window - 1 /\ i # 0 /\ i - 1 \in 0..Window - 1
    BY Sizes
  <2>2. \A i \in 0..Window - 1 : i = 0 \/ i \in 1..Window - 1
    OBVIOUS
  <2>. QED
    BY <1>1, <1>3, <2>1, <2>2
<1>6. Spread(mails', 0, d, u)
  <2>1. PICK e, v : e = d /\ v = u
    OBVIOUS
  <2>2. PICK b, l : b = c /\ l = t
    OBVIOUS
  <2>3. /\ e = IF l = 1 THEN 0 ELSE b
        /\ v = IF l = 1 THEN 0 ELSE IF l > 1 THEN l - 1 ELSE l
        /\ b \in Nat /\ Spread(mails, 0, b, l)
    BY <1>3, <2>1, <2>2
  <2>. HIDE DEF c, t, d, u
  <2>4. Spread(mails', 0, e, v)
    BY <1>3, <1>5, <2>3, SpreadTicks
  <2>. QED
    BY <2>1, <2>4
<1>7. MailsOK'
  <2>. HIDE DEF d, u
  <2>. QED
    BY <1>2, <1>4, <1>5, <1>6 DEF MailsOK
<1>. QED
  BY <1>2, <1>4, <1>7 DEF IndInv

-----------------------------------------------------------------------------
(* The theorems *)

LEMMA InitHolds == Init => IndInv
<1>. SUFFICES ASSUME Init
              PROVE  IndInv
  OBVIOUS
<1>1. /\ budget = [s \in Subjects |-> Unset] /\ ask = [a \in Askers |-> Idle]
      /\ mails = [n \in 0..Window - 1 |-> 0]
      /\ phone \in [phase : {"form"}, email : Emails, mailed : {None}]
  BY DEF Init
<1>2. AsksOK /\ ask["phone"] = Idle /\ Underway = 0
  <2>1. ask["phone"] = Idle /\ ask["other"] = Idle
    BY <1>1 DEF Askers
  <2>. QED
    BY <1>1, <2>1, AsksAre DEF AsksOK, Underway
<1>3. CounterOK /\ budget[Inbox].count = 0 /\ budget[Inbox].ttl = 0
  BY <1>1, InboxIs DEF CounterOK, Unset
<1>4. mails \in [0..Window - 1 -> Nat] /\ mails[0] = 0
  BY <1>1, Sizes
<1>5. Sent(mails, Window) = 0
  <2>1. Window \in Nat /\ 0 < Window
    BY Sizes
  <2>. DEFINE B == {n \in 0..Window : Sent(mails, n) # 0}
  <2>. SUFFICES ASSUME B # {}
                PROVE  FALSE
    BY <2>1
  <2>2. PICK n \in B : \A j \in B : n =< j
    <3>1. B \in SUBSET Nat
      OBVIOUS
    <3>. HIDE DEF B
    <3>. QED
      BY <3>1, FirstFailure
  <2>3. n # 0 /\ n \in 1..Window /\ n - 1 \in 0..Window - 1 /\ n - 1 \in 0..Window
    BY <2>1, SentNone
  <2>4. n - 1 \notin B
    BY <2>2, <2>3
  <2>5. Sent(mails, n - 1) = 0
    BY <2>3, <2>4
  <2>. HIDE DEF B
  <2>6. Sent(mails, (n - 1) + 1) = mails[n - 1] + Sent(mails, n - 1) /\ mails[n - 1] = 0
    BY <1>1, <1>4, <2>3, SentIn
  <2>7. (n - 1) + 1 = n
    BY <2>3
  <2>8. Sent(mails, n) = 0
    BY <2>5, <2>6, <2>7
  <2>. QED
    BY <2>2, <2>8 DEF B
<1>6. MailsOK
  BY <1>2, <1>3, <1>4, <1>5, Sizes DEF MailsOK, Spread
<1>7. ScreenOK
  BY <1>1, <1>2 DEF ScreenOK, ScreenNamesInbox
<1>. QED
  BY <1>2, <1>3, <1>6, <1>7 DEF IndInv

LEMMA NextKeeps == IndInv /\ [Next]_vars => IndInv'
<1>. SUFFICES ASSUME IndInv, [Next]_vars
              PROVE  IndInv'
  OBVIOUS
<1>1. CASE \E s \in Subjects : LoseExpiry(s)
  BY <1>1, LoseExpiryKeeps
<1>2. CASE Tick
  BY <1>2, TickKeeps
<1>3. ASSUME NEW a \in Askers, Serve(a) \/ AnswerLost(a) \/ MailFails(a)
      PROVE  IndInv'
  <2>1. CASE Count(a)
    BY <2>1, CountKeeps
  <2>2. CASE TooMany(a) \/ MailFails(a)
    BY <2>2, RefusedKeeps
  <2>3. CASE Deliver(a) \/ AnswerLost(a)
    <3>1. Mailed(a) /\ \E ok \in BOOLEAN : Shown(a, ok)
      BY <2>3 DEF Deliver, AnswerLost
    <3>. QED
      BY <3>1, MailedKeeps
  <2>. QED
    BY <1>3, <2>1, <2>2, <2>3 DEF Serve
<1>4. CASE SendCode \/ SendLink \/ \E e \in Emails, channel \in Channels : OtherAsks(e, channel)
  BY <1>4, AsksKeeps
<1>5. CASE \/ \E e \in Emails : TypeEmail(e)
           \/ EnterCode \/ Verify \/ FollowLink \/ Restart \/ SignOut
  BY <1>5, ScreenKeeps
<1>6. CASE UNCHANGED vars
  <2>1. UNCHANGED <<budget, ask, mails, phone>>
    BY <1>6 DEF vars
  <2>2. AsksOK' /\ ScreenOK' /\ UNCHANGED Underway
    BY <2>1 DEF IndInv, AsksOK, ScreenOK, ScreenNamesInbox, Underway, Pending, Pends
  <2>3. CounterOK' /\ MailsOK'
    BY <2>1, <2>2 DEF IndInv, CounterOK, MailsOK
  <2>. QED
    BY <2>2, <2>3 DEF IndInv
<1>. QED
  BY <1>1, <1>2, <1>3, <1>4, <1>5, <1>6 DEF Next

(* The counter covers what it has admitted, and the screen what was asked. *)
THEOREM Inductive == Spec => []IndInv
<1>. QED
  BY InitHolds, NextKeeps, PTL DEF Spec

(* Whatever the limits, the window, the answers and the expiries lost: one *)
(* inbox is sent fewer than twice the limit within any window.             *)
THEOREM InboxSpared == Spec => []MailBudget
<1>1. IndInv => MailBudget
  <2>. SUFFICES ASSUME IndInv
                PROVE  MailBudget
    OBVIOUS
  <2>1. /\ mails \in [0..Window - 1 -> Nat] /\ budget[Inbox].count \in Nat
        /\ Spread(mails, Underway, budget[Inbox].count, budget[Inbox].ttl)
    BY DEF IndInv, MailsOK, CounterOK
  <2>2. Sent(mails, Window) < 2 * PerEmail
    BY <2>1, UnderwayIs, SpreadBounds
  <2>3. Sent(mails, Window) = SumFunction(mails)
    <3>1. mails = [i \in 0..Window - 1 |-> mails[i]]
      BY <2>1
    <3>. QED
      BY <3>1, Zenon DEF Sent
  <2>. QED
    BY <2>2, <2>3 DEF MailBudget
<1>. QED
  BY <1>1, Inductive, PTL

(* The address a screen names is the one its mail was sent to. *)
THEOREM ScreenTrue == Spec => []ScreenNamesInbox
<1>1. IndInv => ScreenNamesInbox
  BY DEF IndInv, ScreenOK
<1>. QED
  BY <1>1, Inductive, PTL
=============================================================================
