--------------------------- MODULE ProtocolProofs ---------------------------
(***************************************************************************)
(* Theorems about the wire format, for every base and width, every set of  *)
(* bytes that are no text, and frames of any size the format can hold.     *)
(* Induction is by the least element of a set of natural numbers, so that  *)
(* what the recursive functions of Protocol compute is proved too.         *)
(***************************************************************************)
EXTENDS Messages, SequenceTheorems, WellFoundedInduction, TLAPS

-----------------------------------------------------------------------------
(* Induction and recursion over the natural numbers, for sets.             *)

LEMMA LeastNat ==
    ASSUME NEW T \in SUBSET Nat, T # {}
    PROVE  \E x \in T : \A y \in T : x <= y
  <1>1. \E x \in T : \A y \in T : <<y, x>> \notin OpToRel(<, Nat)
    BY NatLessThanWellFounded, WFMin, Zenon
  <1>2. \E x \in T : \A y \in T : ~(y < x)
    BY <1>1, Zenon DEF OpToRel
  <1> QED BY <1>2

LEMMA Induction ==
    ASSUME NEW T, 0 \in T, \A n \in Nat : n \in T => n + 1 \in T
    PROVE  Nat \subseteq T
  <1> SUFFICES ASSUME Nat \ T # {} PROVE FALSE OBVIOUS
  <1>1. PICK x \in Nat \ T : \A y \in Nat \ T : x <= y
    BY LeastNat
  <1>2. x # 0 /\ x - 1 \in Nat
    BY <1>1
  <1>3. x - 1 \in T
    BY <1>1, <1>2
  <1>4. (x - 1) + 1 = x
    BY <1>1
  <1> QED BY <1>1, <1>2, <1>3, <1>4

(* A function may be defined by its first value and by a step.             *)
IsRun(n, g, V, b, step) ==
    /\ g \in [0..n -> V] /\ g[0] = b
    /\ \A i \in 0..n - 1 : g[i + 1] = step[i][g[i]]

LEMMA RunsAgree ==
    ASSUME NEW V, NEW b, NEW step, NEW n \in Nat, NEW m \in Nat, n <= m,
           NEW g, NEW h, IsRun(n, g, V, b, step), IsRun(m, h, V, b, step)
    PROVE  \A i \in 0..n : g[i] = h[i]
  <1> DEFINE T == {i \in Nat : i <= n => g[i] = h[i]}
  <1>1. 0 \in T
    BY DEF IsRun
  <1>2. ASSUME NEW i \in Nat, i \in T PROVE i + 1 \in T
    <2>1. CASE i + 1 <= n
      <3>1. i \in 0..n - 1 /\ i \in 0..m - 1 /\ g[i] = h[i]
        BY <1>2, <2>1
      <3> QED BY <3>1 DEF IsRun
    <2> QED BY <2>1
  <1> HIDE DEF T
  <1>3. Nat \subseteq T
    BY <1>1, <1>2, Induction
  <1> QED BY <1>3 DEF T

HasRun(V, b, step) ==
    \E f \in [Nat -> V] : f[0] = b /\ \A n \in Nat : f[n + 1] = step[n][f[n]]

LEMMA Recursion ==
    ASSUME NEW V, NEW b \in V, NEW step \in [Nat -> [V -> V]]
    PROVE  HasRun(V, b, step)
  <1> DEFINE T == {n \in Nat : \E g : IsRun(n, g, V, b, step)}
  <1>1. 0 \in T
    <2>1. IsRun(0, [i \in 0..0 |-> b], V, b, step)
      BY DEF IsRun
    <2> QED BY <2>1
  <1>2. ASSUME NEW n \in Nat, n \in T PROVE n + 1 \in T
    <2>1. PICK g : IsRun(n, g, V, b, step)
      BY <1>2
    <2> DEFINE h == [i \in 0..n + 1 |-> IF i = n + 1 THEN step[n][g[n]] ELSE g[i]]
    <2>2. h \in [0..n + 1 -> V] /\ h[0] = b
      BY <2>1 DEF IsRun
    <2>3. ASSUME NEW i \in 0..n PROVE h[i + 1] = step[i][h[i]]
      <3>1. CASE i = n
        BY <3>1
      <3>2. CASE i # n
        <4>1. i \in 0..n - 1
          BY <3>2
        <4>2. h[i + 1] = g[i + 1] /\ h[i] = g[i]
          BY <4>1
        <4>3. g[i + 1] = step[i][g[i]]
          BY <2>1, <4>1 DEF IsRun
        <4> QED BY <4>2, <4>3
      <3> QED BY <3>1, <3>2
    <2>4. IsRun(n + 1, h, V, b, step)
      <3> HIDE DEF h
      <3>1. 0..(n + 1) - 1 = 0..n
        OBVIOUS
      <3> QED BY <2>2, <2>3, <3>1 DEF IsRun
    <2> QED BY <2>4
  <1> HIDE DEF T
  <1>3. Nat \subseteq T
    BY <1>1, <1>2, Induction
  <1> DEFINE G(n) == CHOOSE g : IsRun(n, g, V, b, step)
             f == [n \in Nat |-> G(n)[n]]
  <1>4. ASSUME NEW n \in Nat PROVE IsRun(n, G(n), V, b, step)
    BY <1>3 DEF T
  <1> HIDE DEF G
  <1>5. f \in [Nat -> V]
    BY <1>4 DEF IsRun
  <1>6. f[0] = b
    BY <1>4 DEF IsRun
  <1>7. ASSUME NEW n \in Nat PROVE f[n + 1] = step[n][f[n]]
    <2>1. IsRun(n, G(n), V, b, step) /\ IsRun(n + 1, G(n + 1), V, b, step)
      BY <1>4
    <2>2. G(n)[n] = G(n + 1)[n]
      <3>1. n + 1 \in Nat /\ n <= n + 1 /\ n \in 0..n
        OBVIOUS
      <3>2. ASSUME NEW g, NEW h, IsRun(n, g, V, b, step), IsRun(n + 1, h, V, b, step)
            PROVE  g[n] = h[n]
        BY <3>1, <3>2, RunsAgree
      <3> QED BY <2>1, <3>2
    <2>3. G(n + 1)[n + 1] = step[n][G(n + 1)[n]]
      <3>1. n \in 0..(n + 1) - 1
        OBVIOUS
      <3> QED BY <2>1, <3>1 DEF IsRun
    <2>4. f[n + 1] = G(n + 1)[n + 1] /\ f[n] = G(n)[n]
      OBVIOUS
    <2> QED BY <2>2, <2>3, <2>4
  <1> HIDE DEF f
  <1> QED BY <1>5, <1>6, <1>7 DEF HasRun

-----------------------------------------------------------------------------
(* Integers.                                                               *)

LEMMA PowerDef ==
    /\ Power \in [Nat -> Nat \ {0}] /\ Power[0] = 1
    /\ \A k \in Nat : Power[k + 1] = Base * Power[k]
  <1> DEFINE V == Nat \ {0}
             step == [n \in Nat |-> [p \in V |-> Base * p]]
  <1>1. Base \in Nat /\ Base > 0
    BY FormatAssumption
  <1>2. step \in [Nat -> [V -> V]] /\ 1 \in V
    BY <1>1
  <1> HIDE DEF V, step
  <1>r. HasRun(V, 1, step)
    BY <1>2, Recursion
  <1>3. PICK f \in [Nat -> V] : f[0] = 1 /\ \A n \in Nat : f[n + 1] = step[n][f[n]]
    BY <1>r DEF HasRun
  <1> USE DEF V, step
  <1> DEFINE Eq(p) == [k \in Nat |-> IF k = 0 THEN 1 ELSE Base * p[k - 1]]
  <1>4. f = Eq(f)
    <2>1. ASSUME NEW k \in Nat PROVE f[k] = Eq(f)[k]
      <3>1. CASE k = 0
        BY <1>3, <3>1
      <3>2. CASE k # 0
        <4>1. k - 1 \in Nat /\ (k - 1) + 1 = k
          BY <3>2
        <4>2. f[k] = step[k - 1][f[k - 1]] /\ f[k - 1] \in V
          BY <1>3, <4>1
        <4> QED BY <3>2, <4>1, <4>2
      <3> QED BY <3>1, <3>2
    <2> QED BY <1>3, <2>1
  <1>5. Power = CHOOSE p : p = Eq(p)
    BY DEF Power
  <1> HIDE DEF Eq
  <1>6. Power = Eq(Power)
    BY <1>4, <1>5
  <1> USE DEF Eq
  <1>7. Power[0] = 1 /\ \A k \in Nat : Power[k + 1] = Base * Power[k]
    BY <1>6
  <1> HIDE DEF Eq
  <1> DEFINE T == {k \in Nat : Power[k] \in V}
  <1>8. Nat \subseteq T
    <2>1. \A k \in Nat : k \in T => k + 1 \in T
      BY <1>1, <1>7
    <2>2. 0 \in T
      BY <1>7
    <2> HIDE DEF T
    <2> QED BY <2>1, <2>2, Induction
  <1>9. Power \in [Nat -> V]
    <2>1. Power = [k \in Nat |-> Power[k]]
      BY <1>6 DEF Eq
    <2> QED BY <1>8, <2>1
  <1> QED BY <1>7, <1>9

LEMMA DivUnique ==
    ASSUME NEW q \in Int, NEW r \in Byte
    PROVE  (Base * q + r) \div Base = q /\ (Base * q + r) % Base = r
  BY FormatAssumption DEF Byte

LEMMA Quotient ==
    ASSUME NEW a \in Int, NEW p \in Nat \ {0}, NEW q \in Int,
           p * q <= a, a < p * (q + 1)
    PROVE  a \div p = q
  OBVIOUS

LEMMA QuotientBounds ==
    ASSUME NEW a \in Int, NEW p \in Nat \ {0}
    PROVE  /\ a \div p \in Int
           /\ p * (a \div p) <= a /\ a < p * (a \div p + 1)
  <1>1. a \div p \in Int
    OBVIOUS
  <1>2. ASSUME NEW q \in Int PROVE /\ a < p * q => a \div p < q
                                   /\ a >= p * q => a \div p >= q
    OBVIOUS
  <1> DEFINE q == a \div p
  <1>3. p * q <= a /\ a < p * (q + 1)
    <2>1. q + 1 \in Int /\ ~(q < q) /\ ~(q >= q + 1)
      BY <1>1
    <2>2. p * q \in Int /\ p * (q + 1) \in Int
      BY <1>1
    <2> QED BY <1>1, <1>2, <2>1, <2>2
  <1> QED BY <1>1, <1>3

LEMMA DivMod ==
    ASSUME NEW a \in Int
    PROVE  /\ a \div Base \in Int /\ a % Base \in Byte
           /\ a = Base * (a \div Base) + (a % Base)
  <1>1. Base \in Nat \ {0}
    BY FormatAssumption
  <1>2. a \div Base \in Int
    BY <1>1
  <1>3. a % Base \in 0..Base - 1
    BY <1>1
  <1>4. a = Base * (a \div Base) + (a % Base)
    BY <1>1
  <1> QED BY <1>2, <1>3, <1>4 DEF Byte

(* Division in two steps. *)
LEMMA DivDiv ==
    ASSUME NEW n \in Int, NEW p \in Nat \ {0}
    PROVE  (n \div p) \div Base = n \div (Base * p)
  <1>1. Base \in Nat \ {0}
    BY FormatAssumption
  <1> DEFINE a == n \div p
             q == a \div Base
  <1>2. /\ a \in Int /\ p * a <= n /\ n < p * (a + 1)
    BY QuotientBounds
  <1>3. q \in Int /\ Base * q <= a /\ a < Base * (q + 1)
    BY <1>1, <1>2, QuotientBounds
  <1> HIDE DEF a, q
  <1>4. Base * p \in Nat \ {0}
    BY <1>1
  <1>5. (Base * p) * q <= n
    <2>1. p * (Base * q) <= p * a
      BY <1>1, <1>2, <1>3
    <2>2. p * (Base * q) = (Base * p) * q
      BY <1>1, <1>3
    <2> QED BY <1>1, <1>2, <1>3, <2>1, <2>2
  <1>6. n < (Base * p) * (q + 1)
    <2>1. a + 1 <= Base * (q + 1)
      BY <1>1, <1>2, <1>3
    <2>2. p * (a + 1) <= p * (Base * (q + 1))
      BY <1>1, <1>2, <1>3, <2>1
    <2>3. p * (Base * (q + 1)) = (Base * p) * (q + 1)
      BY <1>1, <1>3
    <2> QED BY <1>1, <1>2, <1>3, <2>2, <2>3
  <1>7. n \div (Base * p) = q
    BY <1>3, <1>4, <1>5, <1>6, Quotient
  <1> QED BY <1>7 DEF a, q

-----------------------------------------------------------------------------
(* Digits.                                                                 *)

LEMMA Sizes ==
    /\ Base \in Nat \ {0} /\ Width \in Nat \ {0} /\ Byte \subseteq Nat
    /\ Limit \in Nat \ {0}
  BY FormatAssumption, PowerDef DEF Byte, Limit

IsValue(v, h) ==
    /\ h \in [0..Len(v) -> Int] /\ h[0] = 0
    /\ \A i \in 1..Len(v) : h[i] = Base * h[i - 1] + v[i]

LEMMA NumberDef ==
    ASSUME NEW v \in Seq(Byte)
    PROVE  \E h : IsValue(v, h) /\ Number(v) = h[Len(v)]
  <1> DEFINE step == [n \in Nat |-> [x \in Int |->
                        IF n + 1 \in 1..Len(v) THEN Base * x + v[n + 1] ELSE 0]]
  <1>1. Len(v) \in Nat /\ \A i \in 1..Len(v) : v[i] \in Int
    <2>1. Len(v) \in Nat
      BY LenProperties
    <2>2. \A i \in 1..Len(v) : v[i] \in Byte
      BY ElementOfSeq
    <2>3. Byte \subseteq Int
      BY Sizes
    <2> QED BY <2>1, <2>2, <2>3, Zenon
  <1>2. step \in [Nat -> [Int -> Int]] /\ 0 \in Int
    BY <1>1, Sizes
  <1> HIDE DEF step
  <1>3. HasRun(Int, 0, step)
    BY <1>2, Recursion
  <1>4. PICK f \in [Nat -> Int] : f[0] = 0 /\ \A n \in Nat : f[n + 1] = step[n][f[n]]
    BY <1>3 DEF HasRun
  <1> DEFINE h == [i \in 0..Len(v) |-> f[i]]
             Eq(g) == [i \in 0..Len(v) |-> IF i = 0 THEN 0 ELSE Base * g[i - 1] + v[i]]
             g == CHOOSE g : g = Eq(g)
  <1>5. ASSUME NEW i \in 1..Len(v) PROVE h[i] = Base * h[i - 1] + v[i]
    <2>1. i - 1 \in Nat /\ (i - 1) + 1 = i /\ i - 1 \in 0..Len(v) /\ i \in 0..Len(v)
      BY <1>1
    <2>2. f[i] = step[i - 1][f[i - 1]] /\ f[i - 1] \in Int
      BY <1>4, <2>1
    <2> USE DEF step
    <2>3. step[i - 1][f[i - 1]] = Base * f[i - 1] + v[i]
      BY <2>1, <2>2
    <2> QED BY <2>1, <2>2, <2>3
  <1>6. h = Eq(h)
    <2>1. ASSUME NEW i \in 0..Len(v) PROVE h[i] = Eq(h)[i]
      <3>1. CASE i = 0
        BY <1>1, <1>4, <3>1
      <3>2. CASE i # 0
        <4>1. i \in 1..Len(v)
          BY <1>1, <3>2
        <4> HIDE DEF h
        <4> QED BY <1>5, <3>2, <4>1
      <3> QED BY <3>1, <3>2
    <2> QED BY <2>1
  <1> HIDE DEF h, Eq
  <1>7. g = Eq(g)
    BY <1>6
  <1>8. Number(v) = g[Len(v)]
    BY Zenon DEF Number, Eq
  <1> HIDE DEF g
  <1>9. \A i \in 0..Len(v) : g[i] = Eq(g)[i]
    BY <1>7
  <1>10. g[0] = 0 /\ \A i \in 1..Len(v) : g[i] = Base * g[i - 1] + v[i]
    <2>1. g[0] = 0
      BY <1>1, <1>9 DEF Eq
    <2>2. ASSUME NEW i \in 1..Len(v) PROVE g[i] = Base * g[i - 1] + v[i]
      <3>1. i \in 0..Len(v) /\ i # 0
        BY <1>1
      <3> QED BY <1>9, <3>1 DEF Eq
    <2> QED BY <2>1, <2>2
  <1>11. \A i \in 0..Len(v) : g[i] \in Int
    <2> DEFINE T == {i \in Nat : i \in 0..Len(v) => g[i] \in Int}
    <2>1. 0 \in T
      BY <1>10
    <2>2. ASSUME NEW i \in Nat, i \in T PROVE i + 1 \in T
      <3>1. CASE i + 1 \in 1..Len(v)
        <4>1. i \in 0..Len(v) /\ (i + 1) - 1 = i /\ v[i + 1] \in Int
          BY <1>1, <3>1
        <4> QED BY <1>10, <2>2, <3>1, <4>1, Sizes, SMTT(30)
      <3> QED BY <1>1, <3>1
    <2> HIDE DEF T
    <2>3. Nat \subseteq T
      BY <2>1, <2>2, Induction
    <2> QED BY <2>3 DEF T
  <1>12. g \in [0..Len(v) -> Int]
    <2>1. g = [i \in 0..Len(v) |-> g[i]]
      BY <1>7 DEF Eq
    <2> QED BY <1>11, <2>1
  <1> QED BY <1>8, <1>10, <1>12 DEF IsValue

(* What an integer becomes on the wire, and what is read from there.       *)
LEMMA PutIntType ==
    ASSUME NEW n \in Int
    PROVE  /\ PutInt(n) \in Seq(Byte) /\ Len(PutInt(n)) = Width
           /\ \A i \in 1..Width : PutInt(n)[i] = (n \div Power[Width - i]) % Base
  <1>1. ASSUME NEW i \in 1..Width PROVE (n \div Power[Width - i]) % Base \in Byte
    <2>1. Width - i \in Nat
      BY Sizes
    <2>2. n \div Power[Width - i] \in Int
      BY <2>1, PowerDef, QuotientBounds
    <2> QED BY <2>2, DivMod
  <1>2. PutInt(n) \in [1..Width -> Byte]
    BY <1>1 DEF PutInt
  <1>3. PutInt(n) \in Seq(Byte)
    BY <1>2, Sizes, SeqDef
  <1>4. Len(PutInt(n)) = Width
    BY <1>2, Sizes
  <1> QED BY <1>3, <1>4 DEF PutInt

LEMMA NumberPut ==
    ASSUME NEW n \in Int
    PROVE  Number(PutInt(n)) = n - (n \div Limit) * Limit
  <1> DEFINE v == PutInt(n)
             R(i) == n \div Power[Width - i]
  <1>1. v \in Seq(Byte) /\ Len(v) = Width
    BY PutIntType
  <1>2. PICK h : IsValue(v, h) /\ Number(v) = h[Len(v)]
    BY <1>1, NumberDef
  <1> DEFINE S == {i \in Nat : i <= Width => h[i] = R(i) - R(0) * Power[i]}
  <1>3. ASSUME NEW i \in 0..Width PROVE R(i) \in Int /\ Power[i] \in Nat
    <2>1. Width - i \in Nat /\ i \in Nat
      BY Sizes
    <2> QED BY <2>1, PowerDef, QuotientBounds
  <1>4. 0 \in S
    <2>1. R(0) - R(0) * 1 = 0
      <3>1. R(0) \in Int
        BY <1>3, Sizes
      <3> HIDE DEF R
      <3> QED BY <3>1
    <2> QED BY <1>1, <1>2, <2>1, PowerDef DEF IsValue
  <1>5. ASSUME NEW i \in Nat, i \in S PROVE i + 1 \in S
    <2> SUFFICES ASSUME i + 1 <= Width
                 PROVE  h[i + 1] = R(i + 1) - R(0) * Power[i + 1]
      OBVIOUS
    <2> DEFINE k == Width - (i + 1)
    <2>1. k \in Nat /\ Width - i = k + 1 /\ i + 1 \in 1..Width /\ i \in 0..Width
          /\ 0 \in 0..Width /\ i + 1 \in 0..Width /\ (i + 1) - 1 = i
      BY Sizes
    <2>2. R(i) = R(i + 1) \div Base
      <3>1. Power[k] \in Nat \ {0} /\ Power[k + 1] = Base * Power[k]
        BY <2>1, PowerDef
      <3> QED BY <2>1, <3>1, DivDiv
    <2>3. h[i + 1] = Base * h[i] + v[i + 1]
      BY <1>1, <1>2, <2>1 DEF IsValue
    <2>4. v[i + 1] = R(i + 1) % Base
      BY <2>1, PutIntType
    <2>5. R(i + 1) = Base * R(i) + v[i + 1] /\ v[i + 1] \in Int
      <3>1. R(i + 1) \in Int
        BY <1>3, <2>1
      <3> HIDE DEF R, v
      <3>2. R(i + 1) = Base * (R(i + 1) \div Base) + (R(i + 1) % Base)
            /\ R(i + 1) % Base \in Byte
        BY <3>1, DivMod
      <3>3. v[i + 1] \in Int
        <4>1. v[i + 1] \in Byte
          BY <2>4, <3>2, Zenon
        <4>2. Byte \subseteq Int
          BY Sizes
        <4> QED BY <4>1, <4>2, Zenon
      <3> QED BY <2>2, <2>4, <3>2, <3>3, Zenon
    <2>6. h[i] = R(i) - R(0) * Power[i]
      BY <1>5, <2>1
    <2>7. Power[i + 1] = Base * Power[i]
      BY PowerDef
    <2>8. R(i) \in Int /\ R(0) \in Int /\ Power[i] \in Int /\ R(i + 1) \in Int
      BY <1>3, <2>1
    <2> HIDE DEF R, v
    <2>9. Base * (R(i) - R(0) * Power[i]) = Base * R(i) - R(0) * (Base * Power[i])
      BY <2>8, Sizes
    <2>10. Base * R(i) \in Int /\ R(0) * (Base * Power[i]) \in Int
      BY <2>8, Sizes
    <2> QED BY <2>3, <2>5, <2>6, <2>7, <2>9, <2>10
  <1> HIDE DEF S
  <1>6. Nat \subseteq S
    BY <1>4, <1>5, Induction
  <1> USE DEF S
  <1>7. h[Width] = R(Width) - R(0) * Power[Width]
    BY <1>6, Sizes
  <1>8. R(Width) = n
    <2>1. n \div 1 = n
      OBVIOUS
    <2>2. Width - Width = 0
      BY Sizes
    <2> QED BY <2>1, <2>2, PowerDef
  <1>9. R(0) = n \div Limit
    <2>1. Width - 0 = Width
      BY Sizes
    <2> QED BY <2>1 DEF Limit
  <1> HIDE DEF R
  <1> QED BY <1>1, <1>2, <1>7, <1>8, <1>9 DEF Limit

LEMMA NumberOfInt ==
    ASSUME NEW n \in Int
    PROVE  /\ n \in 0..Limit - 1 => Number(PutInt(n)) = n
           /\ n \in -Limit..-1 => Number(PutInt(n)) = n + Limit
  <1>1. ASSUME n \in 0..Limit - 1 PROVE n \div Limit = 0
    BY <1>1, Sizes
  <1>2. ASSUME n \in -Limit..-1 PROVE n \div Limit = -1
    BY <1>2, Sizes
  <1> QED BY <1>1, <1>2, NumberPut, Sizes

(* Every sequence of Width bytes is an integer, and only one.              *)
LEMMA NumberBound ==
    ASSUME NEW v \in Seq(Byte), Len(v) = Width
    PROVE  Number(v) \in 0..Limit - 1
  <1>1. PICK h : IsValue(v, h) /\ Number(v) = h[Len(v)]
    BY NumberDef
  <1> DEFINE S == {i \in Nat : i <= Width => 0 <= h[i] /\ h[i] < Power[i]}
  <1>2. 0 \in S
    <2>1. h[0] = 0 /\ Power[0] = 1
      BY <1>1, PowerDef DEF IsValue
    <2> QED BY <2>1
  <1>3. ASSUME NEW i \in Nat, i \in S PROVE i + 1 \in S
    <2> SUFFICES ASSUME i + 1 <= Width
                 PROVE  0 <= h[i + 1] /\ h[i + 1] < Power[i + 1]
      OBVIOUS
    <2>1. i + 1 \in 1..Width /\ (i + 1) - 1 = i /\ i <= Width /\ i \in 0..Width
      BY Sizes
    <2>2. h[i + 1] = Base * h[i] + v[i + 1] /\ h[i] \in Int
      BY <1>1, <2>1 DEF IsValue
    <2>3. v[i + 1] \in 0..Base - 1
      BY <2>1, ElementOfSeq DEF Byte
    <2>4. 0 <= h[i] /\ h[i] <= Power[i] - 1 /\ Power[i] \in Int
          /\ Power[i + 1] = Base * Power[i]
      <3>1. Power[i] \in Int /\ Power[i + 1] = Base * Power[i]
        <4>1. Power[i] \in Nat \ {0}
          BY PowerDef
        <4> QED BY <4>1, PowerDef
      <3>2. 0 <= h[i] /\ h[i] < Power[i]
        BY <1>3, <2>1
      <3> QED BY <2>2, <3>1, <3>2
    <2>5. 0 <= Base * h[i] /\ Base * h[i] <= Base * (Power[i] - 1)
      BY <2>2, <2>4, Sizes, SMTT(30)
    <2>6. Base * (Power[i] - 1) = Base * Power[i] - Base
      BY <2>4, Sizes
    <2>7. Base * h[i] \in Int /\ Base * Power[i] \in Int
      BY <2>2, <2>4, Sizes
    <2> DEFINE p == Base * h[i]
               q == Base * Power[i]
               x == v[i + 1]
               y == h[i + 1]
    <2>8. /\ p \in Int /\ q \in Int /\ Base \in Int /\ x \in Int
          /\ 0 <= p /\ p <= q - Base /\ 0 <= x /\ x <= Base - 1 /\ y = p + x
      BY <2>2, <2>3, <2>5, <2>6, <2>7, Sizes
    <2>9. Power[i + 1] = q
      BY <2>4
    <2> HIDE DEF p, q, x, y
    <2>10. 0 <= y /\ y < q
      BY <2>8
    <2> QED BY <2>9, <2>10 DEF y
  <1> HIDE DEF S
  <1>4. Nat \subseteq S
    BY <1>2, <1>3, Induction
  <1>5. 0 <= h[Width] /\ h[Width] < Power[Width]
    BY <1>4, Sizes DEF S
  <1>6. h[Width] \in Int
    BY <1>1, Sizes DEF IsValue
  <1> QED BY <1>1, <1>5, <1>6, Sizes DEF Limit

LEMMA NumberInjective ==
    ASSUME NEW v \in Seq(Byte), NEW w \in Seq(Byte),
           Len(v) = Width, Len(w) = Width, Number(v) = Number(w)
    PROVE  v = w
  <1>1. PICK g : IsValue(v, g) /\ Number(v) = g[Len(v)]
    BY NumberDef
  <1>2. PICK h : IsValue(w, h) /\ Number(w) = h[Len(w)]
    BY NumberDef
  <1>3. ASSUME NEW i \in 1..Width, g[i] = h[i]
        PROVE  g[i - 1] = h[i - 1] /\ v[i] = w[i]
    <2>1. i - 1 \in 0..Width
      BY Sizes
    <2>2. g[i] = Base * g[i - 1] + v[i] /\ g[i - 1] \in Int
      BY <1>1, <2>1 DEF IsValue
    <2>3. h[i] = Base * h[i - 1] + w[i] /\ h[i - 1] \in Int
      BY <1>2, <2>1 DEF IsValue
    <2>4. v[i] \in Byte /\ w[i] \in Byte
      BY ElementOfSeq
    <2>5. g[i] \div Base = g[i - 1] /\ g[i] % Base = v[i]
      BY <2>2, <2>4, DivUnique
    <2>6. h[i] \div Base = h[i - 1] /\ h[i] % Base = w[i]
      BY <2>3, <2>4, DivUnique
    <2> QED BY <1>3, <2>5, <2>6, Zenon
  <1> DEFINE S == {k \in Nat : k <= Width => g[Width - k] = h[Width - k]}
  <1>4. 0 \in S
    <2>1. Width - 0 = Width
      BY Sizes
    <2> QED BY <1>1, <1>2, <2>1
  <1>5. ASSUME NEW k \in Nat, k \in S PROVE k + 1 \in S
    <2> SUFFICES ASSUME k + 1 <= Width PROVE g[Width - (k + 1)] = h[Width - (k + 1)]
      OBVIOUS
    <2>1. Width - k \in 1..Width /\ (Width - k) - 1 = Width - (k + 1) /\ k <= Width
      BY Sizes
    <2>2. g[Width - k] = h[Width - k]
      BY <1>5, <2>1
    <2> QED BY <1>3, <2>1, <2>2
  <1> HIDE DEF S
  <1>6. Nat \subseteq S
    BY <1>4, <1>5, Induction
  <1>7. ASSUME NEW i \in 1..Width PROVE v[i] = w[i]
    <2>1. Width - i \in Nat /\ Width - i <= Width /\ Width - (Width - i) = i
      BY Sizes
    <2>2. g[i] = h[i]
      BY <1>6, <2>1 DEF S
    <2> QED BY <1>3, <2>2
  <1> QED BY <1>7, SeqEqual

LEMMA PutNumber ==
    ASSUME NEW v \in Seq(Byte), Len(v) = Width
    PROVE  /\ PutInt(Number(v)) = v
           /\ PutInt(Number(v) - Limit) = v
  <1>1. Number(v) \in 0..Limit - 1 /\ Number(v) - Limit \in -Limit..-1
    BY NumberBound, Sizes
  <1>2. Number(PutInt(Number(v))) = Number(v)
    BY <1>1, NumberOfInt, Sizes
  <1>3. Number(PutInt(Number(v) - Limit)) = Number(v)
    BY <1>1, NumberOfInt, Sizes
  <1>4. Number(v) \in Int /\ Number(v) - Limit \in Int
    BY <1>1, Sizes
  <1> QED BY <1>2, <1>3, <1>4, PutIntType, NumberInjective

-----------------------------------------------------------------------------
(* Sequences of bytes.                                                     *)

LEMMA SplitConcat ==
    ASSUME NEW a \in Seq(Byte), NEW r \in Seq(Byte)
    PROVE  /\ Split(a \o r, Len(a)) = <<a, r>>
           /\ a \o r \in Seq(Byte) /\ ~(Len(a \o r) < Len(a))
  <1>1. a \o r \in Seq(Byte) /\ Len(a \o r) = Len(a) + Len(r)
    BY ConcatProperties
  <1>2. Len(a) \in Nat /\ Len(r) \in Nat
    BY LenProperties
  <1>3. SubSeq(a \o r, 1, Len(a)) = a
    <2>1. CASE a = <<>>
      <3>1. Len(a) = 0
        BY <2>1
      <3>2. SubSeq(a \o r, 1, 0) = <<>>
        BY SubSeqEmpty
      <3> QED BY <2>1, <3>1, <3>2
    <2>2. CASE a # <<>>
      <3>1. 1 \in 1..Len(a) /\ Len(a) \in 1..Len(a)
        BY <1>2, <2>2, EmptySeq
      <3>2. SubSeq(a \o r, 1, Len(a)) = SubSeq(a, 1, Len(a))
        BY <3>1, SubSeqOfConcat1
      <3> QED BY <3>2, SubSeqFull
    <2> QED BY <2>1, <2>2
  <1>4. SubSeq(a \o r, Len(a) + 1, Len(a \o r)) = r
    <2>1. CASE r = <<>>
      <3>1. Len(r) = 0
        BY <2>1
      <3>2. Len(a \o r) < Len(a) + 1
        BY <1>1, <1>2, <3>1
      <3> QED BY <1>1, <1>2, <2>1, <3>2, SubSeqEmpty
    <2>2. CASE r # <<>>
      <3>1. /\ Len(a) + 1 \in Len(a) + 1 .. Len(a) + Len(r)
            /\ Len(a) + Len(r) \in Len(a) + 1 .. Len(a) + Len(r)
            /\ (Len(a) + 1) - Len(a) = 1 /\ (Len(a) + Len(r)) - Len(a) = Len(r)
        BY <1>2, <2>2, EmptySeq
      <3>2. SubSeq(a \o r, Len(a) + 1, Len(a) + Len(r)) = SubSeq(r, 1, Len(r))
        BY <3>1, SubSeqOfConcat2
      <3> QED BY <1>1, <3>2, SubSeqFull
    <2> QED BY <2>1, <2>2
  <1> QED BY <1>1, <1>2, <1>3, <1>4 DEF Split

LEMMA SplitJoins ==
    ASSUME NEW b \in Seq(Byte), NEW n \in Nat, ~(Len(b) < n)
    PROVE  \E a \in Seq(Byte), r \in Seq(Byte) :
             Split(b, n) = <<a, r>> /\ Len(a) = n /\ b = a \o r
  <1>1. Len(b) \in Nat /\ n \in 0..Len(b)
    BY LenProperties
  <1>2. \A i \in 1..Len(b) : b[i] \in Byte
    BY ElementOfSeq
  <1> DEFINE a == SubSeq(b, 1, n)
             r == SubSeq(b, n + 1, Len(b))
  <1>3. a \in Seq(Byte) /\ Len(a) = n
    <2>1. \A i \in 1..n : b[i] \in Byte
      BY <1>1, <1>2
    <2>2. Len(a) = IF 1 <= n THEN n - 1 + 1 ELSE 0
      BY <2>1, SubSeqProperties
    <2>3. a \in Seq(Byte)
      BY <2>1, SubSeqProperties
    <2> QED BY <2>2, <2>3
  <1>4. r \in Seq(Byte)
    <2>1. \A i \in n + 1..Len(b) : b[i] \in Byte
      BY <1>1, <1>2
    <2> QED BY <1>1, <2>1, SubSeqProperties
  <1>5. a \o r = b
    <2>1. 1 \in 1..Len(b) + 1 /\ n \in 1 - 1..Len(b) /\ Len(b) \in n..Len(b)
      BY <1>1
    <2>2. a \o r = SubSeq(b, 1, Len(b))
      BY <2>1, ConcatAdjacentSubSeq
    <2> QED BY <2>2, SubSeqFull
  <1> QED BY <1>3, <1>4, <1>5 DEF Split

(* The concatenation of a list.                                            *)
IsFlat(s, f) ==
    /\ f \in [1..Len(s) -> Seq(Byte)]
    /\ \A i \in 1..Len(s) : f[i] = IF i = 1 THEN s[i] ELSE f[i - 1] \o s[i]

LEMMA FlattenDef ==
    ASSUME NEW s \in Seq(Seq(Byte)), s # <<>>
    PROVE  \E f : IsFlat(s, f) /\ FlattenSeq(s) = f[Len(s)]
  <1>1. Len(s) \in Nat /\ Len(s) # 0
    BY EmptySeq
  <1>2. \A i \in 1..Len(s) : s[i] \in Seq(Byte)
    BY ElementOfSeq
  <1> DEFINE step == [n \in Nat |-> [x \in Seq(Byte) |->
                        IF n + 2 \in 1..Len(s) THEN x \o s[n + 2] ELSE x]]
  <1>3. step \in [Nat -> [Seq(Byte) -> Seq(Byte)]]
    <2>1. ASSUME NEW n \in Nat, NEW x \in Seq(Byte), n + 2 \in 1..Len(s)
          PROVE  x \o s[n + 2] \in Seq(Byte)
      BY <1>2, <2>1, ConcatProperties
    <2> QED BY <2>1
  <1>4. s[1] \in Seq(Byte)
    BY <1>1, <1>2
  <1> HIDE DEF step
  <1>5. HasRun(Seq(Byte), s[1], step)
    BY <1>3, <1>4, Recursion
  <1>6. PICK g \in [Nat -> Seq(Byte)] :
          g[0] = s[1] /\ \A n \in Nat : g[n + 1] = step[n][g[n]]
    BY <1>5 DEF HasRun
  <1> DEFINE h == [i \in 1..Len(s) |-> g[i - 1]]
             Eq(f) == [i \in 1..Len(s) |-> IF i = 1 THEN s[i] ELSE f[i - 1] \o s[i]]
             f == CHOOSE f : f = Eq(f)
  <1>7. ASSUME NEW i \in 1..Len(s) PROVE h[i] = Eq(h)[i]
    <2>1. CASE i = 1
      BY <1>6, <2>1
    <2>2. CASE i # 1
      <3>1. /\ i - 2 \in Nat /\ (i - 2) + 1 = i - 1 /\ (i - 2) + 2 = i
            /\ i - 1 \in 1..Len(s) /\ (i - 1) - 1 = i - 2
        BY <1>1, <2>2
      <3>2. g[i - 1] = step[i - 2][g[i - 2]] /\ g[i - 2] \in Seq(Byte)
        BY <1>6, <3>1
      <3>3. step[i - 2][g[i - 2]] = g[i - 2] \o s[i]
        BY <3>1, <3>2 DEF step
      <3> QED BY <2>2, <3>1, <3>2, <3>3
    <2> QED BY <2>1, <2>2
  <1>8. h = Eq(h)
    BY <1>7
  <1>9. FlattenSeq(s) = f[Len(s)]
    BY <1>1, Zenon DEF FlattenSeq, Eq
  <1> HIDE DEF h, Eq
  <1>10. f = Eq(f)
    BY <1>8
  <1> HIDE DEF f
  <1>11. \A i \in 1..Len(s) : f[i] = IF i = 1 THEN s[i] ELSE f[i - 1] \o s[i]
    BY <1>10 DEF Eq
  <1>12. \A i \in 1..Len(s) : f[i] \in Seq(Byte)
    <2> DEFINE T == {i \in Nat : i + 1 \in 1..Len(s) => f[i + 1] \in Seq(Byte)}
    <2>1. 0 \in T
      <3>1. f[1] = s[1]
        BY <1>1, <1>11
      <3> QED BY <1>4, <3>1
    <2>2. ASSUME NEW i \in Nat, i \in T PROVE i + 1 \in T
      <3> SUFFICES ASSUME (i + 1) + 1 \in 1..Len(s) PROVE f[(i + 1) + 1] \in Seq(Byte)
        OBVIOUS
      <3>1. (i + 1) + 1 # 1 /\ ((i + 1) + 1) - 1 = i + 1 /\ i + 1 \in 1..Len(s)
        <4> DEFINE l == Len(s)
        <4>1. l \in Nat /\ (i + 1) + 1 \in 1..l
          BY <1>1
        <4> HIDE DEF l
        <4>2. (i + 1) + 1 # 1 /\ ((i + 1) + 1) - 1 = i + 1 /\ i + 1 \in 1..l
          BY <4>1
        <4> QED BY <4>2 DEF l
      <3>2. f[(i + 1) + 1] = f[i + 1] \o s[(i + 1) + 1]
        BY <1>11, <3>1
      <3>3. f[i + 1] \in Seq(Byte) /\ s[(i + 1) + 1] \in Seq(Byte)
        BY <1>2, <2>2, <3>1
      <3> QED BY <3>2, <3>3, ConcatProperties
    <2> HIDE DEF T
    <2>3. Nat \subseteq T
      BY <2>1, <2>2, Induction
    <2>4. ASSUME NEW i \in 1..Len(s) PROVE f[i] \in Seq(Byte)
      <3>1. i - 1 \in Nat /\ (i - 1) + 1 = i
        BY <1>1
      <3> QED BY <2>3, <3>1 DEF T
    <2> QED BY <2>4
  <1>13. f \in [1..Len(s) -> Seq(Byte)]
    <2>1. f = [i \in 1..Len(s) |-> f[i]]
      BY <1>10 DEF Eq
    <2> QED BY <1>12, <2>1
  <1> QED BY <1>9, <1>11, <1>13 DEF IsFlat

LEMMA FlattenEmpty == FlattenSeq(<<>>) = <<>>
  BY EmptySeq DEF FlattenSeq

LEMMA FlattenAppend ==
    ASSUME NEW s \in Seq(Seq(Byte)), NEW x \in Seq(Byte),
           FlattenSeq(s) \in Seq(Byte)
    PROVE  /\ FlattenSeq(Append(s, x)) = FlattenSeq(s) \o x
           /\ FlattenSeq(Append(s, x)) \in Seq(Byte)
  <1> DEFINE t == Append(s, x)
             n == Len(s)
  <1>1. /\ t \in Seq(Seq(Byte)) /\ t # <<>> /\ Len(t) = n + 1 /\ t[n + 1] = x
        /\ \A i \in 1..n : t[i] = s[i]
    BY AppendProperties
  <1>2. n \in Nat
    BY LenProperties
  <1>3. PICK g : IsFlat(t, g) /\ FlattenSeq(t) = g[Len(t)]
    BY <1>1, FlattenDef
  <1> HIDE DEF t, n
  <1>4. n + 1 \in 1..n + 1 /\ (n + 1 = 1 <=> n = 0) /\ (n + 1) - 1 = n
    BY <1>2
  <1>5. FlattenSeq(t) = IF n = 0 THEN x ELSE g[n] \o x
    BY <1>1, <1>3, <1>4 DEF IsFlat
  <1>6. CASE n = 0
    <2>1. s = <<>>
      BY <1>6, EmptySeq DEF n
    <2>2. FlattenSeq(s) = <<>>
      BY <2>1, FlattenEmpty
    <2>3. <<>> \o x = x
      BY ConcatEmptySeq
    <2> QED BY <1>5, <1>6, <2>2, <2>3 DEF t
  <1>7. CASE n # 0
    <2>1. s # <<>>
      BY <1>7 DEF n
    <2>2. PICK f : IsFlat(s, f) /\ FlattenSeq(s) = f[n]
      BY <2>1, FlattenDef DEF n
    <2> DEFINE T == {i \in Nat : i + 1 \in 1..n => f[i + 1] = g[i + 1]}
    <2>3. 0 \in T
      <3>1. CASE 1 \in 1..n
        <4>1. 1 \in 1..n + 1
          BY <1>2
        <4>2. g[1] = t[1]
          BY <1>1, <1>3, <4>1 DEF IsFlat
        <4>3. f[1] = s[1]
          BY <2>2, <3>1 DEF IsFlat, n
        <4> QED BY <1>1, <3>1, <4>2, <4>3
      <3> QED BY <3>1
    <2>4. ASSUME NEW i \in Nat, i \in T PROVE i + 1 \in T
      <3> SUFFICES ASSUME (i + 1) + 1 \in 1..n PROVE f[(i + 1) + 1] = g[(i + 1) + 1]
        OBVIOUS
      <3>1. /\ (i + 1) + 1 # 1 /\ ((i + 1) + 1) - 1 = i + 1 /\ i + 1 \in 1..n
            /\ (i + 1) + 1 \in 1..n + 1
        BY <1>2
      <3>2. f[(i + 1) + 1] = f[i + 1] \o s[(i + 1) + 1]
        BY <2>2, <3>1 DEF IsFlat, n
      <3>3. g[(i + 1) + 1] = g[i + 1] \o t[(i + 1) + 1]
        BY <1>1, <1>3, <3>1 DEF IsFlat
      <3> QED BY <1>1, <2>4, <3>1, <3>2, <3>3
    <2> HIDE DEF T
    <2>5. Nat \subseteq T
      BY <2>3, <2>4, Induction
    <2>6. f[n] = g[n]
      <3>1. n - 1 \in Nat /\ (n - 1) + 1 = n /\ n \in 1..n
        BY <1>2, <1>7
      <3> QED BY <2>5, <3>1 DEF T
    <2> QED BY <1>5, <1>7, <2>2, <2>6 DEF t
  <1>8. FlattenSeq(s) \o x \in Seq(Byte)
    BY ConcatProperties
  <1> QED BY <1>6, <1>7, <1>8 DEF t

-----------------------------------------------------------------------------
(* Values that are put and taken one after the other.                      *)

(* Concatenation, kept closed: the provers do better without its elements. *)
Join(u, v) == u \o v

LEMMA JoinType ==
    ASSUME NEW u \in Seq(Byte), NEW v \in Seq(Byte)
    PROVE  Join(u, v) \in Seq(Byte)
  BY ConcatProperties DEF Join

LEMMA JoinIs ==
    ASSUME NEW u \in Seq(Byte), NEW v \in Seq(Byte)
    PROVE  /\ Len(Join(u, v)) = Len(u) + Len(v)
           /\ \A i \in 1..Len(u) : Join(u, v)[i] = u[i]
           /\ \A i \in 1..Len(v) : Join(u, v)[Len(u) + i] = v[i]
  BY ConcatProperties DEF Join

LEMMA JoinThree ==
    ASSUME NEW u \in Seq(Byte), NEW v \in Seq(Byte), NEW z \in Seq(Byte)
    PROVE  Join(Join(u, v), z) = Join(u, Join(v, z))
  BY ConcatAssociative DEF Join

LEMMA JoinEmpty ==
    ASSUME NEW v \in Seq(Byte)
    PROVE  Join(<<>>, v) = v /\ Join(v, <<>>) = v
  BY ConcatEmptySeq DEF Join

PutMany(put, q) == FlattenSeq([i \in DOMAIN q |-> put[q[i]]])

LEMMA PutManyEmpty == ASSUME NEW put PROVE PutMany(put, <<>>) = <<>>
  <1>1. DOMAIN <<>> = {}
    BY EmptySeq, LenProperties
  <1>2. [i \in DOMAIN <<>> |-> put[<<>>[i]]] = <<>>
    BY <1>1
  <1> QED BY <1>2, FlattenEmpty DEF PutMany

LEMMA PutManyAppend ==
    ASSUME NEW X, NEW put \in [X -> Seq(Byte)], NEW q \in Seq(X), NEW x \in X,
           PutMany(put, q) \in Seq(Byte)
    PROVE  /\ PutMany(put, Append(q, x)) = Join(PutMany(put, q), put[x])
           /\ PutMany(put, Append(q, x)) \in Seq(Byte)
  <1> DEFINE s == [i \in DOMAIN q |-> put[q[i]]]
             t == [i \in DOMAIN Append(q, x) |-> put[Append(q, x)[i]]]
  <1>1. /\ Len(q) \in Nat /\ DOMAIN q = 1..Len(q)
        /\ \A i \in 1..Len(q) : q[i] \in X
    BY LenProperties, ElementOfSeq
  <1>2. /\ Append(q, x) \in Seq(X) /\ DOMAIN Append(q, x) = 1..Len(q) + 1
        /\ \A i \in 1..Len(q) : Append(q, x)[i] = q[i]
        /\ Append(q, x)[Len(q) + 1] = x
    BY AppendProperties, LenProperties
  <1>3. s \in [1..Len(q) -> Seq(Byte)]
    BY <1>1
  <1>4. s \in Seq(Seq(Byte)) /\ Len(s) = Len(q)
    BY <1>1, <1>3, SeqDef
  <1>5. t \in [1..Len(q) + 1 -> Seq(Byte)]
    <2>1. \A i \in 1..Len(q) + 1 : Append(q, x)[i] \in X
      BY <1>1, <1>2
    <2> QED BY <1>2, <2>1
  <1>6. t \in Seq(Seq(Byte)) /\ Len(t) = Len(q) + 1
    BY <1>1, <1>5, SeqDef
  <1>7. /\ Append(s, put[x]) \in Seq(Seq(Byte)) /\ Len(Append(s, put[x])) = Len(q) + 1
        /\ \A i \in 1..Len(q) : Append(s, put[x])[i] = s[i]
        /\ Append(s, put[x])[Len(q) + 1] = put[x]
    BY <1>4, AppendProperties
  <1>8. ASSUME NEW i \in 1..Len(q) + 1 PROVE t[i] = Append(s, put[x])[i]
    <2>1. CASE i = Len(q) + 1
      <3>1. t[i] = put[x]
        BY <1>2, <2>1
      <3> QED BY <1>7, <2>1, <3>1
    <2>2. CASE i # Len(q) + 1
      <3>1. i \in 1..Len(q)
        BY <1>1, <2>2
      <3>2. t[i] = put[q[i]] /\ s[i] = put[q[i]]
        BY <1>1, <1>2, <3>1
      <3> QED BY <1>7, <3>1, <3>2
    <2> QED BY <2>1, <2>2
  <1> HIDE DEF s, t
  <1>9. t = Append(s, put[x])
    BY <1>6, <1>7, <1>8, SeqEqual
  <1> QED BY <1>4, <1>9, FlattenAppend DEF PutMany, s, t, Join

(* What take reads from any bytes is in X, and is what put makes of it.    *)
Codec(X, put, take) ==
    /\ put \in [X -> Seq(Byte)]
    /\ \A x \in X, r \in Seq(Byte) : take[Join(put[x], r)] = {<<x, r>>}
    /\ \A b \in Seq(Byte) : \A o \in take[b] :
         \E x \in X, r \in Seq(Byte) : o = <<x, r>> /\ b = Join(put[x], r)

Outcomes(X) == SUBSET (X \X Seq(Byte))

(* One turn of the loop of TakeMany.                                       *)
Turn(take, S) ==
    UNION {{<<Append(q[1], r[1]), r[2]>> : r \in take[q[2]]} : q \in S}

LEMMA TurnType ==
    ASSUME NEW X, NEW put, NEW take, Codec(X, put, take),
           NEW S \in Outcomes(Seq(X))
    PROVE  Turn(take, S) \in Outcomes(Seq(X))
  <1> SUFFICES ASSUME NEW q \in S, NEW r \in take[q[2]]
               PROVE  <<Append(q[1], r[1]), r[2]>> \in Seq(X) \X Seq(Byte)
    BY DEF Turn, Outcomes
  <1>1. q[1] \in Seq(X) /\ q[2] \in Seq(Byte)
    BY DEF Outcomes
  <1>2. PICK x \in X, w \in Seq(Byte) : r = <<x, w>>
    BY <1>1 DEF Codec
  <1>3. Append(q[1], x) \in Seq(X)
    BY <1>1, AppendProperties
  <1> QED BY <1>2, <1>3

IsLoop(take, n, b, f) ==
    /\ f[0] = {<< <<>>, b >>}
    /\ \A k \in 1..n : f[k] = Turn(take, f[k - 1])
    /\ TakeMany(take, n, b) = f[n]

HasLoop(take, n, b) == \E f : IsLoop(take, n, b, f)

LEMMA TakeManyDef ==
    ASSUME NEW X, NEW put, NEW take, Codec(X, put, take),
           NEW n \in Nat, NEW b \in Seq(Byte)
    PROVE  HasLoop(take, n, b)
  <1> DEFINE V == Outcomes(Seq(X))
             b0 == {<< <<>>, b >>}
             step == [k \in Nat |-> [S \in V |-> Turn(take, S)]]
  <1>1. b0 \in V
    <2>1. <<>> \in Seq(X)
      BY EmptySeq
    <2>2. << <<>>, b >> \in Seq(X) \X Seq(Byte)
      BY <2>1
    <2> QED BY <2>2 DEF Outcomes
  <1>2. step \in [Nat -> [V -> V]]
    BY TurnType
  <1> HIDE DEF V, b0, step
  <1>3. HasRun(V, b0, step)
    BY <1>1, <1>2, Recursion
  <1>4. PICK g \in [Nat -> V] : g[0] = b0 /\ \A k \in Nat : g[k + 1] = step[k][g[k]]
    BY <1>3 DEF HasRun
  <1> DEFINE h == [k \in 0..n |-> g[k]]
             Eq(f) == [k \in 0..n |-> IF k = 0 THEN {<< <<>>, b >>}
                         ELSE UNION {{<<Append(q[1], r[1]), r[2]>> : r \in take[q[2]]} :
                                     q \in f[k - 1]}]
             f == CHOOSE f : f = Eq(f)
  <1>5. ASSUME NEW k \in 0..n PROVE h[k] = Eq(h)[k]
    <2>1. CASE k = 0
      BY <1>4, <2>1 DEF b0
    <2>2. CASE k # 0
      <3>1. k - 1 \in Nat /\ (k - 1) + 1 = k /\ k - 1 \in 0..n
        BY <2>2
      <3>2. g[k] = step[k - 1][g[k - 1]] /\ g[k - 1] \in V
        BY <1>4, <3>1
      <3>3. g[k] = Turn(take, g[k - 1])
        BY <3>1, <3>2 DEF step
      <3>4. h[k] = Turn(take, h[k - 1])
        BY <3>1, <3>3
      <3> HIDE DEF h
      <3> QED BY <2>2, <3>4 DEF Turn
    <2> QED BY <2>1, <2>2
  <1>6. h = Eq(h)
    BY <1>5
  <1>7. TakeMany(take, n, b) = f[n]
    BY Zenon DEF TakeMany, Eq
  <1> HIDE DEF h, Eq
  <1>8. f = Eq(f)
    BY <1>6
  <1> HIDE DEF f
  <1>9. f[0] = {<< <<>>, b >>}
    BY <1>8 DEF Eq
  <1>10. ASSUME NEW k \in 1..n PROVE f[k] = Turn(take, f[k - 1])
    <2>1. k \in 0..n /\ k # 0
      OBVIOUS
    <2>2. f[k] = Eq(f)[k]
      BY <1>8
    <2> QED BY <2>1, <2>2 DEF Eq, Turn
  <1> QED BY <1>7, <1>9, <1>10 DEF IsLoop, HasLoop

LEMMA TakeManyZero ==
    ASSUME NEW X, NEW put, NEW take, Codec(X, put, take), NEW b \in Seq(Byte)
    PROVE  TakeMany(take, 0, b) = {<< <<>>, b >>}
  BY TakeManyDef DEF IsLoop, HasLoop

LEMMA TakeManyNext ==
    ASSUME NEW X, NEW put, NEW take, Codec(X, put, take),
           NEW n \in Nat, NEW b \in Seq(Byte)
    PROVE  TakeMany(take, n + 1, b) = Turn(take, TakeMany(take, n, b))
  <1>1. PICK f : IsLoop(take, n, b, f)
    BY TakeManyDef DEF HasLoop
  <1>2. PICK g : IsLoop(take, n + 1, b, g)
    <2>1. n + 1 \in Nat
      OBVIOUS
    <2>2. HasLoop(take, n + 1, b)
      BY <2>1, TakeManyDef
    <2> QED BY <2>2 DEF HasLoop
  <1> DEFINE T == {k \in Nat : k <= n => f[k] = g[k]}
  <1>3. 0 \in T
    BY <1>1, <1>2 DEF IsLoop
  <1>4. ASSUME NEW k \in Nat, k \in T PROVE k + 1 \in T
    <2> SUFFICES ASSUME k + 1 <= n PROVE f[k + 1] = g[k + 1]
      OBVIOUS
    <2>1. k + 1 \in 1..n /\ k + 1 \in 1..n + 1 /\ (k + 1) - 1 = k /\ k <= n
      OBVIOUS
    <2> QED BY <1>1, <1>2, <1>4, <2>1 DEF IsLoop
  <1> HIDE DEF T
  <1>5. Nat \subseteq T
    BY <1>3, <1>4, Induction
  <1>6. f[n] = g[n]
    BY <1>5 DEF T
  <1>7. n + 1 \in 1..n + 1 /\ (n + 1) - 1 = n
    OBVIOUS
  <1> QED BY <1>1, <1>2, <1>6, <1>7 DEF IsLoop

(* A list that was put is taken whole.                                     *)
LEMMA ManyTaken ==
    ASSUME NEW X, NEW put, NEW take, Codec(X, put, take), NEW n \in Nat
    PROVE  \A q \in Seq(X) : Len(q) = n =>
             /\ PutMany(put, q) \in Seq(Byte)
             /\ \A r \in Seq(Byte) :
                  TakeMany(take, n, Join(PutMany(put, q), r)) = {<<q, r>>}
  <1> DEFINE P(k) == \A q \in Seq(X) : Len(q) = k =>
                       /\ PutMany(put, q) \in Seq(Byte)
                       /\ \A r \in Seq(Byte) :
                            TakeMany(take, k, Join(PutMany(put, q), r)) = {<<q, r>>}
             T == {k \in Nat : P(k)}
  <1>1. P(0)
    <2> SUFFICES ASSUME NEW q \in Seq(X), Len(q) = 0
                 PROVE  /\ PutMany(put, q) \in Seq(Byte)
                        /\ \A r \in Seq(Byte) :
                             TakeMany(take, 0, Join(PutMany(put, q), r)) = {<<q, r>>}
      OBVIOUS
    <2>1. q = <<>>
      BY EmptySeq
    <2>2. PutMany(put, q) = <<>>
      BY <2>1, PutManyEmpty
    <2>3. <<>> \in Seq(Byte)
      BY EmptySeq
    <2>4. ASSUME NEW r \in Seq(Byte)
          PROVE  TakeMany(take, 0, Join(PutMany(put, q), r)) = {<<q, r>>}
      <3>1. Join(<<>>, r) = r
        BY JoinEmpty
      <3>2. TakeMany(take, 0, r) = {<< <<>>, r >>}
        BY TakeManyZero
      <3> QED BY <2>1, <2>2, <3>1, <3>2, Zenon
    <2> QED BY <2>2, <2>3, <2>4
  <1>2. ASSUME NEW k \in Nat, P(k) PROVE P(k + 1)
    <2> SUFFICES ASSUME NEW p \in Seq(X), Len(p) = k + 1
                 PROVE  /\ PutMany(put, p) \in Seq(Byte)
                        /\ \A r \in Seq(Byte) :
                             TakeMany(take, k + 1, Join(PutMany(put, p), r)) = {<<p, r>>}
      OBVIOUS
    <2>1. p # <<>>
      OBVIOUS
    <2>2. PICK q \in Seq(X), x \in X : p = Append(q, x)
      BY <2>1, SequenceEmptyOrAppend
    <2>3. Len(q) = k
      <3>1. Len(p) = Len(q) + 1 /\ Len(q) \in Nat
        BY <2>2, AppendProperties, LenProperties
      <3> QED BY <3>1
    <2>4. PutMany(put, q) \in Seq(Byte)
      BY <1>2, <2>3
    <2>5. put \in [X -> Seq(Byte)]
      BY DEF Codec
    <2>6. /\ PutMany(put, p) = Join(PutMany(put, q), put[x])
          /\ PutMany(put, p) \in Seq(Byte)
      BY <2>2, <2>4, <2>5, PutManyAppend
    <2>7. ASSUME NEW r \in Seq(Byte)
          PROVE  TakeMany(take, k + 1, Join(PutMany(put, p), r)) = {<<p, r>>}
      <3> DEFINE b == Join(PutMany(put, p), r)
      <3>1. put[x] \in Seq(Byte)
        BY <2>5
      <3>2. b = Join(PutMany(put, q), Join(put[x], r))
        <4>1. b = Join(Join(PutMany(put, q), put[x]), r)
          BY <2>6, Zenon
        <4> QED BY <2>4, <3>1, <4>1, JoinThree
      <3>3. Join(put[x], r) \in Seq(Byte) /\ b \in Seq(Byte)
        BY <2>6, <3>1, JoinType
      <3>4. TakeMany(take, k, b) = {<<q, Join(put[x], r)>>}
        BY <1>2, <2>3, <3>2, <3>3
      <3>5. TakeMany(take, k + 1, b) = Turn(take, {<<q, Join(put[x], r)>>})
        <4> HIDE DEF b
        <4>1. TakeMany(take, k + 1, b) = Turn(take, TakeMany(take, k, b))
          BY <3>3, TakeManyNext
        <4> QED BY <3>4, <4>1, Zenon
      <3>6. take[Join(put[x], r)] = {<<x, r>>}
        BY DEF Codec
      <3>7. Turn(take, {<<q, Join(put[x], r)>>}) = {<<Append(q, x), r>>}
        <4> DEFINE w == Join(put[x], r)
        <4> HIDE DEF w
        <4>1. take[w] = {<<x, r>>}
          BY <3>6 DEF w
        <4> DEFINE s == <<q, w>>
                   o == <<x, r>>
        <4>2. s[1] = q /\ s[2] = w /\ o[1] = x /\ o[2] = r
          OBVIOUS
        <4> HIDE DEF s, o
        <4>3. Turn(take, {s}) = {<<Append(q, x), r>>}
          <5>1. take[w] = {o}
            BY <4>1 DEF o
          <5>2. Turn(take, {s}) = {<<Append(s[1], z[1]), z[2]>> : z \in take[s[2]]}
            BY Zenon DEF Turn
          <5>3. take[s[2]] = {o}
            BY <4>2, <5>1
          <5>4. {<<Append(s[1], z[1]), z[2]>> : z \in {o}} = {<<Append(s[1], o[1]), o[2]>>}
            BY Zenon
          <5>5. Turn(take, {s}) = {<<Append(s[1], o[1]), o[2]>>}
            BY <5>2, <5>3, <5>4, Zenon
          <5> QED BY <4>2, <5>5, Zenon
        <4>4. Turn(take, {<<q, w>>}) = {<<Append(q, x), r>>}
          BY <4>3 DEF s
        <4> QED BY <4>4 DEF w
      <3> QED BY <2>2, <3>5, <3>7
    <2> QED BY <2>6, <2>7
  <1> HIDE DEF P
  <1>3. 0 \in T /\ \A k \in Nat : k \in T => k + 1 \in T
    BY <1>1, <1>2
  <1> HIDE DEF T
  <1>4. Nat \subseteq T
    BY <1>3, Induction
  <1> QED BY <1>4 DEF T, P

LEMMA OneMorePut ==
    ASSUME NEW X, NEW put, NEW take, Codec(X, put, take),
           NEW q \in Seq(X), NEW w \in Seq(Byte), NEW e \in take[w],
           NEW m \in Seq(Byte), m = PutMany(put, q)
    PROVE  \E p \in Seq(X), r \in Seq(Byte) :
             /\ <<Append(q, e[1]), e[2]>> = <<p, r>> /\ Len(p) = Len(q) + 1
             /\ Join(m, w) = Join(PutMany(put, p), r)
  <1>1. PICK x \in X, r \in Seq(Byte) : e = <<x, r>> /\ w = Join(put[x], r)
    BY DEF Codec
  <1>2. Append(q, x) \in Seq(X) /\ Len(Append(q, x)) = Len(q) + 1
    BY AppendProperties
  <1>3. put \in [X -> Seq(Byte)]
    BY DEF Codec
  <1>4. PutMany(put, Append(q, x)) = Join(m, put[x])
    BY <1>3, PutManyAppend
  <1>5. Join(m, w) = Join(PutMany(put, Append(q, x)), r)
    <2> DEFINE y == put[x]
    <2>1. y \in Seq(Byte)
      BY <1>3
    <2>2. y = put[x] /\ w = Join(y, r) /\ y \in Seq(Byte)
      BY <1>1, <2>1
    <2> HIDE DEF y
    <2>3. Join(Join(m, y), r) = Join(m, Join(y, r))
      BY <2>2, JoinThree
    <2> QED BY <1>4, <2>2, <2>3, Zenon
  <1> QED BY <1>1, <1>2, <1>5

(* A list that was taken is what its bytes were put from.                  *)
LEMMA ManyPut ==
    ASSUME NEW X, NEW put, NEW take, Codec(X, put, take), NEW n \in Nat,
           NEW b \in Seq(Byte), NEW e \in TakeMany(take, n, b)
    PROVE  \E q \in Seq(X), r \in Seq(Byte) :
             e = <<q, r>> /\ Len(q) = n /\ b = Join(PutMany(put, q), r)
  <1> DEFINE P(k) == \A o1 \in TakeMany(take, k, b) :
                       \E q \in Seq(X), r \in Seq(Byte) :
                         o1 = <<q, r>> /\ Len(q) = k /\ b = Join(PutMany(put, q), r)
             T == {k \in Nat : P(k)}
  <1>1. P(0)
    <2>1. TakeMany(take, 0, b) = {<< <<>>, b >>}
      BY TakeManyZero
    <2>2. <<>> \in Seq(X) /\ Len(<<>>) = 0
      BY EmptySeq
    <2>3. b = Join(PutMany(put, <<>>), b)
      BY PutManyEmpty, JoinEmpty
    <2> QED BY <2>1, <2>2, <2>3
  <1>2. ASSUME NEW k \in Nat, P(k) PROVE P(k + 1)
    <2> SUFFICES ASSUME NEW o1 \in TakeMany(take, k + 1, b)
                 PROVE  \E q \in Seq(X), r \in Seq(Byte) :
                          o1 = <<q, r>> /\ Len(q) = k + 1 /\ b = Join(PutMany(put, q), r)
      OBVIOUS
    <2>1. o1 \in Turn(take, TakeMany(take, k, b))
      BY TakeManyNext
    <2>2. PICK o2 \in TakeMany(take, k, b) :
            \E r \in take[o2[2]] : o1 = <<Append(o2[1], r[1]), r[2]>>
      BY <2>1 DEF Turn
    <2>3. PICK q \in Seq(X), w \in Seq(Byte) :
            o2 = <<q, w>> /\ Len(q) = k /\ b = Join(PutMany(put, q), w)
      BY <1>2
    <2>4. PICK a \in take[w] : o1 = <<Append(q, a[1]), a[2]>>
      BY <2>2, <2>3
    <2>5. PutMany(put, q) \in Seq(Byte)
      BY <2>3, ManyTaken
    <2>6. PICK p \in Seq(X), r \in Seq(Byte) :
            /\ <<Append(q, a[1]), a[2]>> = <<p, r>> /\ Len(p) = Len(q) + 1
            /\ Join(PutMany(put, q), w) = Join(PutMany(put, p), r)
      BY <2>5, OneMorePut
    <2> QED BY <2>3, <2>4, <2>6
  <1> HIDE DEF P
  <1>3. 0 \in T /\ \A k \in Nat : k \in T => k + 1 \in T
    BY <1>1, <1>2
  <1> HIDE DEF T
  <1>4. Nat \subseteq T
    BY <1>3, Induction
  <1> QED BY <1>4 DEF T, P

-----------------------------------------------------------------------------
(* The values of the format: each is taken as it was put, and what was     *)
(* taken is the only value whose bytes are there.                          *)

LEMMA TakePut ==
    ASSUME NEW v \in Seq(Byte), NEW r \in Seq(Byte)
    PROVE  Take(Len(v), Join(v, r)) = {<<v, r>>}
  BY SplitConcat DEF Take, Join

LEMMA TakeGives ==
    ASSUME NEW b \in Seq(Byte), NEW n \in Nat, NEW e \in Take(n, b)
    PROVE  \E v \in Seq(Byte), r \in Seq(Byte) :
             e = <<v, r>> /\ Len(v) = n /\ b = Join(v, r)
  <1>1. ~(Len(b) < n) /\ e = Split(b, n)
    BY DEF Take
  <1> QED BY <1>1, SplitJoins DEF Join

LEMMA IntOutcome ==
    ASSUME NEW v \in Seq(Byte), NEW r \in Seq(Byte), Len(v) = Width
    PROVE  TakeInt(Join(v, r)) = {<<Number(v), r>>}
  <1>1. Split(Join(v, r), Width) = <<v, r>> /\ ~(Len(Join(v, r)) < Width)
    BY SplitConcat DEF Join
  <1> DEFINE s == Split(Join(v, r), Width)
  <1>2. TakeInt(Join(v, r)) = {<<Number(s[1]), s[2]>>}
    BY <1>1 DEF TakeInt
  <1>3. s[1] = v /\ s[2] = r
    BY <1>1
  <1> HIDE DEF s
  <1> QED BY <1>2, <1>3

LEMMA IntGives ==
    ASSUME NEW b \in Seq(Byte), NEW e \in TakeInt(b)
    PROVE  \E v \in Seq(Byte), r \in Seq(Byte) :
             e = <<Number(v), r>> /\ Len(v) = Width /\ b = Join(v, r)
  <1>1. ~(Len(b) < Width) /\ e = <<Number(Split(b, Width)[1]), Split(b, Width)[2]>>
    BY DEF TakeInt
  <1>2. PICK v \in Seq(Byte), r \in Seq(Byte) :
          Split(b, Width) = <<v, r>> /\ Len(v) = Width /\ b = v \o r
    BY <1>1, SplitJoins, Sizes
  <1>3. e = <<Number(v), r>>
    BY <1>1, <1>2
  <1> QED BY <1>2, <1>3 DEF Join

LEMMA TakeIntPut ==
    ASSUME NEW n \in 0..Limit - 1, NEW r \in Seq(Byte)
    PROVE  TakeInt(Join(PutInt(n), r)) = {<<n, r>>}
  <1>1. n \in Int
    BY Sizes
  <1> QED BY <1>1, PutIntType, NumberOfInt, IntOutcome

LEMMA TakeIntGives ==
    ASSUME NEW b \in Seq(Byte), NEW e \in TakeInt(b)
    PROVE  \E n \in 0..Limit - 1, r \in Seq(Byte) :
             e = <<n, r>> /\ b = Join(PutInt(n), r)
  <1>1. PICK v \in Seq(Byte), r \in Seq(Byte) :
          e = <<Number(v), r>> /\ Len(v) = Width /\ b = Join(v, r)
    BY IntGives
  <1>2. Number(v) \in 0..Limit - 1 /\ PutInt(Number(v)) = v
    BY <1>1, NumberBound, PutNumber
  <1> QED BY <1>1, <1>2

LEMMA TakeSignedPut ==
    ASSUME NEW n \in Codes, NEW r \in Seq(Byte)
    PROVE  TakeSigned(Join(PutInt(n), r)) = {<<n, r>>}
  <1>1. n \in Int /\ -Limit <= 2 * n /\ 2 * n < Limit
    BY DEF Codes
  <1>2. TakeInt(Join(PutInt(n), r)) = {<<Number(PutInt(n)), r>>}
    BY <1>1, PutIntType, IntOutcome
  <1>3. Signed(Number(PutInt(n))) = n
    <2>1. CASE n >= 0
      <3>1. Number(PutInt(n)) = n
        BY <1>1, <2>1, NumberOfInt, Sizes
      <3> QED BY <1>1, <3>1 DEF Signed
    <2>2. CASE ~(n >= 0)
      <3>1. Number(PutInt(n)) = n + Limit
        BY <1>1, <2>2, NumberOfInt, Sizes
      <3> QED BY <1>1, <3>1, Sizes DEF Signed
    <2> QED BY <2>1, <2>2
  <1> DEFINE m == Number(PutInt(n))
             o == <<m, r>>
  <1>4. TakeSigned(Join(PutInt(n), r)) = {<<Signed(z[1]), z[2]>> : z \in {o}}
    BY <1>2, Zenon DEF TakeSigned
  <1>5. o[1] = m /\ o[2] = r /\ Signed(m) = n
    BY <1>3
  <1> HIDE DEF o, m
  <1>6. {<<Signed(z[1]), z[2]>> : z \in {o}} = {<<Signed(o[1]), o[2]>>}
    BY Zenon
  <1> QED BY <1>4, <1>5, <1>6, Zenon

LEMMA TakeSignedGives ==
    ASSUME NEW b \in Seq(Byte), NEW e \in TakeSigned(b)
    PROVE  \E n \in Codes, r \in Seq(Byte) :
             e = <<n, r>> /\ b = Join(PutInt(n), r)
  <1>1. PICK z \in TakeInt(b) : e = <<Signed(z[1]), z[2]>>
    BY DEF TakeSigned
  <1>2. PICK v \in Seq(Byte), r \in Seq(Byte) :
          z = <<Number(v), r>> /\ Len(v) = Width /\ b = Join(v, r)
    BY IntGives
  <1>3. e = <<Signed(Number(v)), r>>
    BY <1>1, <1>2
  <1>4. /\ Number(v) \in 0..Limit - 1 /\ PutInt(Number(v)) = v
        /\ PutInt(Number(v) - Limit) = v
    BY <1>2, NumberBound, PutNumber
  <1>5. Signed(Number(v)) \in Codes /\ PutInt(Signed(Number(v))) = v
    BY <1>4, Sizes DEF Signed, Codes
  <1> QED BY <1>2, <1>3, <1>5

LEMMA PutBytesJoin ==
    ASSUME NEW v \in Bytes
    PROVE  /\ v \in Seq(Byte) /\ Len(v) \in 0..Limit - 1
           /\ PutBytes(v) = Join(PutInt(Len(v)), v) /\ PutBytes(v) \in Seq(Byte)
  <1>1. v \in Seq(Byte) /\ Len(v) \in 0..Limit - 1
    BY Sizes DEF Bytes
  <1>2. PutInt(Len(v)) \in Seq(Byte)
    BY <1>1, PutIntType
  <1> QED BY <1>1, <1>2, JoinType DEF PutBytes, Join

LEMMA TakeBytesPut ==
    ASSUME NEW v \in Bytes, NEW r \in Seq(Byte)
    PROVE  TakeBytes(Join(PutBytes(v), r)) = {<<v, r>>}
  <1>1. /\ v \in Seq(Byte) /\ Len(v) \in 0..Limit - 1
        /\ PutBytes(v) = Join(PutInt(Len(v)), v) /\ PutInt(Len(v)) \in Seq(Byte)
    BY PutBytesJoin, PutIntType
  <1>2. Join(PutBytes(v), r) = Join(PutInt(Len(v)), Join(v, r)) /\ Join(v, r) \in Seq(Byte)
    BY <1>1, JoinThree, JoinType
  <1>3. TakeInt(Join(PutBytes(v), r)) = {<<Len(v), Join(v, r)>>}
    BY <1>1, <1>2, TakeIntPut
  <1>4. TakeBytes(Join(PutBytes(v), r)) = Take(Len(v), Join(v, r))
    BY <1>3 DEF TakeBytes
  <1> QED BY <1>1, <1>4, TakePut

LEMMA TakeBytesGives ==
    ASSUME NEW b \in Seq(Byte), NEW e \in TakeBytes(b)
    PROVE  \E v \in Bytes, r \in Seq(Byte) :
             e = <<v, r>> /\ b = Join(PutBytes(v), r)
  <1>1. PICK z \in TakeInt(b) : e \in Take(z[1], z[2])
    BY DEF TakeBytes
  <1>2. PICK n \in 0..Limit - 1, w \in Seq(Byte) :
          z = <<n, w>> /\ b = Join(PutInt(n), w)
    BY TakeIntGives
  <1>3. n \in Nat /\ e \in Take(n, w)
    BY <1>1, <1>2, Sizes
  <1>4. PICK v \in Seq(Byte), r \in Seq(Byte) :
          e = <<v, r>> /\ Len(v) = n /\ w = Join(v, r)
    BY <1>3, TakeGives
  <1>5. v \in Bytes
    BY <1>2, <1>4, Sizes DEF Bytes
  <1>6. b = Join(PutBytes(v), r)
    <2>1. PutBytes(v) = Join(PutInt(n), v) /\ PutInt(n) \in Seq(Byte)
      BY <1>3, <1>4, <1>5, PutBytesJoin, PutIntType
    <2> QED BY <1>2, <1>4, <2>1, JoinThree
  <1> QED BY <1>4, <1>5, <1>6

LEMMA TakeStringPut ==
    ASSUME NEW v \in Texts, NEW r \in Seq(Byte)
    PROVE  TakeString(Join(PutBytes(v), r)) = {<<v, r>>}
  <1>1. v \in Bytes /\ IsText(v)
    BY DEF Texts
  <1>2. TakeBytes(Join(PutBytes(v), r)) = {<<v, r>>}
    BY <1>1, TakeBytesPut
  <1> DEFINE o == <<v, r>>
  <1>3. o[1] = v /\ TakeBytes(Join(PutBytes(v), r)) = {o}
    BY <1>2
  <1> HIDE DEF o
  <1>4. TakeString(Join(PutBytes(v), r)) = {o}
    BY <1>1, <1>3 DEF TakeString
  <1> QED BY <1>4 DEF o

LEMMA TakeStringGives ==
    ASSUME NEW b \in Seq(Byte), NEW e \in TakeString(b)
    PROVE  \E v \in Texts, r \in Seq(Byte) :
             e = <<v, r>> /\ b = Join(PutBytes(v), r)
  <1>1. e \in TakeBytes(b) /\ IsText(e[1])
    BY DEF TakeString
  <1>2. PICK v \in Bytes, r \in Seq(Byte) :
          e = <<v, r>> /\ b = Join(PutBytes(v), r)
    BY <1>1, TakeBytesGives
  <1>3. v \in Texts
    BY <1>1, <1>2 DEF Texts
  <1> QED BY <1>2, <1>3

TextPutter == [x \in Texts |-> PutBytes(x)]

LEMMA TextPutterType ==
    /\ TextPutter \in [Texts -> Seq(Byte)]
    /\ \A x \in Texts : TextPutter[x] = PutBytes(x)
  <1>1. \A x \in Texts : PutBytes(x) \in Seq(Byte)
    BY PutBytesJoin DEF Texts
  <1> QED BY <1>1 DEF TextPutter

LEMMA TextCodec == Codec(Texts, TextPutter, StringTaker)
  <1>1. ASSUME NEW x \in Texts, NEW r \in Seq(Byte)
        PROVE  StringTaker[Join(TextPutter[x], r)] = {<<x, r>>}
    <2>1. TextPutter[x] = PutBytes(x) /\ Join(TextPutter[x], r) \in Seq(Byte)
      BY TextPutterType, JoinType
    <2> QED BY <2>1, TakeStringPut DEF StringTaker
  <1>2. ASSUME NEW b \in Seq(Byte), NEW e \in StringTaker[b]
        PROVE  \E x \in Texts, r \in Seq(Byte) :
                 e = <<x, r>> /\ b = Join(TextPutter[x], r)
    <2>1. e \in TakeString(b)
      BY DEF StringTaker
    <2> QED BY <2>1, TakeStringGives, TextPutterType
  <1> QED BY <1>1, <1>2, TextPutterType DEF Codec

LEMMA PutVariableJoin ==
    ASSUME NEW x \in Variables
    PROVE  /\ x.name \in Texts /\ x.value \in Texts
           /\ PutBytes(x.name) \in Seq(Byte) /\ PutBytes(x.value) \in Seq(Byte)
           /\ PutVariable(x) = Join(PutBytes(x.name), PutBytes(x.value))
           /\ PutVariable(x) \in Seq(Byte)
  <1>1. x.name \in Texts /\ x.value \in Texts
    BY DEF Variables
  <1>2. PutBytes(x.name) \in Seq(Byte) /\ PutBytes(x.value) \in Seq(Byte)
    BY <1>1, PutBytesJoin DEF Texts
  <1>3. PutVariable(x) = Join(PutBytes(x.name), PutBytes(x.value))
    BY Zenon DEF PutVariable, Join
  <1> QED BY <1>1, <1>2, <1>3, JoinType

IsVariableAt(e, n, z) ==
    z \in TakeString(n[2]) /\ e = <<[name |-> n[1], value |-> z[1]], z[2]>>

LEMMA TakeVariableDef ==
    ASSUME NEW b
    PROVE  \A e : e \in TakeVariable(b) <=>
                    \E n \in TakeString(b) : \E z : IsVariableAt(e, n, z)
  BY DEF TakeVariable, IsVariableAt

LEMMA TakeVariablePut ==
    ASSUME NEW x \in Variables, NEW r \in Seq(Byte)
    PROVE  TakeVariable(Join(PutVariable(x), r)) = {<<x, r>>}
  <1> DEFINE w == Join(PutBytes(x.value), r)
             b == Join(PutVariable(x), r)
  <1>1. /\ x.name \in Texts /\ x.value \in Texts /\ w \in Seq(Byte)
        /\ b = Join(PutBytes(x.name), w)
    BY PutVariableJoin, JoinThree, JoinType
  <1>2. TakeString(w) = {<<x.value, r>>}
    BY <1>1, TakeStringPut
  <1> HIDE DEF w, b
  <1>3. TakeString(b) = {<<x.name, w>>}
    BY <1>1, TakeStringPut
  <1>4. x = [name |-> x.name, value |-> x.value]
    BY DEF Variables
  <1> DEFINE n == <<x.name, w>>
             z == <<x.value, r>>
  <1>5. n[1] = x.name /\ n[2] = w /\ z[1] = x.value /\ z[2] = r
    OBVIOUS
  <1>6. TakeString(b) = {n} /\ TakeString(n[2]) = {z}
    BY <1>2, <1>3, <1>5
  <1> HIDE DEF n, z
  <1>7. \A e : e \in TakeVariable(b) <=> e = <<x, r>>
    <2>1. <<[name |-> n[1], value |-> z[1]], z[2]>> = <<x, r>>
      BY <1>4, <1>5, Zenon
    <2>2. ASSUME NEW e, e \in TakeVariable(b) PROVE e = <<x, r>>
      <3>1. PICK m, y : m \in TakeString(b) /\ IsVariableAt(e, m, y)
        BY <2>2, TakeVariableDef
      <3>2. m = n /\ y = z
        BY <1>6, <3>1 DEF IsVariableAt
      <3> QED BY <2>1, <3>1, <3>2, Zenon DEF IsVariableAt
    <2>3. ASSUME NEW e, e = <<x, r>> PROVE e \in TakeVariable(b)
      <3>1. IsVariableAt(e, n, z) /\ n \in TakeString(b)
        <4>1. e = <<[name |-> n[1], value |-> z[1]], z[2]>>
          BY <2>1, <2>3, Zenon
        <4>2. z \in TakeString(n[2]) /\ n \in TakeString(b)
          BY <1>6
        <4> QED BY <4>1, <4>2, Zenon DEF IsVariableAt
      <3> QED BY <3>1, TakeVariableDef
    <2> QED BY <2>2, <2>3
  <1>8. TakeVariable(b) = {<<x, r>>}
    BY <1>7, Zenon
  <1> QED BY <1>8 DEF b

LEMMA TakeVariableGives ==
    ASSUME NEW b \in Seq(Byte), NEW e \in TakeVariable(b)
    PROVE  \E x \in Variables, r \in Seq(Byte) :
             e = <<x, r>> /\ b = Join(PutVariable(x), r)
  <1>1. PICK n, z : n \in TakeString(b) /\ IsVariableAt(e, n, z)
    BY TakeVariableDef
  <1>2. PICK u \in Texts, w \in Seq(Byte) : n = <<u, w>> /\ b = Join(PutBytes(u), w)
    BY <1>1, TakeStringGives
  <1>3. z \in TakeString(w) /\ e = <<[name |-> u, value |-> z[1]], z[2]>>
    BY <1>1, <1>2 DEF IsVariableAt
  <1>4. PICK v \in Texts, r \in Seq(Byte) : z = <<v, r>> /\ w = Join(PutBytes(v), r)
    BY <1>3, TakeStringGives
  <1> DEFINE x == [name |-> u, value |-> v]
  <1>5. x \in Variables /\ x.name = u /\ x.value = v /\ e = <<x, r>>
    BY <1>3, <1>4 DEF Variables
  <1> HIDE DEF x
  <1>6. b = Join(PutVariable(x), r)
    BY <1>2, <1>4, <1>5, PutVariableJoin, JoinThree
  <1> QED BY <1>5, <1>6

VariablePutter == [x \in Variables |-> PutVariable(x)]

LEMMA VariablePutterType ==
    /\ VariablePutter \in [Variables -> Seq(Byte)]
    /\ \A x \in Variables : VariablePutter[x] = PutVariable(x)
  BY PutVariableJoin DEF VariablePutter

LEMMA VariableCodec == Codec(Variables, VariablePutter, VariableTaker)
  <1>1. ASSUME NEW x \in Variables, NEW r \in Seq(Byte)
        PROVE  VariableTaker[Join(VariablePutter[x], r)] = {<<x, r>>}
    <2>1. /\ VariablePutter[x] = PutVariable(x)
          /\ Join(VariablePutter[x], r) \in Seq(Byte)
      BY VariablePutterType, JoinType
    <2> QED BY <2>1, TakeVariablePut DEF VariableTaker
  <1>2. ASSUME NEW b \in Seq(Byte), NEW e \in VariableTaker[b]
        PROVE  \E x \in Variables, r \in Seq(Byte) :
                 e = <<x, r>> /\ b = Join(VariablePutter[x], r)
    <2>1. e \in TakeVariable(b)
      BY DEF VariableTaker
    <2> QED BY <2>1, TakeVariableGives, VariablePutterType
  <1> QED BY <1>1, <1>2, VariablePutterType DEF Codec

-----------------------------------------------------------------------------
(* Lists with their length in front.                                       *)

PutList(put, q) == Join(PutInt(Len(q)), PutMany(put, q))
TakeList(take, b) == UNION {TakeMany(take, r[1], r[2]) : r \in TakeInt(b)}

LEMMA ListLength ==
    ASSUME NEW X, NEW q \in Lists(X)
    PROVE  /\ q \in Seq(X) /\ Len(q) \in 0..Limit - 1 /\ Len(q) \in Nat
           /\ PutInt(Len(q)) \in Seq(Byte)
  <1>1. q \in Seq(X) /\ Len(q) \in Nat /\ Len(q) < Limit
    BY LenProperties DEF Lists
  <1>2. Len(q) \in 0..Limit - 1 /\ Len(q) \in Int
    BY <1>1, Sizes
  <1> QED BY <1>1, <1>2, PutIntType

LEMMA ListTaken ==
    ASSUME NEW X, NEW put, NEW take, Codec(X, put, take),
           NEW q \in Lists(X), NEW r \in Seq(Byte)
    PROVE  /\ PutList(put, q) \in Seq(Byte)
           /\ TakeList(take, Join(PutList(put, q), r)) = {<<q, r>>}
  <1> DEFINE w == Join(PutMany(put, q), r)
             b == Join(PutList(put, q), r)
  <1>1. /\ q \in Seq(X) /\ Len(q) \in 0..Limit - 1 /\ Len(q) \in Nat
        /\ PutInt(Len(q)) \in Seq(Byte)
    BY ListLength
  <1>2. PutMany(put, q) \in Seq(Byte) /\ TakeMany(take, Len(q), w) = {<<q, r>>}
    BY <1>1, ManyTaken
  <1>3. PutList(put, q) \in Seq(Byte) /\ w \in Seq(Byte)
    BY <1>1, <1>2, JoinType DEF PutList
  <1>4. b = Join(PutInt(Len(q)), w)
    BY <1>1, <1>2, JoinThree DEF PutList
  <1> HIDE DEF w, b
  <1>5. TakeInt(b) = {<<Len(q), w>>}
    BY <1>1, <1>3, <1>4, TakeIntPut
  <1> DEFINE o == <<Len(q), w>>
  <1>6. o[1] = Len(q) /\ o[2] = w /\ TakeInt(b) = {o}
    BY <1>5
  <1> HIDE DEF o
  <1>7. TakeList(take, b) = TakeMany(take, o[1], o[2])
    BY <1>6 DEF TakeList
  <1>8. TakeList(take, b) = {<<q, r>>}
    BY <1>2, <1>6, <1>7, Zenon
  <1> QED BY <1>3, <1>8 DEF b

LEMMA ListGives ==
    ASSUME NEW X, NEW put, NEW take, Codec(X, put, take),
           NEW b \in Seq(Byte), NEW e \in TakeList(take, b)
    PROVE  \E q \in Lists(X), r \in Seq(Byte) :
             e = <<q, r>> /\ b = Join(PutList(put, q), r)
  <1>1. PICK z \in TakeInt(b) : e \in TakeMany(take, z[1], z[2])
    BY DEF TakeList
  <1>2. PICK n \in 0..Limit - 1, w \in Seq(Byte) :
          z = <<n, w>> /\ b = Join(PutInt(n), w)
    BY TakeIntGives
  <1>3. n \in Nat /\ e \in TakeMany(take, n, w)
    BY <1>1, <1>2, Sizes
  <1>4. PICK q \in Seq(X), r \in Seq(Byte) :
          e = <<q, r>> /\ Len(q) = n /\ w = Join(PutMany(put, q), r)
    BY <1>3, ManyPut
  <1>5. q \in Lists(X)
    BY <1>2, <1>4, Sizes DEF Lists
  <1>6. PutInt(n) \in Seq(Byte) /\ PutMany(put, q) \in Seq(Byte)
    BY <1>3, <1>4, PutIntType, ManyTaken
  <1>7. b = Join(PutList(put, q), r)
    BY <1>2, <1>4, <1>6, JoinThree DEF PutList
  <1> QED BY <1>4, <1>5, <1>7

(* The lists of an exec frame.                                             *)
LEMMA PutStringsMany ==
    ASSUME NEW q \in Seq(Texts)
    PROVE  PutStrings(q) = PutMany(TextPutter, q)
  <1>1. \A i \in DOMAIN q : TextPutter[q[i]] = PutBytes(q[i])
    BY ElementOfSeq, LenProperties, TextPutterType
  <1>2. [i \in DOMAIN q |-> TextPutter[q[i]]] = [i \in DOMAIN q |-> PutBytes(q[i])]
    BY <1>1, Zenon
  <1> QED BY <1>2, Zenon DEF PutStrings, PutMany

LEMMA PutCommandList ==
    ASSUME NEW q \in Lists(Texts)
    PROVE  PutCommand(q) = PutList(TextPutter, q)
  BY PutStringsMany, ListLength, Zenon DEF PutCommand, PutList, Join

LEMMA PutEnvList ==
    ASSUME NEW q \in Lists(Variables)
    PROVE  PutEnv(q) = PutList(VariablePutter, q)
  <1>1. \A i \in DOMAIN q : VariablePutter[q[i]] = PutVariable(q[i])
    BY ListLength, ElementOfSeq, LenProperties, VariablePutterType
  <1>2. [i \in DOMAIN q |-> VariablePutter[q[i]]] = [i \in DOMAIN q |-> PutVariable(q[i])]
    BY <1>1, Zenon
  <1> QED BY <1>2, Zenon DEF PutEnv, PutList, PutMany, Join

LEMMA TakeLists ==
    ASSUME NEW b
    PROVE  /\ TakeCommand(b) = TakeList(StringTaker, b)
           /\ TakeEnv(b) = TakeList(VariableTaker, b)
  BY Zenon DEF TakeCommand, TakeEnv, TakeList, TakeStrings

(* The three strings of the metadata have no count.                        *)
Metadata == {m \in Seq(Texts) : Len(m) = 3}

LEMMA MetadataTaken ==
    ASSUME NEW m \in Metadata, NEW r \in Seq(Byte)
    PROVE  /\ PutStrings(m) \in Seq(Byte)
           /\ TakeStrings(3, Join(PutStrings(m), r)) = {<<m, r>>}
  <1>1. m \in Seq(Texts) /\ Len(m) = 3 /\ 3 \in Nat
    BY DEF Metadata
  <1>2. PutStrings(m) = PutMany(TextPutter, m)
    BY <1>1, PutStringsMany
  <1> DEFINE n == 3
  <1>3. n = 3
    OBVIOUS
  <1>n. n \in Nat
    OBVIOUS
  <1>l. Len(m) = n
    BY <1>1
  <1> HIDE DEF n
  <1>4. /\ PutMany(TextPutter, m) \in Seq(Byte)
        /\ TakeMany(StringTaker, n, Join(PutMany(TextPutter, m), r)) = {<<m, r>>}
    BY <1>1, <1>n, <1>l, TextCodec, ManyTaken
  <1> QED BY <1>2, <1>3, <1>4, Zenon DEF TakeStrings

LEMMA MetadataGives ==
    ASSUME NEW b \in Seq(Byte), NEW e \in TakeStrings(3, b)
    PROVE  \E m \in Metadata, r \in Seq(Byte) :
             e = <<m, r>> /\ b = Join(PutStrings(m), r)
  <1> DEFINE n == 3
  <1>1. n = 3
    OBVIOUS
  <1>n. n \in Nat
    OBVIOUS
  <1> HIDE DEF n
  <1>2. e \in TakeMany(StringTaker, n, b)
    BY <1>1, Zenon DEF TakeStrings
  <1>3. PICK m \in Seq(Texts), r \in Seq(Byte) :
          e = <<m, r>> /\ Len(m) = n /\ b = Join(PutMany(TextPutter, m), r)
    BY <1>n, <1>2, TextCodec, ManyPut
  <1> QED BY <1>1, <1>3, PutStringsMany DEF Metadata

PutExec(c, v, m) == Join(PutCommand(c), Join(PutEnv(v), PutStrings(m)))

IsExecAt(e, c, v, m) ==
    /\ v \in TakeEnv(c[2]) /\ m \in TakeStrings(3, v[2])
    /\ e = <<Exec(c[1], v[1], m[1]), m[2]>>

LEMMA TakeExecDef ==
    ASSUME NEW b
    PROVE  \A e : e \in TakeExec(b) <=>
                    \E c \in TakeCommand(b) : \E v, m : IsExecAt(e, c, v, m)
  BY DEF TakeExec, IsExecAt

LEMMA CommandTaken ==
    ASSUME NEW c \in Lists(Texts), NEW r \in Seq(Byte)
    PROVE  /\ PutCommand(c) \in Seq(Byte)
           /\ TakeCommand(Join(PutCommand(c), r)) = {<<c, r>>}
  BY PutCommandList, TakeLists, TextCodec, ListTaken

LEMMA EnvTaken ==
    ASSUME NEW v \in Lists(Variables), NEW r \in Seq(Byte)
    PROVE  /\ PutEnv(v) \in Seq(Byte)
           /\ TakeEnv(Join(PutEnv(v), r)) = {<<v, r>>}
  BY PutEnvList, TakeLists, VariableCodec, ListTaken

LEMMA ExecTaken ==
    ASSUME NEW c \in Lists(Texts), NEW v \in Lists(Variables), NEW m \in Metadata,
           NEW r \in Seq(Byte)
    PROVE  /\ PutExec(c, v, m) \in Seq(Byte)
           /\ TakeExec(Join(PutExec(c, v, m), r)) = {<<Exec(c, v, m), r>>}
  <1> DEFINE w2 == Join(PutStrings(m), r)
             w1 == Join(PutEnv(v), w2)
             b == Join(PutExec(c, v, m), r)
             x == Exec(c, v, m)
  <1>1. /\ PutCommand(c) \in Seq(Byte) /\ PutEnv(v) \in Seq(Byte)
        /\ PutStrings(m) \in Seq(Byte)
    BY CommandTaken, EnvTaken, MetadataTaken
  <1>2. w2 \in Seq(Byte) /\ w1 \in Seq(Byte) /\ PutExec(c, v, m) \in Seq(Byte)
    BY <1>1, JoinType DEF PutExec
  <1>3. b = Join(PutCommand(c), w1)
    <2>1. Join(PutEnv(v), PutStrings(m)) \in Seq(Byte)
      BY <1>1, JoinType
    <2>2. b = Join(PutCommand(c), Join(Join(PutEnv(v), PutStrings(m)), r))
      BY <1>1, <2>1, JoinThree DEF PutExec
    <2> QED BY <1>1, <2>2, JoinThree
  <1>4. TakeStrings(3, w2) = {<<m, r>>}
    BY MetadataTaken
  <1> HIDE DEF w2
  <1>5. TakeEnv(w1) = {<<v, w2>>}
    BY <1>2, EnvTaken
  <1> HIDE DEF w1, b
  <1>6. TakeCommand(b) = {<<c, w1>>}
    BY <1>2, <1>3, CommandTaken
  <1> DEFINE oc == <<c, w1>>
             ov == <<v, w2>>
             om == <<m, r>>
  <1>7. /\ oc[1] = c /\ oc[2] = w1 /\ ov[1] = v /\ ov[2] = w2
        /\ om[1] = m /\ om[2] = r
    OBVIOUS
  <1>8. TakeCommand(b) = {oc} /\ TakeEnv(w1) = {ov} /\ TakeStrings(3, w2) = {om}
    BY <1>4, <1>5, <1>6
  <1> HIDE DEF oc, ov, om, x
  <1>9. <<Exec(oc[1], ov[1], om[1]), om[2]>> = <<x, r>>
    BY <1>7, Zenon DEF x
  <1>10. ASSUME NEW e, e \in TakeExec(b) PROVE e = <<x, r>>
    <2>1. PICK c1, v1, m1 : c1 \in TakeCommand(b) /\ IsExecAt(e, c1, v1, m1)
      BY <1>10, TakeExecDef
    <2>2. c1 = oc
      BY <1>8, <2>1, Zenon
    <2>3. v1 = ov
      BY <1>7, <1>8, <2>1, <2>2, Zenon DEF IsExecAt
    <2>4. m1 = om
      BY <1>7, <1>8, <2>1, <2>3, Zenon DEF IsExecAt
    <2> QED BY <1>9, <2>1, <2>2, <2>3, <2>4, Zenon DEF IsExecAt
  <1>11. ASSUME NEW e, e = <<x, r>> PROVE e \in TakeExec(b)
    <2>1. oc \in TakeCommand(b) /\ ov \in TakeEnv(oc[2]) /\ om \in TakeStrings(3, ov[2])
      BY <1>7, <1>8, Zenon
    <2>2. e = <<Exec(oc[1], ov[1], om[1]), om[2]>>
      BY <1>9, <1>11, Zenon
    <2>3. IsExecAt(e, oc, ov, om)
      BY <2>1, <2>2, Zenon DEF IsExecAt
    <2> QED BY <2>1, <2>3, TakeExecDef
  <1>12. TakeExec(b) = {<<x, r>>}
    BY <1>10, <1>11, Zenon
  <1> QED BY <1>2, <1>12 DEF b, x

LEMMA ExecGives ==
    ASSUME NEW b \in Seq(Byte), NEW e \in TakeExec(b)
    PROVE  \E c \in Lists(Texts), v \in Lists(Variables), m \in Metadata,
              r \in Seq(Byte) :
             e = <<Exec(c, v, m), r>> /\ b = Join(PutExec(c, v, m), r)
  <1>1. PICK c1, v1, m1 : c1 \in TakeCommand(b) /\ IsExecAt(e, c1, v1, m1)
    BY TakeExecDef
  <1>2. PICK c \in Lists(Texts), w1 \in Seq(Byte) :
          c1 = <<c, w1>> /\ b = Join(PutCommand(c), w1)
    BY <1>1, TakeLists, TextCodec, ListGives, PutCommandList
  <1>3. v1 \in TakeEnv(w1)
    BY <1>1, <1>2 DEF IsExecAt
  <1>4. PICK v \in Lists(Variables), w2 \in Seq(Byte) :
          v1 = <<v, w2>> /\ w1 = Join(PutEnv(v), w2)
    BY <1>3, TakeLists, VariableCodec, ListGives, PutEnvList
  <1>5. m1 \in TakeStrings(3, w2)
    BY <1>1, <1>4 DEF IsExecAt
  <1>6. PICK m \in Metadata, r \in Seq(Byte) :
          m1 = <<m, r>> /\ w2 = Join(PutStrings(m), r)
    BY <1>5, MetadataGives
  <1>7. e = <<Exec(c, v, m), r>>
    <2>1. c1[1] = c /\ v1[1] = v /\ m1[1] = m /\ m1[2] = r
      BY <1>2, <1>4, <1>6
    <2>2. e = <<Exec(c1[1], v1[1], m1[1]), m1[2]>>
      BY <1>1, Zenon DEF IsExecAt
    <2> QED BY <2>1, <2>2, Zenon
  <1>8. b = Join(PutExec(c, v, m), r)
    <2>1. /\ PutCommand(c) \in Seq(Byte) /\ PutEnv(v) \in Seq(Byte)
          /\ PutStrings(m) \in Seq(Byte)
      BY CommandTaken, EnvTaken, MetadataTaken
    <2>2. Join(PutEnv(v), PutStrings(m)) \in Seq(Byte)
      BY <2>1, JoinType
    <2>3. w1 = Join(Join(PutEnv(v), PutStrings(m)), r)
      BY <1>4, <1>6, <2>1, JoinThree
    <2> QED BY <1>2, <2>1, <2>2, <2>3, JoinThree DEF PutExec
  <1> QED BY <1>7, <1>8

-----------------------------------------------------------------------------
(* The tag in front.                                                       *)

LEMMA TakeByteJoin ==
    ASSUME NEW t \in Byte, NEW w \in Seq(Byte)
    PROVE  /\ <<t>> \in Seq(Byte)
           /\ TakeByte(Join(<<t>>, w)) = {<<t, w>>}
  <1> DEFINE b == <<t>> \o w
  <1>1. <<t>> \in Seq(Byte) /\ Len(<<t>>) = 1 /\ <<t>>[1] = t
    OBVIOUS
  <1>2. b \in Seq(Byte) /\ Len(b) = 1 + Len(w) /\ Len(w) \in Nat
    BY <1>1, ConcatProperties, LenProperties
  <1>3. b[1] = t /\ \A i \in 1..Len(w) : b[i + 1] = w[i]
    BY <1>1, <1>2, ConcatProperties
  <1> HIDE DEF b
  <1>4. b # <<>>
    BY <1>2, EmptySeq
  <1>5. Head(b) = t /\ Tail(b) \in Seq(Byte) /\ Len(Tail(b)) = Len(w)
        /\ \A i \in 1..Len(w) : Tail(b)[i] = w[i]
    BY <1>2, <1>3, <1>4, HeadTailProperties
  <1>6. Tail(b) = w
    BY <1>5, SeqEqual
  <1>7. TakeByte(b) = {<<t, w>>}
    BY <1>4, <1>5, <1>6 DEF TakeByte
  <1> QED BY <1>1, <1>7 DEF b, Join

LEMMA TakeByteGives ==
    ASSUME NEW b \in Seq(Byte), NEW e \in TakeByte(b)
    PROVE  \E t \in Byte, w \in Seq(Byte) : e = <<t, w>> /\ b = Join(<<t>>, w)
  <1>1. b # <<>> /\ e = <<Head(b), Tail(b)>>
    BY DEF TakeByte
  <1>2. Head(b) \in Byte /\ Tail(b) \in Seq(Byte)
    BY <1>1, HeadTailProperties
  <1>3. b = <<Head(b)>> \o Tail(b)
    BY <1>1, HeadTailProperties
  <1> QED BY <1>1, <1>2, <1>3 DEF Join

LEMMA TagBytes == 1 \in Byte /\ 2 \in Byte /\ 3 \in Byte /\ 4 \in Byte
  BY FormatAssumption DEF Byte

LEMMA TagsAre ==
    /\ Tag(ClientTags, "exec") = 1 /\ Tag(ClientTags, "cancel") = 2
    /\ Tag(ClientTags, "stdin") = 3 /\ Tag(ClientTags, "eof") = 4
    /\ Tag(ServerTags, "stdout") = 1 /\ Tag(ServerTags, "stderr") = 2
    /\ Tag(ServerTags, "exit") = 3 /\ Tag(ServerTags, "error") = 4
  <1>1. /\ DOMAIN ClientTags = 1..4 /\ ClientTags[1] = "exec"
        /\ ClientTags[2] = "cancel" /\ ClientTags[3] = "stdin" /\ ClientTags[4] = "eof"
    BY DEF ClientTags
  <1>2. /\ DOMAIN ServerTags = 1..4 /\ ServerTags[1] = "stdout"
        /\ ServerTags[2] = "stderr" /\ ServerTags[3] = "exit" /\ ServerTags[4] = "error"
    BY DEF ServerTags
  <1>3. \A t \in 1..4 : t = 1 \/ t = 2 \/ t = 3 \/ t = 4
    OBVIOUS
  <1>4. /\ Tag(ClientTags, "exec") = 1 /\ Tag(ClientTags, "cancel") = 2
        /\ Tag(ClientTags, "stdin") = 3 /\ Tag(ClientTags, "eof") = 4
    BY <1>1, <1>3 DEF Tag
  <1>5. /\ Tag(ServerTags, "stdout") = 1 /\ Tag(ServerTags, "stderr") = 2
        /\ Tag(ServerTags, "exit") = 3 /\ Tag(ServerTags, "error") = 4
    BY <1>2, <1>3 DEF Tag
  <1> QED BY <1>4, <1>5

LEMMA TagMoves ==
    ASSUME NEW t \in Byte, NEW body \in Seq(Byte), NEW r \in Seq(Byte)
    PROVE  Join(<<t>>, Join(body, r)) = Join(Join(<<t>>, body), r)
  BY TakeByteJoin, JoinThree

LEMMA FrameBody ==
    ASSUME NEW t \in Byte, NEW body \in Seq(Byte), NEW r \in Seq(Byte)
    PROVE  /\ Join(<<t>>, body) \in Seq(Byte)
           /\ TakeClientFrame(Join(Join(<<t>>, body), r)) = TakeClientBody(t, Join(body, r))
           /\ TakeServerFrame(Join(Join(<<t>>, body), r)) = TakeServerBody(t, Join(body, r))
  <1> DEFINE w == Join(body, r)
             b == Join(Join(<<t>>, body), r)
             o == <<t, w>>
  <1>1. <<t>> \in Seq(Byte) /\ w \in Seq(Byte) /\ Join(<<t>>, body) \in Seq(Byte)
    BY TakeByteJoin, JoinType
  <1>2. b = Join(<<t>>, w)
    BY TagMoves, Zenon
  <1> HIDE DEF w, b
  <1>3. TakeByte(b) = {o} /\ o[1] = t /\ o[2] = w
    BY <1>1, <1>2, TakeByteJoin
  <1> HIDE DEF o
  <1>4. TakeClientFrame(b) = TakeClientBody(o[1], o[2])
    BY <1>3 DEF TakeClientFrame
  <1>5. TakeServerFrame(b) = TakeServerBody(o[1], o[2])
    BY <1>3 DEF TakeServerFrame
  <1> QED BY <1>1, <1>3, <1>4, <1>5, Zenon DEF b, w

-----------------------------------------------------------------------------
(* The frames of the client.                                               *)

LEMMA EncodeClientIs ==
    /\ \A c, v, m : EncodeClient(Exec(c, v, m)) = Join(<<1>>, PutExec(c, v, m))
    /\ \A v : EncodeClient(Stdin(v)) = Join(<<3>>, PutBytes(v))
    /\ EncodeClient(Control("cancel")) = Join(<<2>>, <<>>)
    /\ EncodeClient(Control("eof")) = Join(<<4>>, <<>>)
  <1>1. ASSUME NEW c, NEW v, NEW m
        PROVE  EncodeClient(Exec(c, v, m)) = Join(<<1>>, PutExec(c, v, m))
    <2> DEFINE f == Exec(c, v, m)
    <2>1. f.kind = "exec" /\ f.command = c /\ f.env = v /\ f.metadata = m
      BY DEF Exec
    <2> HIDE DEF f
    <2>2. EncodeClient(f) = <<Tag(ClientTags, f.kind)>> \o
            (PutCommand(f.command) \o (PutEnv(f.env) \o PutStrings(f.metadata)))
      BY <2>1, Zenon DEF EncodeClient
    <2> QED BY <2>1, <2>2, TagsAre, Zenon DEF f, Join, PutExec
  <1>2. ASSUME NEW v PROVE EncodeClient(Stdin(v)) = Join(<<3>>, PutBytes(v))
    <2> DEFINE f == Stdin(v)
    <2>1. f.kind = "stdin" /\ f.kind # "exec" /\ f.bytes = v
      BY DEF Stdin
    <2> HIDE DEF f
    <2>2. EncodeClient(f) = <<Tag(ClientTags, f.kind)>> \o PutBytes(f.bytes)
      BY <2>1, Zenon DEF EncodeClient
    <2> QED BY <2>1, <2>2, TagsAre, Zenon DEF f, Join
  <1>3. ASSUME NEW k \in {"cancel", "eof"}
        PROVE  EncodeClient(Control(k)) = Join(<<Tag(ClientTags, k)>>, <<>>)
    <2> DEFINE f == Control(k)
    <2>1. f.kind = k /\ k # "exec" /\ k # "stdin"
      BY DEF Control
    <2> HIDE DEF f
    <2>2. EncodeClient(f) = <<Tag(ClientTags, f.kind)>> \o <<>>
      BY <2>1, Zenon DEF EncodeClient
    <2> QED BY <2>1, <2>2, Zenon DEF f, Join
  <1>4. "cancel" \in {"cancel", "eof"} /\ "eof" \in {"cancel", "eof"}
    OBVIOUS
  <1> QED BY <1>1, <1>2, <1>3, <1>4, TagsAre, Zenon

LEMMA ClientFrameIs ==
    ASSUME NEW f
    PROVE  f \in ClientFrames <=>
             \/ \E c \in Lists(Texts), v \in Lists(Variables), m \in Metadata :
                  f = Exec(c, v, m)
             \/ \E v \in Bytes : f = Stdin(v)
             \/ f = Control("cancel")
             \/ f = Control("eof")
  BY DEF ClientFrames, Metadata, Exec, Stdin, Control

LEMMA TakeClientBodyIs ==
    ASSUME NEW b
    PROVE  /\ TakeClientBody(1, b) = TakeExec(b)
           /\ TakeClientBody(2, b) = {<<Control("cancel"), b>>}
           /\ TakeClientBody(3, b) = {<<Stdin(r[1]), r[2]>> : r \in TakeBytes(b)}
           /\ TakeClientBody(4, b) = {<<Control("eof"), b>>}
           /\ \A t \in Byte : t \notin {1, 2, 3, 4} => TakeClientBody(t, b) = {}
  BY DEF TakeClientBody

LEMMA ClientBodyPut ==
    ASSUME NEW f \in ClientFrames
    PROVE  \E t \in Byte, body \in Seq(Byte) :
             /\ EncodeClient(f) = Join(<<t>>, body)
             /\ \A r \in Seq(Byte) : TakeClientBody(t, Join(body, r)) = {<<f, r>>}
  <1>1. CASE \E c \in Lists(Texts), v \in Lists(Variables), m \in Metadata :
               f = Exec(c, v, m)
    <2>1. PICK c \in Lists(Texts), v \in Lists(Variables), m \in Metadata :
            f = Exec(c, v, m)
      BY <1>1
    <2>2. EncodeClient(f) = Join(<<1>>, PutExec(c, v, m))
      BY <2>1, EncodeClientIs
    <2>3. \A r \in Seq(Byte) : /\ PutExec(c, v, m) \in Seq(Byte)
                               /\ TakeExec(Join(PutExec(c, v, m), r)) = {<<f, r>>}
      BY <2>1, ExecTaken
    <2>4. <<>> \in Seq(Byte)
      BY EmptySeq
    <2>5. /\ PutExec(c, v, m) \in Seq(Byte)
          /\ \A r \in Seq(Byte) : TakeClientBody(1, Join(PutExec(c, v, m), r)) = {<<f, r>>}
      BY <2>3, <2>4, TakeClientBodyIs, Zenon
    <2> QED BY <2>2, <2>5, TagBytes, Zenon
  <1>2. CASE \E v \in Bytes : f = Stdin(v)
    <2>1. PICK v \in Bytes : f = Stdin(v)
      BY <1>2
    <2>2. EncodeClient(f) = Join(<<3>>, PutBytes(v)) /\ PutBytes(v) \in Seq(Byte)
      BY <2>1, EncodeClientIs, PutBytesJoin
    <2>3. ASSUME NEW r \in Seq(Byte)
          PROVE  TakeClientBody(3, Join(PutBytes(v), r)) = {<<f, r>>}
      <3> DEFINE b == Join(PutBytes(v), r)
                 o == <<v, r>>
      <3>1. TakeBytes(b) = {o} /\ o[1] = v /\ o[2] = r
        BY TakeBytesPut
      <3> HIDE DEF b, o
      <3>2. TakeClientBody(3, b) = {<<Stdin(z[1]), z[2]>> : z \in TakeBytes(b)}
        BY TakeClientBodyIs
      <3>3. {<<Stdin(z[1]), z[2]>> : z \in {o}} = {<<Stdin(o[1]), o[2]>>}
        BY Zenon
      <3>4. TakeClientBody(3, b) = {<<f, r>>}
        BY <2>1, <3>1, <3>2, <3>3, Zenon
      <3> QED BY <3>4 DEF b
    <2> QED BY <2>2, <2>3, TagBytes, Zenon
  <1>3. CASE f = Control("cancel")
    <2>1. \A r \in Seq(Byte) : TakeClientBody(2, Join(<<>>, r)) = {<<f, r>>}
      BY <1>3, TakeClientBodyIs, JoinEmpty
    <2>2. EncodeClient(f) = Join(<<2>>, <<>>) /\ <<>> \in Seq(Byte)
      BY <1>3, EncodeClientIs, EmptySeq
    <2> QED BY <2>1, <2>2, TagBytes, Zenon
  <1>4. CASE f = Control("eof")
    <2>1. \A r \in Seq(Byte) : TakeClientBody(4, Join(<<>>, r)) = {<<f, r>>}
      BY <1>4, TakeClientBodyIs, JoinEmpty
    <2>2. EncodeClient(f) = Join(<<4>>, <<>>) /\ <<>> \in Seq(Byte)
      BY <1>4, EncodeClientIs, EmptySeq
    <2> QED BY <2>1, <2>2, TagBytes, Zenon
  <1> QED BY <1>1, <1>2, <1>3, <1>4, ClientFrameIs

LEMMA ClientFrameTaken ==
    ASSUME NEW f \in ClientFrames, NEW r \in Seq(Byte)
    PROVE  /\ EncodeClient(f) \in Seq(Byte)
           /\ TakeClientFrame(Join(EncodeClient(f), r)) = {<<f, r>>}
  <1>1. PICK t \in Byte, body \in Seq(Byte) :
          /\ EncodeClient(f) = Join(<<t>>, body)
          /\ \A z \in Seq(Byte) : TakeClientBody(t, Join(body, z)) = {<<f, z>>}
    BY ClientBodyPut
  <1> QED BY <1>1, FrameBody

LEMMA ClientBodyGives ==
    ASSUME NEW t \in Byte, NEW w \in Seq(Byte), NEW e \in TakeClientBody(t, w)
    PROVE  \E f \in ClientFrames, r \in Seq(Byte) :
             e = <<f, r>> /\ Join(<<t>>, w) = Join(EncodeClient(f), r)
  <1>0. <<t>> \in Seq(Byte)
    BY TakeByteJoin
  <1>1. CASE t = 1
    <2>1. e \in TakeExec(w)
      BY <1>1, TakeClientBodyIs
    <2>2. PICK c \in Lists(Texts), v \in Lists(Variables), m \in Metadata,
               r \in Seq(Byte) :
            e = <<Exec(c, v, m), r>> /\ w = Join(PutExec(c, v, m), r)
      BY <2>1, ExecGives
    <2>3. EncodeClient(Exec(c, v, m)) = Join(<<t>>, PutExec(c, v, m))
      BY <1>1, EncodeClientIs
    <2>4. PutExec(c, v, m) \in Seq(Byte)
      BY ExecTaken
    <2>5. Join(<<t>>, w) = Join(EncodeClient(Exec(c, v, m)), r)
      <3>1. Join(<<t>>, Join(PutExec(c, v, m), r)) = Join(Join(<<t>>, PutExec(c, v, m)), r)
        BY <2>4, TagMoves, Zenon
      <3> QED BY <2>2, <2>3, <3>1, Zenon
    <2>6. Exec(c, v, m) \in ClientFrames
      BY ClientFrameIs
    <2> QED BY <2>2, <2>5, <2>6
  <1>2. CASE t = 2
    <2>1. e = <<Control("cancel"), w>>
      BY <1>2, TakeClientBodyIs
    <2>2. Join(<<t>>, w) = Join(EncodeClient(Control("cancel")), w)
      BY <1>0, <1>2, EncodeClientIs, JoinEmpty
    <2>3. Control("cancel") \in ClientFrames
      BY ClientFrameIs
    <2> QED BY <2>1, <2>2, <2>3
  <1>3. CASE t = 3
    <2>1. PICK z \in TakeBytes(w) : e = <<Stdin(z[1]), z[2]>>
      BY <1>3, TakeClientBodyIs
    <2>2. PICK v \in Bytes, r \in Seq(Byte) : z = <<v, r>> /\ w = Join(PutBytes(v), r)
      BY TakeBytesGives
    <2>3. EncodeClient(Stdin(v)) = Join(<<t>>, PutBytes(v)) /\ PutBytes(v) \in Seq(Byte)
      BY <1>3, EncodeClientIs, PutBytesJoin
    <2>4. Join(<<t>>, w) = Join(EncodeClient(Stdin(v)), r)
      <3>1. Join(<<t>>, Join(PutBytes(v), r)) = Join(Join(<<t>>, PutBytes(v)), r)
        BY <2>3, TagMoves, Zenon
      <3> QED BY <2>2, <2>3, <3>1, Zenon
    <2>5. Stdin(v) \in ClientFrames
      BY ClientFrameIs
    <2>6. e = <<Stdin(v), r>>
      BY <2>1, <2>2
    <2> QED BY <2>4, <2>5, <2>6
  <1>4. CASE t = 4
    <2>1. e = <<Control("eof"), w>>
      BY <1>4, TakeClientBodyIs
    <2>2. Join(<<t>>, w) = Join(EncodeClient(Control("eof")), w)
      BY <1>0, <1>4, EncodeClientIs, JoinEmpty
    <2>3. Control("eof") \in ClientFrames
      BY ClientFrameIs
    <2> QED BY <2>1, <2>2, <2>3
  <1> QED BY <1>1, <1>2, <1>3, <1>4, TakeClientBodyIs

LEMMA ClientFrameGives ==
    ASSUME NEW b \in Seq(Byte), NEW e \in TakeClientFrame(b)
    PROVE  \E f \in ClientFrames, r \in Seq(Byte) :
             e = <<f, r>> /\ b = Join(EncodeClient(f), r)
  <1>1. PICK z \in TakeByte(b) : e \in TakeClientBody(z[1], z[2])
    BY DEF TakeClientFrame
  <1>2. PICK t \in Byte, w \in Seq(Byte) : z = <<t, w>> /\ b = Join(<<t>>, w)
    BY TakeByteGives
  <1>3. e \in TakeClientBody(t, w)
    BY <1>1, <1>2
  <1> QED BY <1>2, <1>3, ClientBodyGives

-----------------------------------------------------------------------------
(* The frames of the server.                                               *)

(* Output that was framed in the buffer it was read into is the header and *)
(* the bytes read: the zeros the read left in place are cut off.           *)
LEMMA OutputFrameIs ==
    ASSUME NEW s \in {"stdout", "stderr"}, NEW v \in Seq(Byte), Len(v) <= ChunkSize
    PROVE  OutputFrame(s, v) = Join(<<Tag(ServerTags, s)>>, PutBytes(v))
  <1> DEFINE t == Tag(ServerTags, s)
             n == Len(v)
             p == PutInt(n)
             a == Join(<<t>>, p)
             buffer == ReadBuffer(v)
             z == SubSeq(buffer, HeaderSize + 1, Len(buffer))
             h == Join(a, z)
             c == SubSeq(h, 1, HeaderSize + n)
             d == Join(a, v)
  <1>1. t \in Byte /\ <<t>> \in Seq(Byte) /\ Len(<<t>>) = 1
    BY TagsAre, TagBytes
  <1>2. /\ n \in Nat /\ n \in Int /\ Width \in Nat /\ HeaderSize = 1 + Width
        /\ ChunkSize \in Nat /\ 0 \in Byte /\ n <= ChunkSize /\ HeaderSize \in Nat
    BY LenProperties, Sizes, FormatAssumption DEF HeaderSize, Byte
  <1>3. p \in Seq(Byte) /\ Len(p) = Width
    BY <1>2, PutIntType
  <1> HIDE DEF t, p
  <1>4. a \in Seq(Byte) /\ Len(a) = HeaderSize
    BY <1>1, <1>2, <1>3, JoinType, JoinIs
  <1>5. /\ DOMAIN v = 1..n /\ \A i \in 1..n : v[i] \in Byte
    BY LenProperties, ElementOfSeq
  <1> HIDE DEF n
  <1>6. /\ buffer \in [1..HeaderSize + ChunkSize -> Byte]
        /\ \A i \in 1..HeaderSize + ChunkSize :
             buffer[i] = IF i - HeaderSize \in 1..n THEN v[i - HeaderSize] ELSE 0
    BY <1>2, <1>5 DEF ReadBuffer
  <1> HIDE DEF buffer
  <1>7. buffer \in Seq(Byte) /\ Len(buffer) = HeaderSize + ChunkSize
    BY <1>2, <1>6, SeqDef
  <1>8. /\ z \in Seq(Byte) /\ Len(z) = ChunkSize
        /\ \A i \in 1..ChunkSize : z[i] = buffer[HeaderSize + i]
    <2>1. \A i \in HeaderSize + 1..Len(buffer) : buffer[i] \in Byte
      BY <1>2, <1>6, <1>7
    <2>2. /\ z \in Seq(Byte)
          /\ Len(z) = IF HeaderSize + 1 <= Len(buffer)
                      THEN Len(buffer) - (HeaderSize + 1) + 1 ELSE 0
          /\ \A i \in 1..Len(buffer) - (HeaderSize + 1) + 1 :
               z[i] = buffer[HeaderSize + 1 + i - 1]
      BY <1>2, <1>7, <2>1, SubSeqProperties
    <2> HIDE DEF z
    <2>3. Len(z) = ChunkSize /\ Len(buffer) - (HeaderSize + 1) + 1 = ChunkSize
      BY <1>2, <1>7, <2>2
    <2>4. ASSUME NEW i \in 1..ChunkSize PROVE HeaderSize + 1 + i - 1 = HeaderSize + i
      BY <1>2
    <2> QED BY <2>2, <2>3, <2>4
  <1>9. \A i \in 1..n : z[i] = v[i]
    <2> SUFFICES ASSUME NEW i \in 1..n PROVE z[i] = v[i]
      OBVIOUS
    <2> HIDE DEF z
    <2>1. i \in 1..ChunkSize /\ HeaderSize + i \in 1..HeaderSize + ChunkSize
          /\ (HeaderSize + i) - HeaderSize = i
      BY <1>2
    <2> QED BY <1>6, <1>8, <2>1
  <1> HIDE DEF z, a
  <1>10. /\ h \in Seq(Byte) /\ Len(h) = HeaderSize + ChunkSize
         /\ \A i \in 1..HeaderSize : h[i] = a[i]
         /\ \A i \in 1..ChunkSize : h[HeaderSize + i] = z[i]
    <2>1. /\ h \in Seq(Byte) /\ Len(h) = Len(a) + Len(z)
          /\ \A i \in 1..Len(a) : h[i] = a[i]
          /\ \A i \in 1..Len(z) : h[Len(a) + i] = z[i]
      BY <1>4, <1>8, JoinType, JoinIs, Zenon
    <2> HIDE DEF h
    <2> QED BY <1>2, <1>4, <1>8, <2>1
  <1>11. /\ d \in Seq(Byte) /\ Len(d) = HeaderSize + n
         /\ \A i \in 1..HeaderSize : d[i] = a[i]
         /\ \A i \in 1..n : d[HeaderSize + i] = v[i]
    <2>1. /\ d \in Seq(Byte) /\ Len(d) = Len(a) + Len(v)
          /\ \A i \in 1..Len(a) : d[i] = a[i]
          /\ \A i \in 1..Len(v) : d[Len(a) + i] = v[i]
      BY <1>4, JoinType, JoinIs, Zenon
    <2> HIDE DEF d
    <2> QED BY <1>2, <1>4, <2>1 DEF n
  <1> HIDE DEF h, d
  <1>12. /\ c \in Seq(Byte) /\ Len(c) = HeaderSize + n
         /\ \A i \in 1..HeaderSize + n : c[i] = h[i]
    <2>1. \A i \in 1..HeaderSize + n : h[i] \in Byte
      BY <1>2, <1>10, ElementOfSeq
    <2>2. /\ c \in Seq(Byte)
          /\ Len(c) = IF 1 <= HeaderSize + n THEN (HeaderSize + n) - 1 + 1 ELSE 0
          /\ \A i \in 1..(HeaderSize + n) - 1 + 1 : c[i] = h[1 + i - 1]
      BY <1>2, <2>1, SubSeqProperties
    <2> HIDE DEF c
    <2>3. Len(c) = HeaderSize + n /\ (HeaderSize + n) - 1 + 1 = HeaderSize + n
      BY <1>2, <2>2
    <2>4. \A i \in 1..HeaderSize + n : 1 + i - 1 = i
      OBVIOUS
    <2> QED BY <2>2, <2>3, <2>4
  <1> HIDE DEF c
  <1>13. \A i \in 1..HeaderSize + n : c[i] = d[i]
    <2> SUFFICES ASSUME NEW i \in 1..HeaderSize + n PROVE c[i] = d[i]
      OBVIOUS
    <2>1. CASE i \in 1..HeaderSize
      BY <1>10, <1>11, <1>12, <2>1
    <2>2. CASE i \notin 1..HeaderSize
      <3> DEFINE j == i - HeaderSize
      <3>1. j \in 1..n /\ j \in 1..ChunkSize /\ i = HeaderSize + j
        BY <1>2, <2>2
      <3> HIDE DEF j
      <3> QED BY <1>9, <1>10, <1>11, <1>12, <3>1
    <2> QED BY <2>1, <2>2
  <1>14. c = d
    BY <1>11, <1>12, <1>13, SeqEqual
  <1>15. OutputFrame(s, v) = c
    BY Zenon DEF OutputFrame, PutHeader, Join, c, h, a, z, buffer, t, p, n
  <1>16. d = Join(<<t>>, PutBytes(v))
    <2>1. d = Join(Join(<<t>>, p), v)
      BY Zenon DEF d, a
    <2>2. PutBytes(v) = Join(p, v)
      BY Zenon DEF PutBytes, Join, p, n
    <2>3. Join(Join(<<t>>, p), v) = Join(<<t>>, Join(p, v))
      BY <1>1, <1>3, JoinThree
    <2> QED BY <2>1, <2>2, <2>3, Zenon
  <1> QED BY <1>14, <1>15, <1>16 DEF t

(* A frame of the server before it is asked whether a reader could read    *)
(* that much at once.                                                      *)
PutServer(f) ==
    Join(<<Tag(ServerTags, f.kind)>>,
         CASE f.kind \in {"stdout", "stderr"} -> PutBytes(f.bytes)
           [] f.kind = "exit" -> PutInt(f.code)
           [] f.kind = "error" -> PutBytes(f.message))

LEMMA PutServerIs ==
    /\ \A s \in {"stdout", "stderr"} : \A v :
         PutServer(Output(s, v)) = Join(<<Tag(ServerTags, s)>>, PutBytes(v))
    /\ \A n : PutServer(Exit(n)) = Join(<<3>>, PutInt(n))
    /\ \A v : PutServer(Error(v)) = Join(<<4>>, PutBytes(v))
  <1>1. ASSUME NEW s \in {"stdout", "stderr"}, NEW v
        PROVE  PutServer(Output(s, v)) = Join(<<Tag(ServerTags, s)>>, PutBytes(v))
    <2> DEFINE f == Output(s, v)
    <2>1. f.kind = s /\ f.bytes = v
      BY DEF Output
    <2> HIDE DEF f
    <2> QED BY <2>1, Zenon DEF PutServer, f
  <1>2. ASSUME NEW n PROVE PutServer(Exit(n)) = Join(<<3>>, PutInt(n))
    <2> DEFINE f == Exit(n)
    <2>1. f.kind = "exit" /\ f.kind \notin {"stdout", "stderr"} /\ f.code = n
      BY DEF Exit
    <2> HIDE DEF f
    <2>2. PutServer(f) = Join(<<Tag(ServerTags, f.kind)>>, PutInt(f.code))
      BY <2>1, Zenon DEF PutServer
    <2> QED BY <2>1, <2>2, TagsAre, Zenon DEF f
  <1>3. ASSUME NEW v PROVE PutServer(Error(v)) = Join(<<4>>, PutBytes(v))
    <2> DEFINE f == Error(v)
    <2>1. /\ f.kind = "error" /\ f.kind \notin {"stdout", "stderr"}
          /\ f.kind # "exit" /\ f.message = v
      BY DEF Error
    <2> HIDE DEF f
    <2>2. PutServer(f) = Join(<<Tag(ServerTags, f.kind)>>, PutBytes(f.message))
      BY <2>1, Zenon DEF PutServer
    <2> QED BY <2>1, <2>2, TagsAre, Zenon DEF f
  <1> QED BY <1>1, <1>2, <1>3

LEMMA ServerFrameIs ==
    ASSUME NEW f
    PROVE  f \in ServerFrames <=>
             \/ \E s \in {"stdout", "stderr"}, v \in Bytes : f = Output(s, v)
             \/ \E n \in Codes : f = Exit(n)
             \/ \E v \in Texts : f = Error(v)
  BY DEF ServerFrames, Output, Exit, Error

(* What is sent is that frame, whether framed in place or put together.    *)
LEMMA EncodeServerIs ==
    ASSUME NEW f \in ServerFrames, Sendable(f)
    PROVE  EncodeServer(f) = PutServer(f)
  <1>1. CASE \E s \in {"stdout", "stderr"}, v \in Bytes : f = Output(s, v)
    <2>1. PICK s \in {"stdout", "stderr"}, v \in Bytes : f = Output(s, v)
      BY <1>1
    <2>2. f.kind = s /\ f.bytes = v /\ Len(v) <= ChunkSize /\ v \in Seq(Byte)
      BY <2>1, PutBytesJoin DEF Output, Sendable
    <2>3. EncodeServer(f) = OutputFrame(s, v)
      BY <2>2, Zenon DEF EncodeServer
    <2>4. OutputFrame(s, v) = Join(<<Tag(ServerTags, s)>>, PutBytes(v))
      BY <2>2, OutputFrameIs
    <2>5. PutServer(f) = Join(<<Tag(ServerTags, s)>>, PutBytes(v))
      BY <2>1, PutServerIs, Zenon
    <2> QED BY <2>3, <2>4, <2>5, Zenon
  <1>2. CASE \E n \in Codes : f = Exit(n)
    <2>1. f.kind = "exit" /\ f.kind \notin {"stdout", "stderr"}
      BY <1>2 DEF Exit
    <2> QED BY <2>1, Zenon DEF EncodeServer, PutServer, Join
  <1>3. CASE \E v \in Texts : f = Error(v)
    <2>1. /\ f.kind = "error" /\ f.kind \notin {"stdout", "stderr"}
          /\ f.kind # "exit"
      BY <1>3 DEF Error
    <2> QED BY <2>1, Zenon DEF EncodeServer, PutServer, Join
  <1> QED BY <1>1, <1>2, <1>3, ServerFrameIs

LEMMA TakeServerBodyIs ==
    ASSUME NEW b
    PROVE  /\ TakeServerBody(1, b) = {<<Output("stdout", r[1]), r[2]>> : r \in TakeBytes(b)}
           /\ TakeServerBody(2, b) = {<<Output("stderr", r[1]), r[2]>> : r \in TakeBytes(b)}
           /\ TakeServerBody(3, b) = {<<Exit(r[1]), r[2]>> : r \in TakeSigned(b)}
           /\ TakeServerBody(4, b) = {<<Error(r[1]), r[2]>> : r \in TakeString(b)}
           /\ \A t \in Byte : t \notin {1, 2, 3, 4} => TakeServerBody(t, b) = {}
  BY DEF TakeServerBody, ServerTags

LEMMA ServerBodyPut ==
    ASSUME NEW f \in ServerFrames
    PROVE  \E t \in Byte, body \in Seq(Byte) :
             /\ PutServer(f) = Join(<<t>>, body)
             /\ \A r \in Seq(Byte) : TakeServerBody(t, Join(body, r)) = {<<f, r>>}
  <1>1. CASE \E s \in {"stdout", "stderr"}, v \in Bytes : f = Output(s, v)
    <2>1. PICK s \in {"stdout", "stderr"}, v \in Bytes : f = Output(s, v)
      BY <1>1
    <2> DEFINE t == Tag(ServerTags, s)
    <2>2. /\ t \in Byte
          /\ \A b : TakeServerBody(t, b) = {<<Output(s, z[1]), z[2]>> : z \in TakeBytes(b)}
      <3>1. CASE s = "stdout"
        BY <3>1, TagsAre, TagBytes, TakeServerBodyIs
      <3>2. CASE s = "stderr"
        BY <3>2, TagsAre, TagBytes, TakeServerBodyIs
      <3> QED BY <3>1, <3>2
    <2>3. PutServer(f) = Join(<<t>>, PutBytes(v))
      BY <2>1, PutServerIs, Zenon
    <2>4. PutBytes(v) \in Seq(Byte)
      BY PutBytesJoin
    <2> HIDE DEF t
    <2>5. ASSUME NEW r \in Seq(Byte)
          PROVE  TakeServerBody(t, Join(PutBytes(v), r)) = {<<f, r>>}
      <3> DEFINE b == Join(PutBytes(v), r)
                 o == <<v, r>>
      <3>1. TakeBytes(b) = {o} /\ o[1] = v /\ o[2] = r
        BY TakeBytesPut
      <3> HIDE DEF b, o
      <3>2. {<<Output(s, z[1]), z[2]>> : z \in {o}} = {<<Output(s, o[1]), o[2]>>}
        BY Zenon
      <3>3. TakeServerBody(t, b) = {<<f, r>>}
        BY <2>1, <2>2, <3>1, <3>2, Zenon
      <3> QED BY <3>3 DEF b
    <2> QED BY <2>2, <2>3, <2>4, <2>5, Zenon
  <1>2. CASE \E n \in Codes : f = Exit(n)
    <2>1. PICK n \in Codes : f = Exit(n)
      BY <1>2
    <2>2. PutServer(f) = Join(<<3>>, PutInt(n)) /\ PutInt(n) \in Seq(Byte)
      BY <2>1, PutServerIs, PutIntType DEF Codes
    <2>3. ASSUME NEW r \in Seq(Byte)
          PROVE  TakeServerBody(3, Join(PutInt(n), r)) = {<<f, r>>}
      <3> DEFINE b == Join(PutInt(n), r)
                 o == <<n, r>>
      <3>1. TakeSigned(b) = {o} /\ o[1] = n /\ o[2] = r
        BY TakeSignedPut
      <3> HIDE DEF b, o
      <3>2. TakeServerBody(3, b) = {<<Exit(z[1]), z[2]>> : z \in TakeSigned(b)}
        BY TakeServerBodyIs
      <3>3. {<<Exit(z[1]), z[2]>> : z \in {o}} = {<<Exit(o[1]), o[2]>>}
        BY Zenon
      <3>4. TakeServerBody(3, b) = {<<f, r>>}
        BY <2>1, <3>1, <3>2, <3>3, Zenon
      <3> QED BY <3>4 DEF b
    <2> QED BY <2>2, <2>3, TagBytes, Zenon
  <1>3. CASE \E v \in Texts : f = Error(v)
    <2>1. PICK v \in Texts : f = Error(v)
      BY <1>3
    <2>2. PutServer(f) = Join(<<4>>, PutBytes(v)) /\ PutBytes(v) \in Seq(Byte)
      BY <2>1, PutServerIs, PutBytesJoin DEF Texts
    <2>3. ASSUME NEW r \in Seq(Byte)
          PROVE  TakeServerBody(4, Join(PutBytes(v), r)) = {<<f, r>>}
      <3> DEFINE b == Join(PutBytes(v), r)
                 o == <<v, r>>
      <3>1. TakeString(b) = {o} /\ o[1] = v /\ o[2] = r
        BY TakeStringPut
      <3> HIDE DEF b, o
      <3>2. TakeServerBody(4, b) = {<<Error(z[1]), z[2]>> : z \in TakeString(b)}
        BY TakeServerBodyIs
      <3>3. {<<Error(z[1]), z[2]>> : z \in {o}} = {<<Error(o[1]), o[2]>>}
        BY Zenon
      <3>4. TakeServerBody(4, b) = {<<f, r>>}
        BY <2>1, <3>1, <3>2, <3>3, Zenon
      <3> QED BY <3>4 DEF b
    <2> QED BY <2>2, <2>3, TagBytes, Zenon
  <1> QED BY <1>1, <1>2, <1>3, ServerFrameIs

LEMMA ServerFrameTaken ==
    ASSUME NEW f \in ServerFrames, NEW r \in Seq(Byte)
    PROVE  /\ PutServer(f) \in Seq(Byte)
           /\ TakeServerFrame(Join(PutServer(f), r)) = {<<f, r>>}
  <1>1. PICK t \in Byte, body \in Seq(Byte) :
          /\ PutServer(f) = Join(<<t>>, body)
          /\ \A z \in Seq(Byte) : TakeServerBody(t, Join(body, z)) = {<<f, z>>}
    BY ServerBodyPut
  <1> QED BY <1>1, FrameBody

LEMMA ServerBodyGives ==
    ASSUME NEW t \in Byte, NEW w \in Seq(Byte), NEW e \in TakeServerBody(t, w)
    PROVE  \E f \in ServerFrames, r \in Seq(Byte) :
             e = <<f, r>> /\ Join(<<t>>, w) = Join(PutServer(f), r)
  <1>1. ASSUME NEW s \in {"stdout", "stderr"}, t = Tag(ServerTags, s),
               NEW z \in TakeBytes(w), e = <<Output(s, z[1]), z[2]>>
        PROVE  \E f \in ServerFrames, r \in Seq(Byte) :
                 e = <<f, r>> /\ Join(<<t>>, w) = Join(PutServer(f), r)
    <2>1. PICK v \in Bytes, r \in Seq(Byte) : z = <<v, r>> /\ w = Join(PutBytes(v), r)
      BY TakeBytesGives
    <2>2. PutServer(Output(s, v)) = Join(<<t>>, PutBytes(v)) /\ PutBytes(v) \in Seq(Byte)
      <3>1. PutServer(Output(s, v)) = Join(<<t>>, PutBytes(v))
        BY <1>1, PutServerIs, Zenon
      <3> QED BY <3>1, PutBytesJoin
    <2>3. Join(<<t>>, w) = Join(PutServer(Output(s, v)), r)
      <3>1. Join(<<t>>, Join(PutBytes(v), r)) = Join(Join(<<t>>, PutBytes(v)), r)
        BY <2>2, TagMoves, Zenon
      <3> QED BY <2>1, <2>2, <3>1, Zenon
    <2>4. Output(s, v) \in ServerFrames /\ e = <<Output(s, v), r>>
      BY <1>1, <2>1, ServerFrameIs
    <2> QED BY <2>3, <2>4
  <1>2. CASE t = 1
    <2>1. PICK z \in TakeBytes(w) : e = <<Output("stdout", z[1]), z[2]>>
      BY <1>2, TakeServerBodyIs
    <2>2. "stdout" \in {"stdout", "stderr"} /\ t = Tag(ServerTags, "stdout")
      BY <1>2, TagsAre
    <2> QED BY <1>1, <2>1, <2>2
  <1>3. CASE t = 2
    <2>1. PICK z \in TakeBytes(w) : e = <<Output("stderr", z[1]), z[2]>>
      BY <1>3, TakeServerBodyIs
    <2>2. "stderr" \in {"stdout", "stderr"} /\ t = Tag(ServerTags, "stderr")
      BY <1>3, TagsAre
    <2> QED BY <1>1, <2>1, <2>2
  <1>4. CASE t = 3
    <2>1. PICK z \in TakeSigned(w) : e = <<Exit(z[1]), z[2]>>
      BY <1>4, TakeServerBodyIs
    <2>2. PICK n \in Codes, r \in Seq(Byte) : z = <<n, r>> /\ w = Join(PutInt(n), r)
      BY TakeSignedGives
    <2>3. PutServer(Exit(n)) = Join(<<t>>, PutInt(n)) /\ PutInt(n) \in Seq(Byte)
      BY <1>4, PutServerIs, PutIntType DEF Codes
    <2>4. Join(<<t>>, w) = Join(PutServer(Exit(n)), r)
      <3>1. Join(<<t>>, Join(PutInt(n), r)) = Join(Join(<<t>>, PutInt(n)), r)
        BY <2>3, TagMoves, Zenon
      <3> QED BY <2>2, <2>3, <3>1, Zenon
    <2>5. Exit(n) \in ServerFrames /\ e = <<Exit(n), r>>
      BY <2>1, <2>2, ServerFrameIs
    <2> QED BY <2>4, <2>5
  <1>5. CASE t = 4
    <2>1. PICK z \in TakeString(w) : e = <<Error(z[1]), z[2]>>
      BY <1>5, TakeServerBodyIs
    <2>2. PICK v \in Texts, r \in Seq(Byte) : z = <<v, r>> /\ w = Join(PutBytes(v), r)
      BY TakeStringGives
    <2>3. PutServer(Error(v)) = Join(<<t>>, PutBytes(v)) /\ PutBytes(v) \in Seq(Byte)
      BY <1>5, PutServerIs, PutBytesJoin DEF Texts
    <2>4. Join(<<t>>, w) = Join(PutServer(Error(v)), r)
      <3>1. Join(<<t>>, Join(PutBytes(v), r)) = Join(Join(<<t>>, PutBytes(v)), r)
        BY <2>3, TagMoves, Zenon
      <3> QED BY <2>2, <2>3, <3>1, Zenon
    <2>5. Error(v) \in ServerFrames /\ e = <<Error(v), r>>
      BY <2>1, <2>2, ServerFrameIs
    <2> QED BY <2>4, <2>5
  <1> QED BY <1>2, <1>3, <1>4, <1>5, TakeServerBodyIs

LEMMA ServerFrameGives ==
    ASSUME NEW b \in Seq(Byte), NEW e \in TakeServerFrame(b)
    PROVE  \E f \in ServerFrames, r \in Seq(Byte) :
             e = <<f, r>> /\ b = Join(PutServer(f), r)
  <1>1. PICK z \in TakeByte(b) : e \in TakeServerBody(z[1], z[2])
    BY DEF TakeServerFrame
  <1>2. PICK t \in Byte, w \in Seq(Byte) : z = <<t, w>> /\ b = Join(<<t>>, w)
    BY TakeByteGives
  <1>3. e \in TakeServerBody(t, w)
    BY <1>1, <1>2
  <1> QED BY <1>2, <1>3, ServerBodyGives

-----------------------------------------------------------------------------
(* Both sides: the frames of a side, their bytes, and what is left.        *)

Frames(s) == IF s = "client" THEN ClientFrames ELSE ServerFrames
Put(s, f) == IF s = "client" THEN EncodeClient(f) ELSE PutServer(f)
TakeFrame(s, b) == IF s = "client" THEN TakeClientFrame(b) ELSE TakeServerFrame(b)

LEMMA FrameTaken ==
    ASSUME NEW s, NEW f \in Frames(s), NEW r \in Seq(Byte)
    PROVE  Put(s, f) \in Seq(Byte) /\ TakeFrame(s, Join(Put(s, f), r)) = {<<f, r>>}
  <1>1. CASE s = "client"
    BY <1>1, ClientFrameTaken DEF Frames, Put, TakeFrame
  <1>2. CASE s # "client"
    BY <1>2, ServerFrameTaken DEF Frames, Put, TakeFrame
  <1> QED BY <1>1, <1>2

LEMMA FrameGives ==
    ASSUME NEW s, NEW b \in Seq(Byte), NEW e \in TakeFrame(s, b)
    PROVE  \E f \in Frames(s), r \in Seq(Byte) : e = <<f, r>> /\ b = Join(Put(s, f), r)
  <1>1. CASE s = "client"
    BY <1>1, ClientFrameGives DEF Frames, Put, TakeFrame
  <1>2. CASE s # "client"
    BY <1>2, ServerFrameGives DEF Frames, Put, TakeFrame
  <1> QED BY <1>1, <1>2

LEMMA DecodeDef ==
    ASSUME NEW s, NEW b
    PROVE  \A f : f \in Decode(s, b) <=>
                    \E e \in TakeFrame(s, b) : e[2] = <<>> /\ f = e[1]
  BY DEF Decode, DecodeClient, DecodeServer, Finish, TakeFrame

(* Only the bytes of a frame decode to it.                                 *)
LEMMA DecodeIs ==
    ASSUME NEW s, NEW b \in Seq(Byte), NEW f
    PROVE  f \in Decode(s, b) <=> f \in Frames(s) /\ b = Put(s, f)
  <1>1. ASSUME f \in Decode(s, b) PROVE f \in Frames(s) /\ b = Put(s, f)
    <2>1. PICK e \in TakeFrame(s, b) : e[2] = <<>> /\ f = e[1]
      BY <1>1, DecodeDef
    <2>2. PICK g \in Frames(s), r \in Seq(Byte) : e = <<g, r>> /\ b = Join(Put(s, g), r)
      BY FrameGives
    <2>3. r = <<>> /\ f = g
      BY <2>1, <2>2
    <2>4. Put(s, g) \in Seq(Byte)
      BY FrameTaken
    <2> QED BY <2>2, <2>3, <2>4, JoinEmpty
  <1>2. ASSUME f \in Frames(s), b = Put(s, f) PROVE f \in Decode(s, b)
    <2>1. b = Join(Put(s, f), <<>>)
      BY <1>2, JoinEmpty
    <2>2. TakeFrame(s, b) = {<<f, <<>> >>}
      <3> DEFINE r == <<>>
      <3>1. r \in Seq(Byte)
        BY EmptySeq
      <3> HIDE DEF r
      <3>2. TakeFrame(s, Join(Put(s, f), r)) = {<<f, r>>}
        BY <1>2, <3>1, FrameTaken
      <3> QED BY <2>1, <3>2, Zenon DEF r
    <2> DEFINE o == <<f, <<>> >>
    <2>3. o \in TakeFrame(s, b) /\ o[1] = f /\ o[2] = <<>>
      BY <2>2
    <2> HIDE DEF o
    <2> QED BY <2>3, DecodeDef
  <1> QED BY <1>1, <1>2

LEMMA EncodeIsPut ==
    ASSUME NEW s, NEW f \in Frames(s), Sendable(f)
    PROVE  Encode(s, f) = Put(s, f)
  <1>1. CASE s = "client"
    BY <1>1 DEF Encode, Put
  <1>2. CASE s # "client"
    BY <1>2, EncodeServerIs DEF Encode, Put, Frames
  <1> QED BY <1>1, <1>2

LEMMA ClientSendable == ASSUME NEW f \in ClientFrames PROVE Sendable(f)
  BY DEF ClientFrames, Sendable

LEMMA PutInjective ==
    ASSUME NEW s, NEW f \in Frames(s), NEW g \in Frames(s), NEW r \in Seq(Byte),
           Put(s, f) = Join(Put(s, g), r)
    PROVE  f = g /\ r = <<>>
  <1> DEFINE z == <<>>
  <1>1. z \in Seq(Byte)
    BY EmptySeq
  <1>2. Join(Put(s, f), z) = Put(s, f)
    BY FrameTaken, JoinEmpty
  <1> HIDE DEF z
  <1>3. TakeFrame(s, Put(s, f)) = {<<f, z>>}
    <2>1. TakeFrame(s, Join(Put(s, f), z)) = {<<f, z>>}
      BY <1>1, FrameTaken
    <2> QED BY <1>2, <2>1, Zenon
  <1>4. TakeFrame(s, Put(s, f)) = {<<g, r>>}
    <2>1. TakeFrame(s, Join(Put(s, g), r)) = {<<g, r>>}
      BY FrameTaken
    <2> QED BY <2>1, Zenon
  <1>5. <<f, z>> = <<g, r>>
    BY <1>3, <1>4, Zenon
  <1> QED BY <1>5 DEF z

(***************************************************************************)
(* What one side sends is what the other side takes it for: every frame    *)
(* the client may send, with lists and strings of any length the format    *)
(* holds, and every frame the server may send, output framed in the buffer *)
(* it was read into and negative exit codes included, decodes to itself.   *)
(***************************************************************************)
THEOREM EveryFrameArrives ==
    ASSUME NEW s, NEW f \in Frames(s), Sendable(f)
    PROVE  Decode(s, Encode(s, f)) = {f}
  <1>1. Encode(s, f) = Put(s, f) /\ Put(s, f) \in Seq(Byte)
    <2>1. <<>> \in Seq(Byte)
      BY EmptySeq
    <2> QED BY <2>1, EncodeIsPut, FrameTaken
  <1>2. f \in Decode(s, Put(s, f))
    BY <1>1, DecodeIs
  <1>3. ASSUME NEW g \in Decode(s, Put(s, f)) PROVE g = f
    <2>1. g \in Frames(s) /\ Put(s, f) = Put(s, g)
      BY <1>1, <1>3, DecodeIs
    <2> DEFINE z == <<>>
    <2>2. z \in Seq(Byte) /\ Join(Put(s, g), z) = Put(s, g)
      BY <1>1, <2>1, EmptySeq, JoinEmpty
    <2> HIDE DEF z
    <2>3. Put(s, f) = Join(Put(s, g), z)
      BY <2>1, <2>2, Zenon
    <2> QED BY <2>1, <2>2, <2>3, PutInjective
  <1> QED BY <1>1, <1>2, <1>3

(***************************************************************************)
(* Whatever bytes a decoder accepts are those of the one frame it gives:   *)
(* no other bytes, shorter, longer or different, decode to that frame.     *)
(***************************************************************************)
THEOREM OnlyItsBytesDecode ==
    ASSUME NEW s, NEW b \in Seq(Byte), NEW f \in Decode(s, b)
    PROVE  f \in Frames(s) /\ (Sendable(f) => Encode(s, f) = b)
  BY DecodeIs, EncodeIsPut

(* No frame begins with another one.                                       *)
LEMMA NoFrameBeginsAnother ==
    ASSUME NEW s, NEW b \in Seq(Byte), NEW f \in Decode(s, b),
           NEW i \in 0..Len(b) - 1
    PROVE  Decode(s, SubSeq(b, 1, i)) = {}
  <1> SUFFICES ASSUME NEW g \in Decode(s, SubSeq(b, 1, i)) PROVE FALSE
    OBVIOUS
  <1>1. Len(b) \in Nat /\ i \in Nat /\ ~(Len(b) < i) /\ i < Len(b)
    BY LenProperties
  <1>2. PICK a \in Seq(Byte), r \in Seq(Byte) :
          Split(b, i) = <<a, r>> /\ Len(a) = i /\ b = a \o r
    BY <1>1, SplitJoins
  <1>3. a = SubSeq(b, 1, i)
    BY <1>2 DEF Split
  <1>4. r # <<>>
    <2> SUFFICES ASSUME r = <<>> PROVE FALSE
      OBVIOUS
    <2>1. b = Join(a, <<>>)
      BY <1>2, Zenon DEF Join
    <2>2. b = a
      BY <2>1, JoinEmpty
    <2> QED BY <1>1, <1>2, <2>2
  <1>5. f \in Frames(s) /\ b = Put(s, f) /\ g \in Frames(s) /\ a = Put(s, g)
    BY <1>3, DecodeIs
  <1>6. Put(s, f) = Join(Put(s, g), r)
    BY <1>2, <1>5, Zenon DEF Join
  <1> QED BY <1>4, <1>5, <1>6, PutInjective

-----------------------------------------------------------------------------
(* Messages.                                                               *)

MessageInv ==
    /\ side \in {"client", "server"} /\ edits \in Nat
    /\ message \in Seq(Byte)
    /\ edits = 0 => /\ frame \in Frames(side) /\ Sendable(frame)
                    /\ message = Encode(side, frame)

LEMMA MessageInit == ASSUME Init PROVE MessageInv
  <1>1. side \in {"client", "server"} /\ frame \in Frames(side) /\ Sendable(frame)
    BY FrameAssumption, ClientSendable DEF Init, Frames
  <1>2. message = Encode(side, frame) /\ edits = 0
    BY DEF Init
  <1>3. message \in Seq(Byte)
    <2>1. <<>> \in Seq(Byte)
      BY EmptySeq
    <2>2. Put(side, frame) \in Seq(Byte)
      BY <1>1, <2>1, FrameTaken
    <2> QED BY <1>1, <1>2, <2>2, EncodeIsPut
  <1> QED BY <1>1, <1>2, <1>3 DEF MessageInv

LEMMA MessageStep == ASSUME MessageInv, [Next]_vars PROVE MessageInv'
  <1>1. ASSUME NEW b \in Seq(Byte), Edit(b) PROVE MessageInv'
    BY <1>1 DEF MessageInv, Edit
  <1>2. CASE Cut
    <2>1. message \in Seq(Byte) /\ message # <<>>
      BY <1>2 DEF Cut, MessageInv
    <2>2. Front(message) \in Seq(Byte)
      <3>1. \A i \in 1..Len(message) - 1 : message[i] \in Byte
        BY <2>1, ElementOfSeq, LenProperties
      <3>2. 1 \in Int /\ Len(message) - 1 \in Int
        BY <2>1, LenProperties
      <3>3. SubSeq(message, 1, Len(message) - 1) \in Seq(Byte)
        BY <3>1, <3>2, SubSeqProperties
      <3> QED BY <3>3 DEF Front
    <2> QED BY <1>1, <1>2, <2>2 DEF Cut
  <1>3. CASE Extend
    <2>1. PICK d \in Byte : Edit(Append(message, d))
      BY <1>3 DEF Extend
    <2>2. Append(message, d) \in Seq(Byte)
      BY AppendProperties DEF MessageInv
    <2> QED BY <1>1, <2>1, <2>2
  <1>4. CASE Replace
    <2>1. PICK i \in DOMAIN message, d \in Byte : Edit([message EXCEPT ![i] = d])
      BY <1>4 DEF Replace
    <2>2. [message EXCEPT ![i] = d] \in Seq(Byte)
      <3>1. message \in [1..Len(message) -> Byte] /\ Len(message) \in Nat
        BY LenProperties DEF MessageInv
      <3>2. [message EXCEPT ![i] = d] \in [1..Len(message) -> Byte]
        BY <3>1
      <3> QED BY <3>1, <3>2, SeqDef
    <2> QED BY <1>1, <2>1, <2>2
  <1>5. CASE UNCHANGED vars
    BY <1>5 DEF vars, MessageInv, Encode
  <1> QED BY <1>2, <1>3, <1>4, <1>5 DEF Next

LEMMA MessageInvariance == Spec => []MessageInv
  BY MessageInit, MessageStep, PTL DEF Spec

(***************************************************************************)
(* RoundTrip: as long as nothing changed it, a message decodes to the      *)
(* frame it was made of, and to nothing else.                              *)
(***************************************************************************)
THEOREM RoundTripHolds == Spec => []RoundTrip
  <1>1. MessageInv => RoundTrip
    BY EveryFrameArrives DEF MessageInv, RoundTrip
  <1> QED BY <1>1, MessageInvariance, PTL

(***************************************************************************)
(* Canonical: however a message was cut, extended and changed, it decodes  *)
(* to a frame only if it is, byte for byte, the encoding of that frame.    *)
(***************************************************************************)
THEOREM CanonicalHolds == Spec => []Canonical
  <1>1. MessageInv => Canonical
    BY OnlyItsBytesDecode DEF MessageInv, Canonical
  <1> QED BY <1>1, MessageInvariance, PTL

(***************************************************************************)
(* NoPrefixDecodes: a message that decodes no longer does when it is cut   *)
(* short anywhere.                                                         *)
(***************************************************************************)
THEOREM NoPrefixHolds == Spec => []NoPrefixDecodes
  <1>1. MessageInv => NoPrefixDecodes
    BY NoFrameBeginsAnother DEF MessageInv, NoPrefixDecodes
  <1> QED BY <1>1, MessageInvariance, PTL
=============================================================================
