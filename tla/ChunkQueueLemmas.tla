-------------------------- MODULE ChunkQueueLemmas --------------------------
(***************************************************************************)
(* How the contents of a queue change when one end of it moves.            *)
(***************************************************************************)
EXTENDS ChunkQueues, SequenceTheorems, FiniteSetTheorems, TLAPS

(* A pipe whose first chunk is read holds the chunks after that one.       *)
LEMMA TailConsecutive ==
    ASSUME NEW S, NEW q \in Seq(S), q # <<>>, NEW b \in Nat,
           Consecutive(q, b)
    PROVE  Len(Tail(q)) = Len(q) - 1 /\ Consecutive(Tail(q), b + 1)
  <1>1. Len(q) \in Nat BY LenProperties
  <1>2. Len(Tail(q)) = Len(q) - 1
        /\ \A i \in 1..Len(Tail(q)) : Tail(q)[i] = q[i + 1]
    BY HeadTailProperties
  <1>3. ASSUME NEW i \in 1..Len(Tail(q)) PROVE Tail(q)[i] = (b + 1) + i
    <2>1. i \in Int /\ i + 1 \in 1..Len(q) BY <1>1, <1>2
    <2>2. q[i + 1] = b + (i + 1) BY <2>1 DEF Consecutive
    <2>3. b + (i + 1) = (b + 1) + i BY <2>1
    <2> QED BY <1>2, <2>2, <2>3
  <1> QED BY <1>2, <1>3 DEF Consecutive

(* A pipe takes the chunk that follows its last.                           *)
LEMMA AppendConsecutive ==
    ASSUME NEW S, NEW q \in Seq(S), NEW b \in Nat, NEW n \in S,
           n = b + (Len(q) + 1), Consecutive(q, b)
    PROVE  Len(Append(q, n)) = Len(q) + 1 /\ Consecutive(Append(q, n), b)
  <1>1. Len(q) \in Nat BY LenProperties
  <1>2. /\ Len(Append(q, n)) = Len(q) + 1
        /\ \A i \in 1..Len(q) : Append(q, n)[i] = q[i]
        /\ Append(q, n)[Len(q) + 1] = n
    BY AppendProperties
  <1>3. ASSUME NEW i \in 1..Len(Append(q, n)) PROVE Append(q, n)[i] = b + i
    <2>1. i \in 1..Len(q) \/ i = Len(q) + 1 BY <1>1, <1>2
    <2> QED BY <1>2, <2>1 DEF Consecutive
  <1> QED BY <1>2, <1>3 DEF Consecutive

(* The empty channel carries no chunk.                                     *)
LEMMA CarriesNothing ==
    ASSUME NEW s, NEW a \in Nat
    PROVE  Carries(<<>>, s, a, a)
  BY DEF Carries

(* An empty channel means that every chunk queued was taken.               *)
LEMMA CarriesEmpty ==
    ASSUME NEW s, NEW a \in Nat, NEW b \in Nat, a <= b,
           Carries(<<>>, s, a, b)
    PROVE  a = b
  <1>1. ~(a + 1 \in a + 1 .. b) BY DEF Carries
  <1> QED BY <1>1

(* Taking the first event of the channel takes the next chunk of its       *)
(* stream, and no chunk of the other.                                      *)
LEMMA CarriesTail ==
    ASSUME NEW S, NEW q \in Seq(S), q # <<>>, NEW s, NEW a \in Nat,
           NEW b \in Nat, Carries(q, s, a, b)
    PROVE  IF IsChunk(Head(q), s)
             THEN /\ Head(q).n = a + 1 /\ a + 1 <= b
                  /\ Carries(Tail(q), s, a + 1, b)
             ELSE Carries(Tail(q), s, a, b)
  <1> DEFINE t == Tail(q)
  <1>1. /\ Len(q) \in Nat \ {0} /\ Len(t) = Len(q) - 1 /\ Head(q) = q[1]
        /\ \A i \in 1..Len(t) : t[i] = q[i + 1]
    BY LenProperties, HeadTailProperties
  <1> HIDE DEF t
  <1>2. \A i \in 1..Len(t) : i + 1 \in 1..Len(q) /\ 1 < i + 1
    BY <1>1
  <1>3. ASSUME NEW i \in 1..Len(q), i # 1
        PROVE  \E j \in 1..Len(t) : q[i] = t[j]
    <2>1. i - 1 \in 1..Len(t) /\ (i - 1) + 1 = i BY <1>1, <1>3
    <2>2. t[i - 1] = q[(i - 1) + 1] BY <1>1, <2>1
    <2> QED BY <2>1, <2>2
  <1>4. \A i, j \in 1..Len(t) : IsChunk(t[i], s) /\ IsChunk(t[j], s) /\ i < j
                                  => t[i].n < t[j].n
    <2> TAKE i, j \in 1..Len(t)
    <2>1. i + 1 < j + 1 <=> i < j BY <1>1
    <2> QED BY <1>1, <1>2, <2>1 DEF Carries
  <1>5. CASE IsChunk(Head(q), s)
    <2>1. 1 \in 1..Len(q) /\ q[1].n \in a + 1 .. b
      BY <1>1, <1>5 DEF Carries
    <2>2. a + 1 \in a + 1 .. b BY <2>1
    <2>3. PICK i \in 1..Len(q) : IsChunk(q[i], s) /\ q[i].n = a + 1
      BY <2>2 DEF Carries
    <2>4. i = 1
      <3>1. ~(1 < i)
        <4> SUFFICES ASSUME 1 < i PROVE FALSE OBVIOUS
        <4>1. q[1].n < q[i].n BY <1>1, <1>5, <2>1, <2>3 DEF Carries
        <4> QED BY <2>1, <2>3, <4>1
      <3> QED BY <3>1
    <2>5. q[1].n = a + 1 BY <2>3, <2>4
    <2>6. \A j \in 1..Len(t) : IsChunk(t[j], s) => t[j].n \in (a + 1) + 1 .. b
      <3> SUFFICES ASSUME NEW j \in 1..Len(t), IsChunk(t[j], s)
                   PROVE  t[j].n \in (a + 1) + 1 .. b
        OBVIOUS
      <3>1. t[j] = q[j + 1] /\ j + 1 \in 1..Len(q) /\ 1 < j + 1
        BY <1>1, <1>2
      <3>2. q[j + 1].n \in a + 1 .. b BY <3>1 DEF Carries
      <3>3. q[1].n < q[j + 1].n BY <1>1, <1>5, <2>1, <3>1 DEF Carries
      <3> QED BY <2>5, <3>1, <3>2, <3>3
    <2>7. \A k \in (a + 1) + 1 .. b :
            \E j \in 1..Len(t) : IsChunk(t[j], s) /\ t[j].n = k
      <3> SUFFICES ASSUME NEW k \in (a + 1) + 1 .. b
                   PROVE  \E j \in 1..Len(t) : IsChunk(t[j], s) /\ t[j].n = k
        OBVIOUS
      <3>1. k \in a + 1 .. b /\ k # a + 1 OBVIOUS
      <3>2. PICK j \in 1..Len(q) : IsChunk(q[j], s) /\ q[j].n = k
        BY <3>1 DEF Carries
      <3>3. j # 1 BY <2>5, <3>1, <3>2
      <3> QED BY <1>3, <3>2, <3>3
    <2>8. Carries(t, s, a + 1, b) BY <1>4, <2>6, <2>7 DEF Carries
    <2>9. Head(q).n = a + 1 /\ a + 1 <= b BY <1>1, <2>1, <2>5
    <2> QED BY <1>5, <2>8, <2>9 DEF t
  <1>6. CASE ~IsChunk(Head(q), s)
    <2>1. \A k \in a + 1 .. b :
            \E j \in 1..Len(t) : IsChunk(t[j], s) /\ t[j].n = k
      <3> TAKE k \in a + 1 .. b
      <3>1. PICK j \in 1..Len(q) : IsChunk(q[j], s) /\ q[j].n = k
        BY DEF Carries
      <3>2. j # 1 BY <1>1, <1>6, <3>1
      <3> QED BY <1>3, <3>1, <3>2
    <2>2. \A j \in 1..Len(t) : IsChunk(t[j], s) => t[j].n \in a + 1 .. b
      BY <1>1, <1>2 DEF Carries
    <2> QED BY <1>4, <1>6, <2>1, <2>2 DEF Carries, t
  <1> QED BY <1>5, <1>6

(* An event put in the channel is the next chunk of its stream, and        *)
(* changes nothing for the other.                                          *)
LEMMA CarriesAppend ==
    ASSUME NEW S, NEW q \in Seq(S), NEW m \in S, NEW s, NEW a \in Nat,
           NEW b \in Nat, a <= b, Carries(q, s, a, b)
    PROVE  /\ ~IsChunk(m, s) => Carries(Append(q, m), s, a, b)
           /\ IsChunk(m, s) /\ m.n = b + 1
                => Carries(Append(q, m), s, a, b + 1)
  <1> DEFINE r == Append(q, m)
  <1>1. /\ Len(q) \in Nat /\ Len(r) = Len(q) + 1 /\ r[Len(q) + 1] = m
        /\ \A i \in 1..Len(q) : r[i] = q[i]
    BY LenProperties, AppendProperties
  <1> HIDE DEF r
  <1>2. /\ \A i \in 1..Len(q) : i \in 1..Len(r) /\ i < Len(r)
        /\ \A i \in 1..Len(r) : i \in 1..Len(q) \/ (i = Len(r) /\ r[i] = m)
        /\ Len(r) \in 1..Len(r) /\ r[Len(r)] = m
    <2>1. Len(r) \in 1..Len(r) /\ r[Len(r)] = m BY <1>1
    <2>2. \A i \in 1..Len(q) : i \in 1..Len(r) /\ i < Len(r) BY <1>1
    <2>3. ASSUME NEW i \in 1..Len(r), i \notin 1..Len(q)
          PROVE  i = Len(r) /\ r[i] = m
      BY <1>1, <2>3
    <2> QED BY <2>1, <2>2, <2>3
  <1>3. CASE ~IsChunk(m, s)
    <2>1. \A i \in 1..Len(r) : IsChunk(r[i], s) => i \in 1..Len(q) /\ r[i] = q[i]
      BY <1>1, <1>2, <1>3
    <2>2. \A k \in a + 1 .. b :
            \E i \in 1..Len(r) : IsChunk(r[i], s) /\ r[i].n = k
      BY <1>1, <1>2 DEF Carries
    <2>3. Carries(r, s, a, b) BY <2>1, <2>2 DEF Carries
    <2> QED BY <1>3, <2>3 DEF r
  <1>4. CASE IsChunk(m, s) /\ m.n = b + 1
    <2>1. \A i \in 1..Len(r) : IsChunk(r[i], s) => r[i].n \in a + 1 .. b + 1
      <3> SUFFICES ASSUME NEW i \in 1..Len(r), IsChunk(r[i], s)
                   PROVE  r[i].n \in a + 1 .. b + 1
        OBVIOUS
      <3>1. CASE i \in 1..Len(q)
        <4>1. r[i] = q[i] BY <1>1, <3>1
        <4>2. q[i].n \in a + 1 .. b BY <3>1, <4>1 DEF Carries
        <4> QED BY <4>1, <4>2
      <3>2. CASE r[i] = m BY <1>4, <3>2
      <3> QED BY <1>2, <3>1, <3>2
    <2>2. ASSUME NEW i \in 1..Len(r), NEW j \in 1..Len(r), i < j,
                 IsChunk(r[i], s), IsChunk(r[j], s)
          PROVE  r[i].n < r[j].n
      <3>1. i \in 1..Len(q) /\ r[i] = q[i] BY <1>1, <2>2
      <3>2. CASE j \in 1..Len(q) BY <1>1, <2>2, <3>1, <3>2 DEF Carries
      <3>3. CASE r[j] = m
        <4>1. q[i].n \in a + 1 .. b BY <2>2, <3>1 DEF Carries
        <4> QED BY <1>4, <3>1, <3>3, <4>1
      <3> QED BY <1>2, <3>2, <3>3
    <2>3. ASSUME NEW k \in a + 1 .. b + 1
          PROVE  \E i \in 1..Len(r) : IsChunk(r[i], s) /\ r[i].n = k
      <3>1. CASE k = b + 1 BY <1>2, <1>4, <3>1
      <3>2. CASE k \in a + 1 .. b BY <1>1, <1>2, <3>2 DEF Carries
      <3> QED BY <3>1, <3>2
    <2>4. Carries(r, s, a, b + 1) BY <2>1, <2>2, <2>3 DEF Carries
    <2> QED BY <1>4, <2>4 DEF r
  <1> QED BY <1>3, <1>4

(* A sequence grows in one way to a given sequence.                        *)
LEMMA AppendSame ==
    ASSUME NEW S, NEW q \in Seq(S), NEW a \in S, NEW b \in S,
           Append(q, a) = Append(q, b)
    PROVE  a = b
  <1>1. Append(q, a)[Len(q) + 1] = a BY AppendProperties
  <1>2. Append(q, b)[Len(q) + 1] = b BY AppendProperties
  <1> QED BY <1>1, <1>2

(* A queue that carries the chunks after a and up to b is at least that    *)
(* long: the chunks are at different places.                               *)
LEMMA CarriesLength ==
    ASSUME NEW S, NEW q \in Seq(S), NEW s, NEW a \in Nat, NEW b \in Nat,
           a <= b, Carries(q, s, a, b)
    PROVE  b - a <= Len(q)
  <1> DEFINE Place == [k \in a + 1 .. b |->
                         CHOOSE i \in 1..Len(q) : q[i].n = k]
  <1>1. Len(q) \in Nat BY LenProperties
  <1>2. ASSUME NEW k \in a + 1 .. b
        PROVE  Place[k] \in 1..Len(q) /\ q[Place[k]].n = k
    <2>1. \E i \in 1..Len(q) : q[i].n = k BY DEF Carries
    <2> QED BY <2>1
  <1> HIDE DEF Place
  <1>3. Place \in Injection(a + 1 .. b, 1..Len(q))
    <2>1. Place \in [a + 1 .. b -> 1..Len(q)]
      BY <1>2 DEF Place
    <2>2. \A k, l \in a + 1 .. b : Place[k] = Place[l] => k = l BY <1>2
    <2> QED BY <2>1, <2>2 DEF Injection, IsInjective
  <1>4. Cardinality(a + 1 .. b) <= Cardinality(1..Len(q))
        /\ IsFiniteSet(a + 1 .. b)
    <2>1. IsFiniteSet(1..Len(q)) BY <1>1, FS_Interval
    <2> QED BY <1>3, <2>1, FS_Injection
  <1>5. Cardinality(1..Len(q)) = Len(q)
    <2>1. 1 \in Int /\ Len(q) \in Int BY <1>1
    <2>2. Cardinality(1..Len(q)) = IF 1 > Len(q) THEN 0 ELSE Len(q) - 1 + 1
      BY ONLY <2>1, FS_Interval
    <2> QED BY <1>1, <2>2
  <1>6. Cardinality(a + 1 .. b) = IF a + 1 > b THEN 0 ELSE b - (a + 1) + 1
    <2>1. a + 1 \in Int /\ b \in Int OBVIOUS
    <2> QED BY ONLY <2>1, FS_Interval
  <1> QED BY <1>1, <1>4, <1>5, <1>6

(* A queue that carries the chunks begins to.                              *)
LEMMA CarriesBegins ==
    ASSUME NEW q, NEW s, NEW a \in Nat, NEW b \in Nat, Carries(q, s, a, b)
    PROVE  Begins(q, s, a, b)
  <1>1. ASSUME NEW i \in 1..Len(q), IsChunk(q[i], s),
               NEW k \in a + 1 .. q[i].n - 1
        PROVE  \E j \in 1..Len(q) : IsChunk(q[j], s) /\ q[j].n = k
    <2>1. q[i].n \in a + 1 .. b BY <1>1 DEF Carries
    <2>2. k \in a + 1 .. b BY <1>1, <2>1
    <2> QED BY <2>2 DEF Carries
  <1> QED BY <1>1 DEF Carries, Begins

(* So does what is left of it when its first message is taken.             *)
LEMMA BeginsTail ==
    ASSUME NEW S, NEW q \in Seq(S), q # <<>>, NEW s, NEW a \in Nat,
           NEW b \in Nat, Begins(q, s, a, b)
    PROVE  IF IsChunk(Head(q), s)
             THEN /\ Head(q).n = a + 1 /\ a + 1 <= b
                  /\ Begins(Tail(q), s, a + 1, b)
             ELSE Begins(Tail(q), s, a, b)
  <1> DEFINE t == Tail(q)
  <1>1. /\ Len(q) \in Nat \ {0} /\ Len(t) = Len(q) - 1 /\ Head(q) = q[1]
        /\ \A i \in 1..Len(t) : t[i] = q[i + 1]
    BY LenProperties, HeadTailProperties
  <1> HIDE DEF t
  <1>2. \A i \in 1..Len(t) : i + 1 \in 1..Len(q) /\ 1 < i + 1
    BY <1>1
  <1>3. ASSUME NEW i \in 1..Len(q), i # 1
        PROVE  \E j \in 1..Len(t) : q[i] = t[j]
    <2>1. i - 1 \in 1..Len(t) /\ (i - 1) + 1 = i BY <1>1, <1>3
    <2>2. t[i - 1] = q[(i - 1) + 1] BY <1>1, <2>1
    <2> QED BY <2>1, <2>2
  <1>4. \A i, j \in 1..Len(t) : IsChunk(t[i], s) /\ IsChunk(t[j], s) /\ i < j
                                  => t[i].n < t[j].n
    <2> TAKE i, j \in 1..Len(t)
    <2>1. i + 1 < j + 1 <=> i < j BY <1>1
    <2> QED BY <1>1, <1>2, <2>1 DEF Begins
  <1>5. ASSUME NEW i \in 1..Len(t), IsChunk(t[i], s)
        PROVE  /\ t[i] = q[i + 1] /\ i + 1 \in 1..Len(q) /\ 1 < i + 1
               /\ t[i].n \in a + 1 .. b
               /\ \A k \in a + 1 .. t[i].n - 1 :
                    \E j \in 1..Len(q) : IsChunk(q[j], s) /\ q[j].n = k
    BY <1>1, <1>2, <1>5 DEF Begins
  <1>6. CASE IsChunk(Head(q), s)
    <2>1. 1 \in 1..Len(q) /\ q[1].n \in a + 1 .. b
      BY <1>1, <1>6 DEF Begins
    <2>2. q[1].n = a + 1
      <3> SUFFICES ASSUME q[1].n # a + 1 PROVE FALSE OBVIOUS
      <3>1. a + 1 \in a + 1 .. q[1].n - 1 BY <2>1
      <3>2. PICK j \in 1..Len(q) : IsChunk(q[j], s) /\ q[j].n = a + 1
        BY <1>1, <1>6, <2>1, <3>1 DEF Begins
      <3>3. j = 1 \/ 1 < j BY <1>1
      <3>4. CASE 1 < j
        <4>1. q[1].n < q[j].n BY <1>1, <1>6, <2>1, <3>2, <3>4 DEF Begins
        <4> QED BY <2>1, <3>2, <4>1
      <3> QED BY <3>2, <3>3, <3>4
    <2>3. ASSUME NEW i \in 1..Len(t), IsChunk(t[i], s)
          PROVE  /\ t[i].n \in (a + 1) + 1 .. b
                 /\ \A k \in (a + 1) + 1 .. t[i].n - 1 :
                      \E j \in 1..Len(t) : IsChunk(t[j], s) /\ t[j].n = k
      <3>1. q[1].n < q[i + 1].n
        BY <1>1, <1>5, <1>6, <2>1, <2>3 DEF Begins
      <3>2. t[i].n \in (a + 1) + 1 .. b BY <1>5, <2>2, <2>3, <3>1
      <3>3. ASSUME NEW k \in (a + 1) + 1 .. t[i].n - 1
            PROVE  \E j \in 1..Len(t) : IsChunk(t[j], s) /\ t[j].n = k
        <4>1. k \in a + 1 .. t[i].n - 1 /\ k # a + 1 BY <3>2
        <4>2. PICK j \in 1..Len(q) : IsChunk(q[j], s) /\ q[j].n = k
          BY <1>5, <2>3, <4>1
        <4>3. j # 1 BY <2>2, <4>1, <4>2
        <4> QED BY <1>3, <4>2, <4>3
      <3> QED BY <3>2, <3>3
    <2>4. Begins(t, s, a + 1, b) BY <1>4, <2>3 DEF Begins
    <2>5. Head(q).n = a + 1 /\ a + 1 <= b BY <1>1, <2>1, <2>2
    <2> QED BY <1>6, <2>4, <2>5 DEF t
  <1>7. CASE ~IsChunk(Head(q), s)
    <2>1. ASSUME NEW i \in 1..Len(t), IsChunk(t[i], s),
                 NEW k \in a + 1 .. t[i].n - 1
          PROVE  \E j \in 1..Len(t) : IsChunk(t[j], s) /\ t[j].n = k
      <3>1. PICK j \in 1..Len(q) : IsChunk(q[j], s) /\ q[j].n = k
        BY <1>5, <2>1
      <3>2. j # 1 BY <1>1, <1>7, <3>1
      <3> QED BY <1>3, <3>1, <3>2
    <2>2. Begins(t, s, a, b) BY <1>4, <1>5, <2>1 DEF Begins
    <2> QED BY <1>7, <2>2 DEF t
  <1> QED BY <1>6, <1>7

(* What a prefix of a sequence is made of.                                 *)
LEMMA PrefixElements ==
    ASSUME NEW S, NEW q \in Seq(S), NEW p \in Prefixes(q)
    PROVE  /\ p \in Seq(S) /\ Len(p) <= Len(q)
           /\ Len(p) \in Nat /\ Len(q) \in Nat
           /\ \A i \in 1..Len(p) : i \in 1..Len(q) /\ p[i] = q[i]
  <1>1. Len(q) \in Nat BY LenProperties
  <1>2. PICK n \in 0..Len(q) : p = SubSeq(q, 1, n) BY DEF Prefixes
  <1>3. p \in Seq(S) /\ Len(p) = n
        /\ \A i \in 1..n : p[i] = q[i]
    BY <1>1, <1>2
  <1> QED BY <1>1, <1>3

(* All of a sequence may be left of it.                                    *)
LEMMA AllIsPrefix == ASSUME NEW S, NEW q \in Seq(S) PROVE q \in Prefixes(q)
  <1>1. Len(q) \in 0..Len(q) BY LenProperties
  <1>2. q = SubSeq(q, 1, Len(q))
    OBVIOUS
  <1> QED BY <1>1, <1>2 DEF Prefixes

(* A prefix of a queue that begins to carry the chunks does so, too.       *)
LEMMA BeginsPrefix ==
    ASSUME NEW S, NEW q \in Seq(S), NEW p \in Prefixes(q), NEW s,
           NEW a \in Nat, NEW b \in Nat, Begins(q, s, a, b)
    PROVE  Begins(p, s, a, b)
  <1>1. /\ Len(p) <= Len(q) /\ Len(p) \in Nat /\ Len(q) \in Nat
        /\ \A i \in 1..Len(p) : i \in 1..Len(q) /\ p[i] = q[i]
    BY PrefixElements
  <1>2. \A i \in 1..Len(p) : IsChunk(p[i], s) => p[i].n \in a + 1 .. b
    BY <1>1 DEF Begins
  <1>3. \A i, j \in 1..Len(p) : IsChunk(p[i], s) /\ IsChunk(p[j], s) /\ i < j
                                  => p[i].n < p[j].n
    BY <1>1 DEF Begins
  <1>4. ASSUME NEW i \in 1..Len(p), IsChunk(p[i], s),
               NEW k \in a + 1 .. p[i].n - 1
        PROVE  \E j \in 1..Len(p) : IsChunk(p[j], s) /\ p[j].n = k
    <2>1. i \in 1..Len(q) /\ p[i] = q[i] BY <1>1, <1>4
    <2>2. PICK j \in 1..Len(q) : IsChunk(q[j], s) /\ q[j].n = k
      BY <1>4, <2>1 DEF Begins
    <2>3. q[i].n \in a + 1 .. b BY <1>2, <1>4, <2>1
    <2>4. k < q[i].n BY <1>4, <2>1, <2>3
    <2>5. ~(i < j)
      <3> SUFFICES ASSUME i < j PROVE FALSE OBVIOUS
      <3>1. q[i].n < q[j].n BY <1>4, <2>1, <2>2 DEF Begins
      <3> QED BY <1>4, <2>2, <2>3, <2>4, <3>1
    <2>6. j \in 1..Len(p) BY <1>1, <2>5
    <2> QED BY <1>1, <2>2, <2>6
  <1> QED BY <1>2, <1>3, <1>4 DEF Begins

(* A prefix with a message that all chunks are in front of has all chunks. *)
LEMMA CarriesPrefix ==
    ASSUME NEW S, NEW q \in Seq(S), NEW p \in Prefixes(q), NEW s,
           NEW a \in Nat, NEW b \in Nat, Carries(q, s, a, b),
           NEW x \in 1..Len(p),
           \A j \in 1..Len(q) : x < j => ~IsChunk(q[j], s)
    PROVE  Carries(p, s, a, b)
  <1>1. /\ Len(p) <= Len(q) /\ Len(p) \in Nat /\ Len(q) \in Nat
        /\ \A i \in 1..Len(p) : i \in 1..Len(q) /\ p[i] = q[i]
    BY PrefixElements
  <1>2. \A i \in 1..Len(p) : IsChunk(p[i], s) => p[i].n \in a + 1 .. b
    BY <1>1 DEF Carries
  <1>3. \A i, j \in 1..Len(p) : IsChunk(p[i], s) /\ IsChunk(p[j], s) /\ i < j
                                  => p[i].n < p[j].n
    BY <1>1 DEF Carries
  <1>4. ASSUME NEW k \in a + 1 .. b
        PROVE  \E j \in 1..Len(p) : IsChunk(p[j], s) /\ p[j].n = k
    <2>1. PICK j \in 1..Len(q) : IsChunk(q[j], s) /\ q[j].n = k
      BY DEF Carries
    <2>2. ~(x < j) BY <2>1
    <2>3. j \in 1..Len(p) BY <1>1, <2>2
    <2> QED BY <1>1, <2>1, <2>3
  <1> QED BY <1>2, <1>3, <1>4 DEF Carries
=============================================================================
