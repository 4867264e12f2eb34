-------------------------- MODULE Collector_proofs --------------------------
(* What an operation reports, proved for every set of events, every order   *)
(* and repetition of them and every limit.                                  *)
EXTENDS Collector, FiniteSetTheorems, SequenceTheorems, TLAPS

-----------------------------------------------------------------------------
(* Positions of a sequence.                                                 *)

\* A set of positions has a greatest one: the interval from it to the end is
\* a proper subset of no other.
LEMMA Greatest ==
    ASSUME NEW n \in Nat, NEW T \in SUBSET (1..n), T # {}
    PROVE  Max(T) \in T /\ \A y \in T : y <= Max(T)
<1> DEFINE U == {x..n : x \in T}
           R == StrictSubsetOrdering(Nat)
<1>1. IsWellFoundedOn(R, FiniteSubsetsOf(Nat))
  BY FS_StrictSubsetOrderingWellFounded
<1>2. U \subseteq FiniteSubsetsOf(Nat) /\ U # {}
  <2>1. \A x \in T : IsFiniteSet(x..n) /\ (x..n) \subseteq Nat
    BY FS_Interval
  <2> QED
    BY <2>1 DEF FiniteSubsetsOf
<1>3. \E u \in U : \A v \in U : <<v, u>> \notin R
  <2> HIDE DEF U, R
  <2> QED
    BY <1>1, <1>2, WFMin
<1>4. PICK x \in T : \A y \in T : <<y..n, x..n>> \notin R
  BY <1>3
<1>5. ASSUME NEW y \in T, y > x
      PROVE  FALSE
  <2>1. (y..n) \subseteq (x..n) /\ x \in x..n /\ x \notin y..n
    BY <1>5
  <2>2. y..n \in SUBSET Nat /\ x..n \in SUBSET Nat /\ y..n # x..n
    BY <2>1
  <2>3. <<y..n, x..n>> \in R
    BY <2>1, <2>2 DEF StrictSubsetOrdering
  <2> QED
    BY <1>4, <2>3
<1>6. x \in T /\ \A y \in T : x >= y
  BY <1>5
<1> QED
  BY <1>6 DEF Max

LEMMA Appended ==
    ASSUME NEW S, NEW l \in Seq(S), NEW e \in S
    PROVE  /\ Append(l, e) \in Seq(S) /\ Append(l, e) # <<>>
           /\ Len(l) \in Nat /\ Len(Append(l, e)) = Len(l) + 1
           /\ DOMAIN l = 1..Len(l)
           /\ DOMAIN Append(l, e) = 1..Len(l) \union {Len(l) + 1}
           /\ Append(l, e)[Len(l) + 1] = e
           /\ \A k \in 1..Len(l) : Append(l, e)[k] = l[k]
           /\ Last(Append(l, e)) = e
<1>1. /\ Append(l, e) \in Seq(S) /\ Append(l, e) # <<>>
      /\ Len(l) \in Nat /\ Len(Append(l, e)) = Len(l) + 1
      /\ DOMAIN l = 1..Len(l)
      /\ DOMAIN Append(l, e) = 1..(Len(l) + 1)
      /\ Append(l, e)[Len(l) + 1] = e
      /\ \A k \in 1..Len(l) : Append(l, e)[k] = l[k]
  OBVIOUS
<1> QED
  BY <1>1 DEF Last

-----------------------------------------------------------------------------
(* Induction and flattened sequences.                                       *)

\* A set of natural numbers that has 0 and the successor of each of its
\* members has them all: the numbers outside it, were there any, would have a
\* least one.
LEMMA Induction ==
    ASSUME NEW S, 0 \in S, \A k \in Nat : k \in S => k + 1 \in S
    PROVE  \A n \in Nat : n \in S
<1> SUFFICES ASSUME NEW n \in Nat, n \notin S
             PROVE  FALSE
  OBVIOUS
<1> DEFINE T == {k \in 0..n : n - k \notin S}
<1>1. T \in SUBSET (0..n) /\ 0 \in T /\ n \notin T
  OBVIOUS
<1>2. \A k \in T : k + 1 \in T
  <2> SUFFICES ASSUME NEW k \in T PROVE k + 1 \in T
    OBVIOUS
  <2>1. k \in 0..n /\ k # n /\ n - k \notin S
    OBVIOUS
  <2>2. n - (k + 1) \in Nat /\ (n - (k + 1)) + 1 = n - k
    BY <2>1
  <2>3. n - (k + 1) \notin S
    BY <2>1, <2>2
  <2> QED
    BY <2>1, <2>3
<1>3. {k + 1 : k \in T} \subseteq T /\ {k + 1 : k \in T} # {}
  BY <1>1, <1>2
<1>4. PICK m \in T : \A y \in T : y <= m
  <2> DEFINE U == {k + 1 : k \in T}
  <2>1. U \in SUBSET (1..(n + 1)) /\ U # {} /\ n + 1 \in Nat
    BY <1>1
  <2>2. Max(U) \in U /\ \A y \in U : y <= Max(U)
    <3> HIDE DEF U
    <3> QED
      BY <2>1, Greatest
  <2>3. PICK m \in T : Max(U) = m + 1
    BY <2>2
  <2>4. ASSUME NEW y \in T PROVE y <= m
    <3>1. y + 1 \in U
      OBVIOUS
    <3>2. y + 1 <= m + 1
      BY <2>2, <2>3, <3>1
    <3> QED
      BY <1>1, <3>2
  <2> QED
    BY <2>4
<1>5. m + 1 \in T /\ m \in 0..n
  BY <1>1, <1>2
<1> QED
  BY <1>4, <1>5

\* flat concatenates the first n entries of ss, one after another.
Flattens(ss, flat, n) ==
    /\ flat[0] = <<>>
    /\ \A i \in 1..n : flat[i] = flat[i - 1] \o ss[i]

LEMMA FlattensExists ==
    ASSUME NEW S, NEW ss \in Seq(Seq(S))
    PROVE  \E flat \in [0..Len(ss) -> Seq(S)] : Flattens(ss, flat, Len(ss))
<1> DEFINE Upto(n) == \E flat \in [0..n -> Seq(S)] :
                         /\ flat[0] = <<>>
                         /\ \A i \in 1..n : flat[i] = flat[i - 1] \o ss[i]
           good == {n \in Nat : n <= Len(ss) => Upto(n)}
<1>1. Len(ss) \in Nat
  OBVIOUS
<1>2. 0 \in good
  <2>1. /\ [i \in 0..0 |-> <<>>] \in [0..0 -> Seq(S)]
        /\ [i \in 0..0 |-> <<>>][0] = <<>>
        /\ 1..0 = {}
    OBVIOUS
  <2>2. Upto(0)
    BY <2>1
  <2> QED
    BY <2>2
<1>3. ASSUME NEW n \in Nat, n + 1 <= Len(ss), Upto(n)
      PROVE  Upto(n + 1)
  <2>1. PICK flat \in [0..n -> Seq(S)] :
           flat[0] = <<>> /\ \A i \in 1..n : flat[i] = flat[i - 1] \o ss[i]
    BY <1>3
  <2> DEFINE more == [i \in 0..(n + 1) |-> IF i <= n THEN flat[i] ELSE flat[n] \o ss[n + 1]]
  <2>2. ss[n + 1] \in Seq(S) /\ flat[n] \in Seq(S) /\ n \in Nat
    BY <1>3
  <2>3. flat[n] \o ss[n + 1] \in Seq(S)
    BY <2>2
  <2>4. more \in [0..(n + 1) -> Seq(S)]
    BY <2>2, <2>3
  <2>5. more[0] = <<>> /\ more[n + 1] = more[n] \o ss[n + 1]
    <3>1. {0, n, n + 1} \subseteq 0..(n + 1) /\ 0 <= n /\ n <= n /\ ~(n + 1 <= n)
      OBVIOUS
    <3> QED
      BY <2>1, <3>1
  <2>6. ASSUME NEW i \in 1..n PROVE more[i] = more[i - 1] \o ss[i]
    <3>1. i \in 0..(n + 1) /\ i <= n /\ i - 1 \in 0..(n + 1) /\ i - 1 <= n
      BY <2>2
    <3> QED
      BY <2>1, <3>1
  <2> HIDE DEF more
  <2>7. \A i \in 1..(n + 1) : i \in 1..n \/ i = n + 1
    BY <2>2
  <2>8. \A i \in 1..(n + 1) : more[i] = more[i - 1] \o ss[i]
    <3> SUFFICES ASSUME NEW i \in 1..(n + 1) PROVE more[i] = more[i - 1] \o ss[i]
      OBVIOUS
    <3>1. CASE i = n + 1
      <4>1. i - 1 = n
        BY <2>2, <3>1
      <4> QED
        BY <2>5, <3>1, <4>1
    <3> QED
      BY <2>6, <2>7, <3>1
  <2> QED
    BY <2>4, <2>5, <2>8
<1>4. \A n \in Nat : n \in good => n + 1 \in good
  <2> HIDE DEF Upto
  <2>1. \A n \in Nat : n + 1 \in Nat /\ (n + 1 <= Len(ss) => n <= Len(ss))
    BY <1>1
  <2> QED
    BY <1>3, <2>1
<1>5. Len(ss) \in good
  <2> HIDE DEF good
  <2> QED
    BY <1>1, <1>2, <1>4, Induction
<1>6. Upto(Len(ss))
  <2> HIDE DEF Upto
  <2> QED
    BY <1>1, <1>5
<1> QED
  BY <1>1, <1>6 DEF Flattens

\* Two such concatenations agree as far as the entries do.
LEMMA FlattensAgree ==
    ASSUME NEW ss, NEW tt, NEW f, NEW g, NEW n \in Nat,
           Flattens(ss, f, n), Flattens(tt, g, n), \A i \in 1..n : ss[i] = tt[i]
    PROVE  f[n] = g[n]
<1> DEFINE same == {k \in Nat : k <= n => f[k] = g[k]}
<1>1. 0 \in same
  BY DEF Flattens
<1>2. ASSUME NEW k \in Nat, k \in same
      PROVE  k + 1 \in same
  <2> SUFFICES ASSUME k + 1 <= n PROVE f[k + 1] = g[k + 1]
    OBVIOUS
  <2>1. k + 1 \in 1..n /\ (k + 1) - 1 = k /\ f[k] = g[k]
    BY <1>2
  <2> QED
    BY <2>1 DEF Flattens
<1>3. n \in same
  <2> HIDE DEF same
  <2> QED
    BY <1>1, <1>2, Induction
<1> QED
  BY <1>3

LEMMA FlattenIs ==
    ASSUME NEW S, NEW ss \in Seq(Seq(S)), NEW flat, Flattens(ss, flat, Len(ss))
    PROVE  FlattenSeq(ss) = flat[Len(ss)]
<1>1. Len(ss) \in Nat
  OBVIOUS
<1>2. CASE Len(ss) = 0
  <2>1. ss = <<>>
    BY <1>2
  <2> QED
    BY <1>2, <2>1 DEF FlattenSeq, Flattens
<1>3. CASE Len(ss) # 0
  <2>0. /\ flat[0] = <<>>
        /\ \A i \in 1..Len(ss) : flat[i] = flat[i - 1] \o ss[i] /\ ss[i] \in Seq(S)
    <3>1. \A i \in 1..Len(ss) : ss[i] \in Seq(S)
      OBVIOUS
    <3>2. flat[0] = <<>> /\ \A i \in 1..Len(ss) : flat[i] = flat[i - 1] \o ss[i]
      BY DEF Flattens
    <3> QED
      BY <3>1, <3>2
  <2> DEFINE Body(f) == [i \in 1..Len(ss) |-> IF i = 1 THEN ss[i] ELSE f[i - 1] \o ss[i]]
             g == [i \in 1..Len(ss) |-> flat[i]]
             h == CHOOSE f : f = Body(f)
  <2>1. g = Body(g)
    <3>1. ASSUME NEW i \in 1..Len(ss)
          PROVE  g[i] = IF i = 1 THEN ss[i] ELSE g[i - 1] \o ss[i]
      <4>1. CASE i = 1
        <5>1. flat[i] = flat[i - 1] \o ss[i] /\ ss[i] \in Seq(S)
          BY <2>0
        <5>2. i - 1 = 0 /\ g[i] = flat[i]
          BY <4>1
        <5>3. g[i] = <<>> \o ss[i]
          BY <2>0, <5>1, <5>2
        <5> QED
          BY <4>1, <5>1, <5>3
      <4>2. CASE i # 1
        <5>1. i - 1 \in 1..Len(ss)
          BY <1>1, <4>2
        <5>2. flat[i] = flat[i - 1] \o ss[i]
          BY <2>0
        <5> QED
          BY <4>2, <5>1, <5>2
      <4> QED
        BY <4>1, <4>2
    <3> QED
      BY <3>1
  <2>2. h = Body(h)
    <3> HIDE DEF Body
    <3> QED
      BY <2>1, Zenon
  <2>3. FlattenSeq(ss) = h[Len(ss)]
    BY <1>3, Zenon DEF FlattenSeq
  <2> HIDE DEF h
  <2> DEFINE k == [i \in 0..Len(ss) |-> IF i = 0 THEN <<>> ELSE h[i]]
  <2>4. k[0] = <<>>
    BY <1>1
  <2>5. ASSUME NEW i \in 1..Len(ss)
        PROVE  k[i] = k[i - 1] \o ss[i]
    <3>1. h[i] = IF i = 1 THEN ss[i] ELSE h[i - 1] \o ss[i]
      BY <2>2
    <3>2. k[i] = h[i] /\ ss[i] \in Seq(S)
      BY <1>1
    <3>3. CASE i = 1
      <4>1. k[i - 1] = <<>> /\ <<>> \o ss[i] = ss[i]
        BY <2>4, <3>2, <3>3
      <4> QED
        BY <3>1, <3>2, <3>3, <4>1
    <3>4. CASE i # 1
      <4>1. i - 1 \in 0..Len(ss) /\ i - 1 # 0
        BY <1>1, <3>4
      <4> QED
        BY <3>1, <3>2, <3>4, <4>1
    <3> QED
      BY <3>3, <3>4
  <2>6. k[Len(ss)] = h[Len(ss)]
    BY <1>1, <1>3
  <2> HIDE DEF k
  <2>7. k[Len(ss)] = flat[Len(ss)]
    <3>1. Flattens(ss, k, Len(ss))
      BY <2>4, <2>5 DEF Flattens
    <3> QED
      BY <1>1, <3>1, FlattensAgree
  <2> QED
    BY <2>3, <2>6, <2>7
<1> QED
  BY <1>2, <1>3

LEMMA FlattenAppend ==
    ASSUME NEW S, NEW ss \in Seq(Seq(S)), NEW s \in Seq(S)
    PROVE  /\ FlattenSeq(ss) \in Seq(S)
           /\ Append(ss, s) \in Seq(Seq(S))
           /\ FlattenSeq(Append(ss, s)) = FlattenSeq(ss) \o s
<1> DEFINE tt == Append(ss, s)
           n == Len(ss)
<1>1. /\ tt \in Seq(Seq(S)) /\ n \in Nat /\ Len(tt) = n + 1 /\ tt[n + 1] = s
      /\ \A i \in 1..n : tt[i] = ss[i]
  BY Appended
<1>2. PICK f : f \in [0..n -> Seq(S)] /\ Flattens(ss, f, n)
  BY FlattensExists
<1> HIDE DEF tt
<1>3. PICK g : Flattens(tt, g, n + 1)
  BY <1>1, FlattensExists
<1>4. FlattenSeq(ss) = f[n]
  BY <1>2, FlattenIs
<1>5. FlattenSeq(tt) = g[n + 1]
  BY <1>1, <1>3, FlattenIs
<1>6. g[n + 1] = g[n] \o s
  <2>1. n + 1 \in 1..Len(tt) /\ (n + 1) - 1 = n
    BY <1>1
  <2> QED
    BY <1>1, <1>3, <2>1 DEF Flattens
<1>7. f[n] = g[n]
  <2>1. Flattens(tt, g, n)
    <3>1. \A i \in 1..n : i \in 1..(n + 1)
      BY <1>1
    <3> QED
      BY <1>3, <3>1 DEF Flattens
  <2>2. \A i \in 1..n : ss[i] = tt[i]
    BY <1>1
  <2>3. n \in Nat
    BY <1>1
  <2>4. Flattens(ss, f, n)
    BY <1>2
  <2> HIDE DEF n
  <2> QED
    BY <2>1, <2>2, <2>3, <2>4, FlattensAgree
<1>8. f[n] \in Seq(S)
  <2>1. n \in 0..n
    BY <1>1
  <2> QED
    BY <1>2, <2>1
<1> QED
  BY <1>1, <1>4, <1>5, <1>6, <1>7, <1>8 DEF tt

\* Empty entries leave nothing.
LEMMA FlattenEmpty ==
    ASSUME NEW S, NEW ss \in Seq(Seq(S)), \A i \in 1..Len(ss) : ss[i] = <<>>
    PROVE  FlattenSeq(ss) = <<>>
<1> DEFINE flat == [i \in 0..Len(ss) |-> <<>>]
<1>1. Len(ss) \in Nat
  OBVIOUS
<1>2. Flattens(ss, flat, Len(ss))
  <2>1. \A i \in 1..Len(ss) : i \in 0..Len(ss) /\ i - 1 \in 0..Len(ss)
    BY <1>1
  <2>2. <<>> \o <<>> = <<>>
    OBVIOUS
  <2>3. \A i \in 1..Len(ss) : flat[i] = flat[i - 1] \o ss[i]
    BY <2>1, <2>2
  <2>4. flat[0] = <<>>
    BY <1>1
  <2> HIDE DEF flat
  <2> QED
    BY <2>3, <2>4 DEF Flattens
<1>3. FlattenSeq(ss) = flat[Len(ss)]
  <2> HIDE DEF flat
  <2> QED
    BY <1>2, FlattenIs
<1> QED
  BY <1>1, <1>3

-----------------------------------------------------------------------------
(* What a reader of the deliveries assembles.                               *)

\* The artifacts any event carries, their ids and the chunks of their texts.
Sent == UNION {ToSet(ArtifactsOf(e)) : e \in Events}
Ids == {a.id : a \in Sent}
Chunks == UNION {ToSet(a.text) : a \in Sent}
Delivery == [id : Ids, text : Seq(Chunks), append : BOOLEAN]
Entry == [key : (Ids \ {None}) \union Numbers, text : Seq(Chunks)]

\* The parts of ArtifactsMatchLog for any deliveries.
Named(d) == {k \in DOMAIN d : Proper(d[k].id)}
Of(d, id) == {k \in Named(d) : d[k].id = id}
First(d, id) == CHOOSE k \in Of(d, id) : \A j \in Of(d, id) : k <= j
Fresh(d, id) == {k \in Of(d, id) : ~d[k].append} \union {First(d, id)}
Start(d, id) == CHOOSE k \in Fresh(d, id) : \A j \in Fresh(d, id) : j <= k
Parts(d, id) ==
    [k \in DOMAIN d |-> IF k \in Of(d, id) /\ k >= Start(d, id) THEN d[k].text ELSE <<>>]
Reader(d, id) == FlattenSeq(Parts(d, id))

\* The least and the greatest member of a set of positions.
LEMMA Extremes ==
    ASSUME NEW n \in Nat, NEW T \in SUBSET (1..n), T # {}
    PROVE  /\ \E x \in T : \A y \in T : x <= y
           /\ \E x \in T : \A y \in T : y <= x
<1>1. \E x \in T : \A y \in T : y <= x
  BY Greatest
<1>2. \E x \in T : \A y \in T : x <= y
  <2> DEFINE U == {(n + 1) - x : x \in T}
  <2>1. U \in SUBSET (1..n) /\ U # {}
    <3>1. \A x \in T : x \in 1..n /\ (n + 1) - x \in 1..n
      OBVIOUS
    <3> QED
      BY <3>1
  <2>2. Max(U) \in U /\ \A y \in U : y <= Max(U)
    <3> HIDE DEF U
    <3> QED
      BY <2>1, Greatest
  <2>3. PICK x \in T : Max(U) = (n + 1) - x
    BY <2>2
  <2>4. \A y \in T : (n + 1) - y <= (n + 1) - x
    BY <2>2, <2>3
  <2>5. \A y \in T : x <= y
    BY <2>4
  <2> QED
    BY <2>5
<1> QED
  BY <1>1, <1>2

LEMMA ReaderPlaces ==
    ASSUME NEW d \in Seq(Delivery), NEW id
    PROVE  /\ Len(d) \in Nat /\ DOMAIN d = 1..Len(d)
           /\ Of(d, id) \subseteq 1..Len(d)
           /\ Of(d, id) # {} =>
                 /\ First(d, id) \in Of(d, id)
                 /\ \A j \in Of(d, id) : First(d, id) <= j
                 /\ Fresh(d, id) \subseteq Of(d, id)
                 /\ Start(d, id) \in Fresh(d, id)
                 /\ \A j \in Fresh(d, id) : j <= Start(d, id)
           /\ Parts(d, id) \in Seq(Seq(Chunks))
           /\ Len(Parts(d, id)) = Len(d) /\ DOMAIN Parts(d, id) = 1..Len(d)
<1>1. Len(d) \in Nat /\ DOMAIN d = 1..Len(d)
  OBVIOUS
<1>2. Of(d, id) \subseteq 1..Len(d)
  BY <1>1 DEF Of, Named
<1>3. ASSUME Of(d, id) # {}
      PROVE  /\ First(d, id) \in Of(d, id)
             /\ \A j \in Of(d, id) : First(d, id) <= j
  BY <1>1, <1>2, <1>3, Extremes DEF First
<1>4. ASSUME Of(d, id) # {}
      PROVE  /\ Fresh(d, id) \subseteq Of(d, id)
             /\ Start(d, id) \in Fresh(d, id)
             /\ \A j \in Fresh(d, id) : j <= Start(d, id)
  <2>1. Fresh(d, id) \subseteq Of(d, id) /\ Fresh(d, id) # {}
    BY <1>3, <1>4 DEF Fresh
  <2>2. Fresh(d, id) \in SUBSET (1..Len(d))
    BY <1>2, <2>1
  <2>3. \E x \in Fresh(d, id) : \A y \in Fresh(d, id) : y <= x
    BY <1>1, <2>1, <2>2, Extremes
  <2> QED
    BY <2>1, <2>3 DEF Start
<1>5. /\ Parts(d, id) \in Seq(Seq(Chunks))
      /\ Len(Parts(d, id)) = Len(d) /\ DOMAIN Parts(d, id) = 1..Len(d)
  <2>1. \A k \in 1..Len(d) : d[k].text \in Seq(Chunks)
    <3>1. \A k \in 1..Len(d) : d[k] \in Delivery
      OBVIOUS
    <3> QED
      BY <3>1 DEF Delivery
  <2>2. <<>> \in Seq(Chunks)
    OBVIOUS
  <2> QED
    BY <1>1, <2>1, <2>2 DEF Parts
<1> QED
  BY <1>1, <1>2, <1>3, <1>4, <1>5

\* A delivery that is not of this id leaves what the reader assembles.
LEMMA ReaderStays ==
    ASSUME NEW d \in Seq(Delivery), NEW x \in Delivery, NEW id, Proper(id) => x.id # id
    PROVE  /\ Of(Append(d, x), id) = Of(d, id)
           /\ First(Append(d, x), id) = First(d, id)
           /\ Of(d, id) # {} => Reader(Append(d, x), id) = Reader(d, id)
<1> DEFINE m == Append(d, x)
           n == Len(d) + 1
<1>1. /\ m \in Seq(Delivery) /\ Len(m) = n /\ Len(d) \in Nat /\ DOMAIN d = 1..Len(d)
      /\ DOMAIN m = 1..Len(d) \union {n} /\ m[n] = x
      /\ \A k \in 1..Len(d) : m[k] = d[k]
  BY Appended
<1> HIDE DEF m
<1>2. Of(m, id) = Of(d, id)
  BY <1>1 DEF Of, Named
<1>3. First(m, id) = First(d, id)
  BY <1>2 DEF First
<1>4. ASSUME Of(d, id) # {}
      PROVE  Reader(m, id) = Reader(d, id)
  <2>1. First(d, id) \in Of(d, id) /\ Of(d, id) \subseteq 1..Len(d)
    BY <1>4, ReaderPlaces
  <2>2. Fresh(m, id) = Fresh(d, id)
    BY <1>1, <1>2, <1>3, <2>1 DEF Fresh
  <2>3. Start(m, id) = Start(d, id)
    BY <2>2 DEF Start
  <2>4. Parts(m, id) = Append(Parts(d, id), <<>>)
    <3>1. n \notin Of(m, id)
      BY <1>1, <1>2, <2>1
    <3>2. Parts(d, id) \in Seq(Seq(Chunks)) /\ Len(Parts(d, id)) = Len(d)
      BY ReaderPlaces
    <3>3. DOMAIN Parts(m, id) = 1..n /\ DOMAIN Parts(d, id) = 1..Len(d)
      BY <1>1 DEF Parts
    <3>4. Parts(m, id)[n] = <<>>
      BY <1>1, <3>1 DEF Parts
    <3>5. \A k \in 1..Len(d) : Parts(m, id)[k] = Parts(d, id)[k]
      BY <1>1, <1>2, <2>3 DEF Parts
    <3>6. Parts(m, id) \in Seq(Seq(Chunks)) /\ Len(Parts(m, id)) = n
      BY <1>1, ReaderPlaces
    <3> QED
      BY <1>1, <3>2, <3>3, <3>4, <3>5, <3>6
  <2>5. FlattenSeq(Append(Parts(d, id), <<>>)) = FlattenSeq(Parts(d, id)) \o <<>>
        /\ FlattenSeq(Parts(d, id)) \in Seq(Chunks)
    <3>1. Parts(d, id) \in Seq(Seq(Chunks)) /\ <<>> \in Seq(Chunks)
      BY ReaderPlaces
    <3> QED
      BY <3>1, FlattenAppend
  <2> QED
    BY <2>4, <2>5 DEF Reader
<1> QED
  BY <1>2, <1>3, <1>4 DEF m

\* A delivery of the id extends what the reader has when it appends to an
\* artifact that is known, and starts it afresh otherwise.
LEMMA ReaderGrows ==
    ASSUME NEW d \in Seq(Delivery), NEW x \in Delivery, Proper(x.id)
    PROVE  LET m == Append(d, x) IN
           /\ Of(m, x.id) = Of(d, x.id) \union {Len(d) + 1}
           /\ First(m, x.id) = IF Of(d, x.id) = {} THEN Len(d) + 1 ELSE First(d, x.id)
           /\ Reader(m, x.id) = IF x.append /\ Of(d, x.id) # {}
                                THEN Reader(d, x.id) \o x.text ELSE x.text
<1> DEFINE m == Append(d, x)
           n == Len(d) + 1
           id == x.id
<1>1. /\ m \in Seq(Delivery) /\ Len(m) = n /\ Len(d) \in Nat /\ DOMAIN d = 1..Len(d)
      /\ DOMAIN m = 1..Len(d) \union {n} /\ m[n] = x
      /\ \A k \in 1..Len(d) : m[k] = d[k]
  BY Appended
<1>2. x.text \in Seq(Chunks) /\ x.append \in BOOLEAN
  BY DEF Delivery
<1> HIDE DEF m, id
<1>3. Of(m, id) = Of(d, id) \union {n} /\ Of(d, id) \subseteq 1..Len(d)
  BY <1>1 DEF Of, Named, id
<1>4. /\ First(m, id) \in Of(m, id) /\ \A j \in Of(m, id) : First(m, id) <= j
      /\ Start(m, id) \in Fresh(m, id) /\ \A j \in Fresh(m, id) : j <= Start(m, id)
      /\ Fresh(m, id) \subseteq Of(m, id)
  BY <1>1, <1>3, ReaderPlaces
<1>5. First(m, id) = IF Of(d, id) = {} THEN n ELSE First(d, id)
  <2>1. CASE Of(d, id) = {}
    BY <1>3, <1>4, <2>1
  <2>2. CASE Of(d, id) # {}
    <3>1. First(d, id) \in Of(d, id) /\ \A j \in Of(d, id) : First(d, id) <= j
      BY <2>2, ReaderPlaces
    <3>2. First(d, id) \in Of(m, id) /\ First(d, id) < n
      BY <1>1, <1>3, <3>1
    <3>3. First(m, id) \in Of(d, id) /\ First(m, id) <= First(d, id)
      BY <1>1, <1>3, <1>4, <3>2
    <3>4. First(d, id) <= First(m, id) /\ First(d, id) \in Nat /\ First(m, id) \in Nat
      BY <1>1, <1>3, <3>1, <3>3
    <3> QED
      BY <2>2, <3>3, <3>4
  <2> QED
    BY <2>1, <2>2
<1>6. /\ DOMAIN Parts(m, id) = 1..n /\ Parts(m, id) \in Seq(Seq(Chunks))
      /\ Len(Parts(m, id)) = n /\ DOMAIN Parts(d, id) = 1..Len(d)
      /\ Parts(d, id) \in Seq(Seq(Chunks)) /\ Len(Parts(d, id)) = Len(d)
  BY <1>1, ReaderPlaces
<1>7. Parts(m, id)[n] = x.text
  <2>1. n \in Of(m, id) /\ Start(m, id) <= n /\ Start(m, id) \in Nat
    BY <1>1, <1>3, <1>4
  <2> QED
    BY <1>1, <2>1 DEF Parts
<1>8. CASE x.append /\ Of(d, id) # {}
  <2>1. Fresh(m, id) = Fresh(d, id)
    <3>1. First(m, id) = First(d, id)
      BY <1>5, <1>8
    <3> QED
      BY <1>1, <1>3, <1>8, <3>1 DEF Fresh
  <2>2. Start(m, id) = Start(d, id)
    BY <2>1 DEF Start
  <2>3. \A k \in 1..Len(d) : Parts(m, id)[k] = Parts(d, id)[k]
    <3>1. \A k \in 1..Len(d) : k \in Of(m, id) <=> k \in Of(d, id)
      BY <1>1, <1>3
    <3> QED
      BY <1>1, <2>2, <3>1 DEF Parts
  <2>4. Parts(m, id) = Append(Parts(d, id), x.text)
    BY <1>1, <1>2, <1>6, <1>7, <2>3
  <2>5. Reader(m, id) = Reader(d, id) \o x.text
    <3>1. Parts(d, id) \in Seq(Seq(Chunks)) /\ x.text \in Seq(Chunks)
      BY <1>2, <1>6
    <3>2. FlattenSeq(Append(Parts(d, id), x.text)) = FlattenSeq(Parts(d, id)) \o x.text
      BY ONLY <3>1, FlattenAppend
    <3> QED
      BY <2>4, <3>2 DEF Reader
  <2> QED
    BY <1>3, <1>5, <1>8, <2>5 DEF m, id
<1>9. CASE ~(x.append /\ Of(d, id) # {})
  <2>1. n \in Fresh(m, id)
    <3>1. n \in Of(m, id) /\ m[n] = x
      BY <1>1, <1>3
    <3>2. ~x.append => n \in Fresh(m, id)
      BY <3>1 DEF Fresh
    <3>3. Of(d, id) = {} => n \in Fresh(m, id)
      BY <1>5 DEF Fresh
    <3> QED
      BY <1>9, <3>2, <3>3
  <2>2. Start(m, id) = n
    <3>1. Start(m, id) \in 1..n /\ n <= Start(m, id)
      BY <1>1, <1>3, <1>4, <2>1
    <3> QED
      BY <1>1, <3>1
  <2> DEFINE before == [k \in 1..Len(d) |-> <<>>]
  <2>3. before \in Seq(Seq(Chunks)) /\ Len(before) = Len(d) /\ DOMAIN before = 1..Len(d)
        /\ \A k \in 1..Len(d) : before[k] = <<>>
    BY <1>1
  <2>4. \A k \in 1..Len(d) : Parts(m, id)[k] = <<>>
    <3>1. \A k \in 1..Len(d) : ~(k >= n)
      BY <1>1
    <3> QED
      BY <1>1, <2>2, <3>1 DEF Parts
  <2> HIDE DEF before
  <2>5. Parts(m, id) = Append(before, x.text)
    BY <1>1, <1>2, <1>6, <1>7, <2>3, <2>4
  <2>6. FlattenSeq(before) = <<>>
    BY <2>3, FlattenEmpty
  <2>7. FlattenSeq(Append(before, x.text)) = FlattenSeq(before) \o x.text
    <3>1. before \in Seq(Seq(Chunks)) /\ x.text \in Seq(Chunks)
      BY <1>2, <2>3
    <3> QED
      BY ONLY <3>1, FlattenAppend
  <2>8. Reader(m, id) = x.text
    <3>1. <<>> \o x.text = x.text
      BY <1>2
    <3>2. Reader(m, id) = FlattenSeq(Parts(m, id))
      BY DEF Reader
    <3> QED
      BY ONLY <2>5, <2>6, <2>7, <3>1, <3>2
  <2> QED
    BY <1>3, <1>5, <1>9, <2>8 DEF m, id
<1> QED
  BY <1>8, <1>9

-----------------------------------------------------------------------------
(* The artifacts after any deliveries.                                      *)

\* What ArtifactsMatchLog says of the artifacts with an id of their own.
Matches(dict, d) ==
    /\ dict \in Seq(Entry)
    /\ d \in Seq(Delivery)
    /\ \A id : Proper(id) => (Of(d, id) # {} <=> \E k \in 1..Len(dict) : dict[k].key = id)
    /\ \A k \in 1..Len(dict) : Proper(dict[k].key) => dict[k].text = Reader(d, dict[k].key)
    /\ \A j, k \in 1..Len(dict) :
          j < k /\ Proper(dict[j].key) /\ Proper(dict[k].key)
             => First(d, dict[j].key) < First(d, dict[k].key)

\* An id the agent chose is its own key, and has a place once it was delivered.
LEMMA OwnPlace ==
    ASSUME NEW dict, NEW d, Matches(dict, d), NEW id, Proper(id)
    PROVE  /\ Key(dict, id) = id
           /\ id \in Keys(dict) <=> Of(d, id) # {}
<1>1. DOMAIN dict = 1..Len(dict)
  BY DEF Matches
<1>2. Of(d, id) # {} <=> \E k \in 1..Len(dict) : dict[k].key = id
  BY DEF Matches
<1> QED
  BY <1>1, <1>2 DEF Key, Keys, Proper

\* A key that is not known yet takes the next place.
LEMMA MatchesNew ==
    ASSUME NEW dict, NEW d, Matches(dict, d), NEW x \in Delivery, NEW y \in Entry,
           y.text = x.text,
           Proper(x.id) => y.key = x.id /\ Of(d, x.id) = {},
           ~Proper(x.id) => y.key \in Numbers
    PROVE  Matches(Append(dict, y), Append(d, x))
<1> DEFINE new == Append(dict, y)
           m == Append(d, x)
           p == Len(dict) + 1
<1>1. /\ new \in Seq(Entry) /\ Len(new) = p /\ Len(dict) \in Nat /\ new[p] = y
      /\ \A k \in 1..Len(dict) : new[k] = dict[k]
      /\ m \in Seq(Delivery) /\ Len(d) \in Nat /\ d \in Seq(Delivery)
  BY Appended DEF Matches
<1>2. \A k \in 1..p : k \in 1..Len(dict) \/ k = p
  BY <1>1
<1>3. \A k \in 1..Len(dict) : k \in 1..p /\ k < p /\ ~(p < k)
  BY <1>1
<1>0. Proper(y.key) => y.key = x.id /\ Proper(x.id)
  BY DEF Proper
<1> HIDE DEF new, m, p
<1>4. \A k \in 1..Len(dict) : Proper(dict[k].key) =>
         /\ Of(d, dict[k].key) # {} /\ x.id # dict[k].key
  BY DEF Matches
<1>5. \A id : Proper(id) /\ id # x.id =>
         /\ Of(m, id) = Of(d, id) /\ First(m, id) = First(d, id)
         /\ Of(d, id) # {} => Reader(m, id) = Reader(d, id)
  BY <1>1, ReaderStays DEF m
<1>6. Proper(x.id) =>
         /\ Of(m, x.id) # {} /\ First(m, x.id) = Len(d) + 1
         /\ Reader(m, x.id) = x.text
  <2> SUFFICES ASSUME Proper(x.id)
               PROVE  /\ Of(m, x.id) # {} /\ First(m, x.id) = Len(d) + 1
                      /\ Reader(m, x.id) = x.text
    OBVIOUS
  <2>1. /\ Of(m, x.id) = Of(d, x.id) \union {Len(d) + 1}
        /\ First(m, x.id) = IF Of(d, x.id) = {} THEN Len(d) + 1 ELSE First(d, x.id)
        /\ Reader(m, x.id) = IF x.append /\ Of(d, x.id) # {}
                             THEN Reader(d, x.id) \o x.text ELSE x.text
    BY <1>1, ReaderGrows DEF m
  <2> QED
    BY <2>1
<1>7. ASSUME NEW id, Proper(id)
      PROVE  Of(m, id) # {} <=> \E k \in 1..p : new[k].key = id
  <2>1. CASE id = x.id
    <3>1. p \in 1..p
      BY <1>1 DEF p
    <3> QED
      BY <1>1, <1>6, <1>7, <2>1, <3>1
  <2>2. CASE id # x.id
    <3>1. Of(d, id) # {} <=> \E k \in 1..Len(dict) : dict[k].key = id
      BY <1>7 DEF Matches
    <3> QED
      BY <1>0, <1>1, <1>2, <1>3, <1>5, <1>7, <2>2, <3>1
  <2> QED
    BY <2>1, <2>2
<1>8. ASSUME NEW k \in 1..p, Proper(new[k].key)
      PROVE  new[k].text = Reader(m, new[k].key)
  <2>1. CASE k = p
    BY <1>0, <1>1, <1>6, <1>8, <2>1
  <2>2. CASE k \in 1..Len(dict)
    <3>1. dict[k].text = Reader(d, dict[k].key)
      BY <1>1, <1>8, <2>2 DEF Matches
    <3> QED
      BY <1>1, <1>4, <1>5, <1>8, <2>2, <3>1
  <2> QED
    BY <1>2, <2>1, <2>2
<1>9. ASSUME NEW j \in 1..p, NEW k \in 1..p, j < k,
             Proper(new[j].key), Proper(new[k].key)
      PROVE  First(m, new[j].key) < First(m, new[k].key)
  <2>1. j \in 1..Len(dict)
    BY <1>2, <1>3, <1>9
  <2>2. First(m, new[j].key) = First(d, new[j].key) /\ Of(d, new[j].key) # {}
    BY <1>1, <1>4, <1>5, <1>9, <2>1
  <2>3. CASE k = p
    <3>1. First(d, new[j].key) \in 1..Len(d)
      BY <1>1, <2>2, ReaderPlaces
    <3>2. First(m, new[k].key) = Len(d) + 1
      BY <1>0, <1>1, <1>6, <1>9, <2>3
    <3> QED
      BY <1>1, <2>2, <3>1, <3>2
  <2>4. CASE k \in 1..Len(dict)
    <3>1. First(m, new[k].key) = First(d, new[k].key)
      BY <1>1, <1>4, <1>5, <1>9, <2>4
    <3>2. First(d, dict[j].key) < First(d, dict[k].key)
      BY <1>1, <1>9, <2>1, <2>4 DEF Matches
    <3> QED
      BY <1>1, <2>1, <2>2, <2>4, <3>1, <3>2
  <2> QED
    BY <1>2, <2>3, <2>4
<1>10. Matches(new, m)
  BY <1>1, <1>7, <1>8, <1>9 DEF Matches
<1> QED
  BY <1>10 DEF new, m

\* Replacing the entry of a key keeps every place and key.
Replaced(dict, y) == [k \in DOMAIN dict |-> IF dict[k].key = y.key THEN y ELSE dict[k]]

LEMMA ReplacedPlaces ==
    ASSUME NEW dict \in Seq(Entry), NEW y \in Entry
    PROVE  /\ Replaced(dict, y) \in Seq(Entry) /\ Len(Replaced(dict, y)) = Len(dict)
           /\ DOMAIN Replaced(dict, y) = 1..Len(dict) /\ DOMAIN dict = 1..Len(dict)
           /\ \A k \in 1..Len(dict) :
                 /\ Replaced(dict, y)[k].key = dict[k].key
                 /\ dict[k].key = y.key => Replaced(dict, y)[k] = y
                 /\ dict[k].key # y.key => Replaced(dict, y)[k] = dict[k]
<1> DEFINE new == Replaced(dict, y)
<1>1. DOMAIN dict = 1..Len(dict) /\ Len(dict) \in Nat
      /\ \A k \in 1..Len(dict) : dict[k] \in Entry
  OBVIOUS
<1>2. DOMAIN new = 1..Len(dict) /\ new = [k \in 1..Len(dict) |-> new[k]]
      /\ \A k \in 1..Len(dict) : /\ dict[k].key = y.key => new[k] = y
                                 /\ dict[k].key # y.key => new[k] = dict[k]
  BY <1>1 DEF Replaced
<1> HIDE DEF new
<1>3. \A k \in 1..Len(dict) : new[k] \in Entry /\ new[k].key = dict[k].key
  BY <1>1, <1>2
<1>4. new \in Seq(Entry) /\ Len(new) = Len(dict)
  BY <1>1, <1>2, <1>3
<1> QED
  BY <1>1, <1>2, <1>3, <1>4 DEF new

\* An entry that is known keeps its place; one that is not named by the agent
\* changes nothing of those that are.
LEMMA MatchesKnown ==
    ASSUME NEW dict, NEW d, Matches(dict, d), NEW x \in Delivery, NEW y \in Entry,
           Proper(x.id) => /\ y.key = x.id /\ Of(d, x.id) # {}
                           /\ y.text = IF x.append THEN Reader(d, x.id) \o x.text ELSE x.text,
           ~Proper(x.id) => y.key \in Numbers
    PROVE  Matches(Replaced(dict, y), Append(d, x))
<1> DEFINE new == Replaced(dict, y)
           m == Append(d, x)
<1>1. /\ dict \in Seq(Entry) /\ d \in Seq(Delivery) /\ m \in Seq(Delivery)
  BY Appended DEF Matches
<1>2. /\ new \in Seq(Entry) /\ Len(new) = Len(dict)
      /\ \A k \in 1..Len(dict) : /\ new[k].key = dict[k].key
                                 /\ dict[k].key = y.key => new[k] = y
                                 /\ dict[k].key # y.key => new[k] = dict[k]
  BY <1>1, ReplacedPlaces
<1>0. Proper(y.key) => y.key = x.id /\ Proper(x.id)
  BY DEF Proper
<1> HIDE DEF new, m
<1>3. \A id : Proper(id) /\ id # x.id =>
         /\ Of(m, id) = Of(d, id) /\ First(m, id) = First(d, id)
         /\ Of(d, id) # {} => Reader(m, id) = Reader(d, id)
  BY <1>1, ReaderStays DEF m
<1>4. Proper(x.id) => /\ Of(m, x.id) # {} /\ First(m, x.id) = First(d, x.id)
                      /\ Reader(m, x.id) = y.text
  <2> SUFFICES ASSUME Proper(x.id)
               PROVE  /\ Of(m, x.id) # {} /\ First(m, x.id) = First(d, x.id)
                      /\ Reader(m, x.id) = y.text
    OBVIOUS
  <2>1. /\ Of(m, x.id) = Of(d, x.id) \union {Len(d) + 1}
        /\ First(m, x.id) = IF Of(d, x.id) = {} THEN Len(d) + 1 ELSE First(d, x.id)
        /\ Reader(m, x.id) = IF x.append /\ Of(d, x.id) # {}
                             THEN Reader(d, x.id) \o x.text ELSE x.text
    BY <1>1, ReaderGrows DEF m
  <2> QED
    BY <2>1
<1>5. \A id : Proper(id) =>
         /\ Of(m, id) # {} <=> Of(d, id) # {}
         /\ First(m, id) = First(d, id)
  BY <1>3, <1>4
<1>6. ASSUME NEW id, Proper(id)
      PROVE  Of(m, id) # {} <=> \E k \in 1..Len(dict) : new[k].key = id
  <2>1. Of(d, id) # {} <=> \E k \in 1..Len(dict) : dict[k].key = id
    BY <1>6 DEF Matches
  <2> QED
    BY <1>2, <1>5, <1>6, <2>1
<1>7. ASSUME NEW k \in 1..Len(dict), Proper(new[k].key)
      PROVE  new[k].text = Reader(m, new[k].key)
  <2>1. CASE dict[k].key = y.key
    BY <1>0, <1>2, <1>4, <1>7, <2>1
  <2>2. CASE dict[k].key # y.key
    <3>1. dict[k].text = Reader(d, dict[k].key) /\ Of(d, dict[k].key) # {}
      BY <1>2, <1>7 DEF Matches
    <3>2. Proper(x.id) => dict[k].key # x.id
      BY <2>2
    <3> QED
      BY <1>2, <1>3, <1>7, <2>2, <3>1, <3>2
  <2> QED
    BY <2>1, <2>2
<1>8. ASSUME NEW j \in 1..Len(dict), NEW k \in 1..Len(dict), j < k,
             Proper(new[j].key), Proper(new[k].key)
      PROVE  First(m, new[j].key) < First(m, new[k].key)
  <2>1. First(d, dict[j].key) < First(d, dict[k].key)
    BY <1>2, <1>8 DEF Matches
  <2> QED
    BY <1>2, <1>5, <1>8, <2>1
<1>9. Matches(new, m)
  BY <1>1, <1>2, <1>6, <1>7, <1>8, SMTT(30) DEF Matches
<1> QED
  BY <1>9 DEF new, m

\* The delivery of an artifact.
Delivered(a, append) == [id |-> a.id, text |-> a.text, append |-> append]

LEMMA MatchesPut ==
    ASSUME NEW dict, NEW d, Matches(dict, d), NEW a, NEW append \in BOOLEAN,
           a.id \in Ids, a.text \in Seq(Chunks)
    PROVE  Matches(PutArtifact(dict, a, append), Append(d, Delivered(a, append)))
<1> DEFINE x == Delivered(a, append)
           key == Key(dict, a.id)
           extended == append /\ key \in Keys(dict)
           t == IF extended THEN Text(dict, key) \o a.text ELSE a.text
           y == [key |-> key, text |-> t]
<1>1. /\ x \in Delivery /\ x.id = a.id /\ x.text = a.text /\ x.append = append
  BY DEF Delivered, Delivery
<1>2. /\ dict \in Seq(Entry) /\ Len(dict) \in Nat /\ DOMAIN dict = 1..Len(dict)
      /\ d \in Seq(Delivery)
  BY DEF Matches
<1>3. key \in (Ids \ {None}) \union Numbers
  BY <1>2 DEF Key, Numbered, Numbers
<1> HIDE DEF x
<1>4. ASSUME key \in Keys(dict)
      PROVE  \E j \in 1..Len(dict) : dict[j].key = key /\ Text(dict, key) = dict[j].text
  <2>1. PICK k \in 1..Len(dict) : dict[k].key = key
    BY <1>2, <1>4 DEF Keys
  <2> HIDE DEF key
  <2>2. Text(dict, key) = dict[CHOOSE j \in 1..Len(dict) : dict[j].key = key].text
    BY <1>2 DEF Text
  <2> QED
    BY <2>1, <2>2
<1>5. t \in Seq(Chunks)
  <2>1. \A j \in 1..Len(dict) : dict[j].text \in Seq(Chunks)
    <3>1. \A j \in 1..Len(dict) : dict[j] \in Entry
      BY <1>2
    <3> QED
      BY <3>1 DEF Entry
  <2>2. key \in Keys(dict) => Text(dict, key) \in Seq(Chunks)
    BY <1>4, <2>1
  <2> HIDE DEF key
  <2> QED
    BY <2>2
<1>6. y \in Entry /\ y.key = key /\ y.text = t
  <2> HIDE DEF key, t
  <2> QED
    BY <1>3, <1>5 DEF Entry
<1>7. PutArtifact(dict, a, append) = Put(dict, key, t)
  BY DEF PutArtifact
<1>8. /\ key \in Keys(dict) => Put(dict, key, t) = Replaced(dict, y)
      /\ key \notin Keys(dict) => Put(dict, key, t) = Append(dict, y)
  <2> HIDE DEF key, t
  <2> QED
    BY DEF Put, Replaced
<1>9. ~Proper(a.id) => key \in Numbers
  BY <1>2 DEF Proper, Key, Numbered, Numbers
<1>10. Proper(a.id) => /\ key = a.id
                       /\ key \in Keys(dict) <=> Of(d, a.id) # {}
                       /\ key \in Keys(dict) => Text(dict, key) = Reader(d, a.id)
  <2> SUFFICES ASSUME Proper(a.id)
               PROVE  /\ key = a.id
                      /\ key \in Keys(dict) <=> Of(d, a.id) # {}
                      /\ key \in Keys(dict) => Text(dict, key) = Reader(d, a.id)
    OBVIOUS
  <2>1. key = a.id /\ (a.id \in Keys(dict) <=> Of(d, a.id) # {})
    BY OwnPlace
  <2>2. \A j \in 1..Len(dict) : dict[j].key = a.id => dict[j].text = Reader(d, a.id)
    BY DEF Matches
  <2> HIDE DEF key
  <2> QED
    BY <1>4, <2>1, <2>2
<1>11. key \notin Keys(dict) => t = a.text
  OBVIOUS
<1>12. Proper(a.id) /\ key \in Keys(dict) =>
          t = IF x.append THEN Reader(d, x.id) \o x.text ELSE x.text
  <2> HIDE DEF key
  <2> QED
    BY <1>1, <1>10
<1> HIDE DEF key, t, y
<1>13. CASE key \in Keys(dict)
  <2>1. Matches(Replaced(dict, y), Append(d, x))
    BY <1>1, <1>6, <1>9, <1>10, <1>12, <1>13, MatchesKnown
  <2> QED
    BY <1>7, <1>8, <1>13, <2>1 DEF x
<1>14. CASE key \notin Keys(dict)
  <2>1. Matches(Append(dict, y), Append(d, x))
    BY <1>1, <1>6, <1>9, <1>10, <1>11, <1>14, MatchesNew
  <2> QED
    BY <1>7, <1>8, <1>14, <2>1 DEF x
<1> QED
  BY <1>13, <1>14

-----------------------------------------------------------------------------
(* The artifacts the agent did not name.                                    *)

Anonymous(d) ==
    FlattenSeq([k \in DOMAIN d |-> IF d[k].id = None THEN <<d[k].text>> ELSE <<>>])
Numbering(dict) ==
    FlattenSeq([k \in DOMAIN dict |->
        IF dict[k].key \in Numbers THEN <<dict[k].text>> ELSE <<>>])
Unlike(d) == \A k \in DOMAIN d : d[k].id \notin Numbers

\* What ArtifactsMatchLog says of the artifacts without an id, and where each
\* made-up name is, which keeps it from being made up again.
Kept(dict, d) ==
    Unlike(d) =>
        /\ \A k \in 1..Len(dict) : dict[k].key \in Numbers => dict[k].key = Numbered(k - 1)
        /\ Numbering(dict) = Anonymous(d)

\* One more entry is appended to what is concatenated.
LEMMA FlattenGrows ==
    ASSUME NEW S, NEW ss \in Seq(Seq(S)), NEW s \in Seq(S), NEW tt \in Seq(Seq(S)),
           Len(tt) = Len(ss) + 1,
           tt[Len(ss) + 1] = s, \A k \in 1..Len(ss) : tt[k] = ss[k]
    PROVE  FlattenSeq(tt) = FlattenSeq(ss) \o s
<1> DEFINE T == Seq(S)
<1>1. tt = Append(ss, s)
  <2>1. ss \in Seq(T) /\ s \in T /\ tt \in Seq(T)
    OBVIOUS
  <2> HIDE DEF T
  <2> QED
    BY <2>1
<1> QED
  BY <1>1, FlattenAppend

LEMMA AnonymousGrows ==
    ASSUME NEW d \in Seq(Delivery), NEW x \in Delivery
    PROVE  Anonymous(Append(d, x)) =
              Anonymous(d) \o (IF x.id = None THEN <<x.text>> ELSE <<>>)
<1> DEFINE S == Seq(Chunks)
           m == Append(d, x)
           Part(z) == IF z.id = None THEN <<z.text>> ELSE <<>>
           ss == [k \in DOMAIN d |-> Part(d[k])]
           tt == [k \in DOMAIN m |-> Part(m[k])]
<1>1. /\ Len(d) \in Nat /\ DOMAIN d = 1..Len(d) /\ DOMAIN m = 1..(Len(d) + 1)
      /\ m[Len(d) + 1] = x /\ \A k \in 1..Len(d) : m[k] = d[k] /\ d[k] \in Delivery
  OBVIOUS
<1>2. \A z \in Delivery : Part(z) \in Seq(S)
  BY DEF Delivery
<1> HIDE DEF m, Part, S
<1>3. ss \in Seq(Seq(S)) /\ Len(ss) = Len(d)
  <2>1. \A k \in 1..Len(d) : Part(d[k]) \in Seq(S)
    BY <1>1, <1>2
  <2> QED
    BY <1>1, <2>1
<1>4. /\ tt \in Seq(Seq(S)) /\ Len(tt) = Len(ss) + 1 /\ tt[Len(ss) + 1] = Part(x)
      /\ \A k \in 1..Len(ss) : tt[k] = ss[k]
  <2>1. /\ Len(d) + 1 \in 1..(Len(d) + 1)
        /\ \A k \in 1..Len(d) : k \in 1..(Len(d) + 1)
        /\ \A k \in 1..(Len(d) + 1) : k \in 1..Len(d) \/ k = Len(d) + 1
    BY <1>1
  <2>2. \A k \in 1..(Len(d) + 1) : Part(m[k]) \in Seq(S)
    <3>1. \A k \in 1..(Len(d) + 1) : m[k] \in Delivery
      BY <1>1, <2>1
    <3> QED
      BY <1>2, <3>1, Zenon
  <2> QED
    BY <1>1, <1>3, <2>1, <2>2
<1>5. Part(x) \in Seq(S)
  BY <1>2
<1> HIDE DEF ss, tt
<1>6. FlattenSeq(tt) = FlattenSeq(ss) \o Part(x)
  <2> DEFINE p == Part(x)
  <2>1. /\ ss \in Seq(Seq(S)) /\ p \in Seq(S) /\ tt \in Seq(Seq(S))
        /\ Len(tt) = Len(ss) + 1 /\ tt[Len(ss) + 1] = p
        /\ \A k \in 1..Len(ss) : tt[k] = ss[k]
    BY <1>3, <1>4, <1>5
  <2> HIDE DEF p
  <2>2. FlattenSeq(tt) = FlattenSeq(ss) \o p
    BY ONLY <2>1, FlattenGrows
  <2> QED
    BY <2>2 DEF p
<1> QED
  BY <1>6 DEF ss, tt, m, Part, Anonymous

LEMMA NumberingGrows ==
    ASSUME NEW dict \in Seq(Entry), NEW y \in Entry
    PROVE  Numbering(Append(dict, y)) =
              Numbering(dict) \o (IF y.key \in Numbers THEN <<y.text>> ELSE <<>>)
<1> DEFINE S == Seq(Chunks)
           m == Append(dict, y)
           Part(z) == IF z.key \in Numbers THEN <<z.text>> ELSE <<>>
           ss == [k \in DOMAIN dict |-> Part(dict[k])]
           tt == [k \in DOMAIN m |-> Part(m[k])]
<1>1. /\ Len(dict) \in Nat /\ DOMAIN dict = 1..Len(dict) /\ DOMAIN m = 1..(Len(dict) + 1)
      /\ m[Len(dict) + 1] = y /\ \A k \in 1..Len(dict) : m[k] = dict[k] /\ dict[k] \in Entry
  OBVIOUS
<1>2. \A z \in Entry : Part(z) \in Seq(S)
  BY DEF Entry
<1> HIDE DEF m, Part, S
<1>3. ss \in Seq(Seq(S)) /\ Len(ss) = Len(dict)
  <2>1. \A k \in 1..Len(dict) : Part(dict[k]) \in Seq(S)
    BY <1>1, <1>2
  <2> QED
    BY <1>1, <2>1
<1>4. /\ tt \in Seq(Seq(S)) /\ Len(tt) = Len(ss) + 1 /\ tt[Len(ss) + 1] = Part(y)
      /\ \A k \in 1..Len(ss) : tt[k] = ss[k]
  <2>1. /\ Len(dict) + 1 \in 1..(Len(dict) + 1)
        /\ \A k \in 1..Len(dict) : k \in 1..(Len(dict) + 1)
        /\ \A k \in 1..(Len(dict) + 1) : k \in 1..Len(dict) \/ k = Len(dict) + 1
    BY <1>1
  <2>2. \A k \in 1..(Len(dict) + 1) : Part(m[k]) \in Seq(S)
    <3>1. \A k \in 1..(Len(dict) + 1) : m[k] \in Entry
      BY <1>1, <2>1
    <3> QED
      BY <1>2, <3>1, Zenon
  <2> QED
    BY <1>1, <1>3, <2>1, <2>2
<1>5. Part(y) \in Seq(S)
  BY <1>2
<1> HIDE DEF ss, tt
<1>6. FlattenSeq(tt) = FlattenSeq(ss) \o Part(y)
  <2> DEFINE p == Part(y)
  <2>1. /\ ss \in Seq(Seq(S)) /\ p \in Seq(S) /\ tt \in Seq(Seq(S))
        /\ Len(tt) = Len(ss) + 1 /\ tt[Len(ss) + 1] = p
        /\ \A k \in 1..Len(ss) : tt[k] = ss[k]
    BY <1>3, <1>4, <1>5
  <2> HIDE DEF p
  <2>2. FlattenSeq(tt) = FlattenSeq(ss) \o p
    BY ONLY <2>1, FlattenGrows
  <2> QED
    BY <2>2 DEF p
<1> QED
  BY <1>6 DEF ss, tt, m, Part, Numbering

LEMMA KeptPut ==
    ASSUME NEW dict, NEW d, Matches(dict, d), Kept(dict, d), NEW a, NEW append \in BOOLEAN,
           a.id \in Ids, a.text \in Seq(Chunks)
    PROVE  Kept(PutArtifact(dict, a, append), Append(d, Delivered(a, append)))
<1> DEFINE x == Delivered(a, append)
           m == Append(d, x)
<1>1. /\ x \in Delivery /\ x.id = a.id /\ x.text = a.text /\ x.append = append
  BY DEF Delivered, Delivery
<1>2. /\ dict \in Seq(Entry) /\ Len(dict) \in Nat /\ DOMAIN dict = 1..Len(dict)
      /\ d \in Seq(Delivery)
      /\ \A k \in 1..Len(dict) : dict[k] \in Entry
  BY DEF Matches
<1> HIDE DEF x
<1> SUFFICES ASSUME Unlike(m) PROVE Kept(PutArtifact(dict, a, append), m)
  BY DEF Kept, x
<1>3. Unlike(d) /\ x.id \notin Numbers
  <2>1. /\ DOMAIN d = 1..Len(d) /\ DOMAIN m = 1..Len(d) \union {Len(d) + 1}
        /\ m[Len(d) + 1] = x /\ \A k \in 1..Len(d) : m[k] = d[k]
    BY <1>1, <1>2, Appended
  <2> HIDE DEF m
  <2>2. \A k \in 1..Len(d) \union {Len(d) + 1} : m[k].id \notin Numbers
    BY <2>1 DEF Unlike
  <2> QED
    BY <2>1, <2>2 DEF Unlike
<1>4. /\ \A k \in 1..Len(dict) : dict[k].key \in Numbers => dict[k].key = Numbered(k - 1)
      /\ Numbering(dict) = Anonymous(d)
  BY <1>3 DEF Kept
<1>5. Anonymous(m) = Anonymous(d) \o (IF x.id = None THEN <<x.text>> ELSE <<>>)
  BY <1>1, <1>2, AnonymousGrows
<1>6. CASE a.id = None
  <2> DEFINE y == [key |-> Numbered(Len(dict)), text |-> a.text]
             new == Append(dict, y)
  <2>1. Key(dict, a.id) = Numbered(Len(dict))
    BY <1>6 DEF Key
  <2>2. Numbered(Len(dict)) \notin Keys(dict)
    <3>1. \A k \in 1..Len(dict) : dict[k].key # Numbered(Len(dict))
      <4> SUFFICES ASSUME NEW k \in 1..Len(dict), dict[k].key = Numbered(Len(dict))
                   PROVE  FALSE
        OBVIOUS
      <4>1. Numbered(Len(dict)) \in Numbers
        BY <1>2 DEF Numbered, Numbers
      <4>2. Numbered(Len(dict)) = Numbered(k - 1)
        BY <1>4, <4>1
      <4>3. Len(dict) = k - 1
        BY <4>2 DEF Numbered
      <4> QED
        BY <1>2, <4>3
    <3> QED
      BY <1>2, <3>1 DEF Keys
  <2>3. PutArtifact(dict, a, append) = new
    BY <2>1, <2>2 DEF PutArtifact, Put
  <2>4. y \in Entry /\ y.key = Numbered(Len(dict)) /\ y.key \in Numbers /\ y.text = a.text
    BY <1>2 DEF Entry, Numbered, Numbers
  <2> HIDE DEF y
  <2>5. Numbering(new) = Numbering(dict) \o <<a.text>>
    BY <1>2, <2>4, NumberingGrows
  <2>6. Len(new) = Len(dict) + 1 /\ new[Len(dict) + 1] = y
        /\ \A k \in 1..Len(dict) : new[k] = dict[k]
    BY <1>2, <2>4, Appended
  <2> HIDE DEF new
  <2>7. ASSUME NEW k \in 1..Len(new), new[k].key \in Numbers
        PROVE  new[k].key = Numbered(k - 1)
    <3>1. CASE k = Len(dict) + 1
      <4>1. k - 1 = Len(dict)
        BY <1>2, <3>1
      <4> QED
        BY <2>4, <2>6, <3>1, <4>1
    <3>2. CASE k \in 1..Len(dict)
      BY <1>4, <2>6, <2>7, <3>2
    <3> QED
      BY <1>2, <2>6, <3>1, <3>2
  <2>8. Numbering(new) = Anonymous(m)
    BY <1>1, <1>4, <1>5, <1>6, <2>5
  <2> QED
    BY <2>3, <2>7, <2>8 DEF Kept
<1>7. CASE a.id # None
  <2>1. Proper(a.id) /\ Key(dict, a.id) = a.id
    BY <1>1, <1>3, <1>7 DEF Proper, Key
  <2>2. Anonymous(m) = Anonymous(d)
    <3>1. Anonymous(d) \in Seq(Seq(Chunks))
      <4> DEFINE ss == [k \in DOMAIN dict |->
                           IF dict[k].key \in Numbers THEN <<dict[k].text>> ELSE <<>>]
                 S == Seq(Chunks)
      <4>1. \A k \in 1..Len(dict) : dict[k].text \in S
        BY <1>2 DEF Entry
      <4> HIDE DEF S
      <4>2. ss \in Seq(Seq(S)) /\ <<>> \in Seq(S)
        BY <1>2, <4>1
      <4> HIDE DEF ss
      <4>3. FlattenSeq(ss) \in Seq(S)
        BY <4>2, FlattenAppend
      <4> QED
        BY <1>4, <4>3 DEF Numbering, ss, S
    <3> QED
      BY <1>1, <1>5, <1>7, <3>1
  <2> DEFINE t == IF append /\ a.id \in Keys(dict) THEN Text(dict, a.id) \o a.text ELSE a.text
             y == [key |-> a.id, text |-> t]
             new == PutArtifact(dict, a, append)
  <2>3. new = Put(dict, a.id, t) /\ Matches(new, m)
    BY <2>1, MatchesPut DEF PutArtifact, x
  <2>4. y.key = a.id /\ y.key \notin Numbers
    BY <2>1 DEF Proper
  <2>5. /\ a.id \in Keys(dict) => new = Replaced(dict, y)
        /\ a.id \notin Keys(dict) => new = Append(dict, y)
    BY <2>3 DEF Put, Replaced
  <2> HIDE DEF new, t
  <2>6. CASE a.id \in Keys(dict)
    <3>1. new = [k \in DOMAIN dict |-> IF dict[k].key = a.id THEN y ELSE dict[k]]
      BY <2>5, <2>6 DEF Replaced
    <3> HIDE DEF y
    <3>2. /\ DOMAIN new = DOMAIN dict
          /\ \A k \in DOMAIN dict : /\ new[k].key = dict[k].key
                                    /\ new[k].key \in Numbers => new[k] = dict[k]
      BY <2>4, <3>1
    <3>3. [k \in DOMAIN new |-> IF new[k].key \in Numbers THEN <<new[k].text>> ELSE <<>>] =
             [k \in DOMAIN dict |-> IF dict[k].key \in Numbers THEN <<dict[k].text>> ELSE <<>>]
      BY <3>2
    <3>4. Numbering(new) = Numbering(dict)
      BY <3>3 DEF Numbering
    <3>5. DOMAIN new = 1..Len(new)
      BY <2>3 DEF Matches
    <3> QED
      BY <1>2, <1>4, <2>2, <3>2, <3>4, <3>5 DEF Kept, new
  <2>7. CASE a.id \notin Keys(dict)
    <3>1. new = Append(dict, y)
      BY <2>5, <2>7
    <3>2. y \in Entry
      <4>1. t = a.text
        BY <2>7 DEF t
      <4>2. a.id \in Ids \ {None}
        BY <1>7
      <4> QED
        BY <4>1, <4>2 DEF Entry
    <3> HIDE DEF y
    <3>3. Numbering(new) = Numbering(dict) \o <<>>
      BY <1>2, <2>4, <3>1, <3>2, NumberingGrows
    <3>4. Len(new) = Len(dict) + 1 /\ new[Len(dict) + 1] = y
          /\ \A k \in 1..Len(dict) : new[k] = dict[k]
      BY <1>2, <3>1, <3>2, Appended
    <3>5. ASSUME NEW k \in 1..Len(new), new[k].key \in Numbers
          PROVE  new[k].key = Numbered(k - 1)
      <4>1. k # Len(dict) + 1
        BY <2>4, <3>4, <3>5
      <4>2. k \in 1..Len(dict)
        BY <1>2, <3>4, <4>1
      <4> QED
        BY <1>4, <3>4, <3>5, <4>2
    <3>6. Numbering(new) = Anonymous(m)
      <4>1. Anonymous(d) \o <<>> = Anonymous(m)
        BY <1>1, <1>5, <1>7
      <4> QED
        BY <1>4, <3>3, <4>1
    <3> QED
      BY <3>5, <3>6 DEF Kept, new
  <2> QED
    BY <2>6, <2>7
<1> QED
  BY <1>6, <1>7

-----------------------------------------------------------------------------
(* The artifacts of one event, and of the log.                              *)

Agrees(dict, d) == Matches(dict, d) /\ Kept(dict, d)

\* The first n deliveries of an event.
DeliveredUpto(e, n) ==
    [j \in 1..n |-> Delivered(ArtifactsOf(e)[j], Appends(e))]
DeliveredBy(e) == DeliveredUpto(e, Len(ArtifactsOf(e)))

LEMMA DeliveredTypes ==
    ASSUME NEW e \in Events
    PROVE  /\ Len(ArtifactsOf(e)) \in Nat
           /\ DOMAIN ArtifactsOf(e) = 1..Len(ArtifactsOf(e))
           /\ Appends(e) \in BOOLEAN
           /\ \A j \in 1..Len(ArtifactsOf(e)) :
                 /\ ArtifactsOf(e)[j].id \in Ids
                 /\ ArtifactsOf(e)[j].text \in Seq(Chunks)
                 /\ Delivered(ArtifactsOf(e)[j], Appends(e)) \in Delivery
           /\ DeliveredBy(e) \in Seq(Delivery)
<1> DEFINE arts == ArtifactsOf(e)
<1>1. arts \in Seq(ToSet(arts)) /\ Appends(e) \in BOOLEAN
      /\ \A a \in ToSet(arts) : a.text \in Seq(ToSet(a.text))
  BY EventsAssumption
<1>2. Len(arts) \in Nat /\ DOMAIN arts = 1..Len(arts)
  BY <1>1
<1>3. ASSUME NEW j \in 1..Len(arts)
      PROVE  /\ arts[j].id \in Ids /\ arts[j].text \in Seq(Chunks)
             /\ Delivered(arts[j], Appends(e)) \in Delivery
  <2>1. arts[j] \in ToSet(arts)
    BY <1>2 DEF ToSet
  <2>2. arts[j] \in Sent
    BY <2>1 DEF Sent
  <2>3. arts[j].id \in Ids
    BY <2>2 DEF Ids
  <2>4. ToSet(arts[j].text) \in SUBSET Chunks
    BY <2>2 DEF Chunks
  <2>5. arts[j].text \in Seq(Chunks)
    <3>1. \A T, U : T \in SUBSET U => Seq(T) \subseteq Seq(U)
      OBVIOUS
    <3> QED
      BY <1>1, <2>1, <2>4, <3>1
  <2> QED
    BY <1>1, <2>3, <2>5 DEF Delivered, Delivery
<1>4. DeliveredBy(e) \in Seq(Delivery)
  <2> HIDE DEF arts
  <2>1. \A j \in 1..Len(arts) : Delivered(arts[j], Appends(e)) \in Delivery
    BY <1>3
  <2>2. [j \in 1..Len(arts) |-> Delivered(arts[j], Appends(e))] \in Seq(Delivery)
    BY <1>2, <2>1
  <2> QED
    BY <2>2 DEF DeliveredBy, DeliveredUpto, arts
<1> QED
  BY <1>1, <1>2, <1>3, <1>4

\* Collecting the artifacts of an event one after another keeps the artifacts
\* what a reader assembles.
LEMMA AgreesEvent ==
    ASSUME NEW dict, NEW d, Agrees(dict, d), NEW e \in Events
    PROVE  Agrees(CollectArtifacts(dict, e), d \o DeliveredBy(e))
<1> DEFINE arts == ArtifactsOf(e)
           Body(c) == [n \in 0..Len(arts) |->
                          IF n = 0 THEN dict
                          ELSE PutArtifact(c[n - 1], arts[n], Appends(e))]
           h == CHOOSE c : c = Body(c)
           Upto(n) == \E c : /\ c = [i \in 0..n |-> c[i]]
                             /\ c[0] = dict
                             /\ \A i \in 1..n :
                                   c[i] = PutArtifact(c[i - 1], arts[i], Appends(e))
           good == {n \in Nat : Upto(n)}
<1>1. Len(arts) \in Nat
  BY DeliveredTypes
<1>2. 0 \in good
  <2> DEFINE c == [i \in 0..0 |-> dict]
  <2>1. c = [i \in 0..0 |-> c[i]] /\ c[0] = dict /\ 1..0 = {}
    OBVIOUS
  <2> HIDE DEF c
  <2>2. Upto(0)
    BY <2>1
  <2> QED
    BY <2>2
<1>3. ASSUME NEW n \in Nat, Upto(n)
      PROVE  Upto(n + 1)
  <2>1. PICK c : /\ c = [i \in 0..n |-> c[i]]
                 /\ c[0] = dict
                 /\ \A i \in 1..n : c[i] = PutArtifact(c[i - 1], arts[i], Appends(e))
    BY <1>3
  <2> DEFINE more == [i \in 0..(n + 1) |->
                         IF i <= n THEN c[i]
                         ELSE PutArtifact(c[n], arts[n + 1], Appends(e))]
  <2>2. \A i \in 0..n : more[i] = c[i]
    OBVIOUS
  <2>3. more[n + 1] = PutArtifact(c[n], arts[n + 1], Appends(e))
    <3>1. n + 1 \in 0..(n + 1) /\ ~(n + 1 <= n)
      OBVIOUS
    <3> QED
      BY <3>1
  <2>4. more = [i \in 0..(n + 1) |-> more[i]]
    OBVIOUS
  <2> HIDE DEF more
  <2>5. 0 \in 0..n /\ n \in 0..n
    OBVIOUS
  <2>6. ASSUME NEW i \in 1..(n + 1)
        PROVE  more[i] = PutArtifact(more[i - 1], arts[i], Appends(e))
    <3>1. CASE i = n + 1
      <4>1. i - 1 = n
        BY <3>1
      <4> QED
        BY <2>2, <2>3, <2>5, <3>1, <4>1
    <3>2. CASE i \in 1..n
      <4>1. i \in 0..n /\ i - 1 \in 0..n
        BY <3>2
      <4> QED
        BY <2>1, <2>2, <3>2, <4>1
    <3> QED
      BY <3>1, <3>2
  <2> HIDE DEF arts
  <2> QED
    BY <2>1, <2>2, <2>4, <2>5, <2>6
<1>4. Upto(Len(arts))
  <2> HIDE DEF Upto
  <2>1. \A n \in Nat : n \in good => n + 1 \in good
    BY <1>3
  <2>2. Len(arts) \in good
    <3> HIDE DEF good
    <3> QED
      BY <1>1, <1>2, <2>1, Induction
  <2> QED
    BY <2>2
<1>5. h = Body(h)
  <2>1. PICK c : /\ c = [i \in 0..Len(arts) |-> c[i]]
                 /\ c[0] = dict
                 /\ \A i \in 1..Len(arts) :
                       c[i] = PutArtifact(c[i - 1], arts[i], Appends(e))
    BY <1>4
  <2>2. \A n \in 0..Len(arts) :
           c[n] = IF n = 0 THEN dict ELSE PutArtifact(c[n - 1], arts[n], Appends(e))
    <3> TAKE n \in 0..Len(arts)
    <3>1. n # 0 => n \in 1..Len(arts)
      BY <1>1
    <3> QED
      BY <2>1, <3>1
  <2>3. c = Body(c)
    BY <2>1, <2>2
  <2> HIDE DEF Body
  <2> QED
    BY <2>3, Zenon
<1>6. CollectArtifacts(dict, e) = h[Len(arts)]
  BY Zenon DEF CollectArtifacts
<1>7. /\ h[0] = dict
      /\ \A n \in 1..Len(arts) : h[n] = PutArtifact(h[n - 1], arts[n], Appends(e))
  <2> HIDE DEF h
  <2>1. \A n \in 0..Len(arts) :
           h[n] = IF n = 0 THEN dict ELSE PutArtifact(h[n - 1], arts[n], Appends(e))
    BY <1>5
  <2>2. 0 \in 0..Len(arts) /\ \A n \in 1..Len(arts) : n \in 0..Len(arts) /\ n # 0
    BY <1>1
  <2> QED
    BY <2>1, <2>2
<1> HIDE DEF h, Upto, good, Body
<1> DEFINE matching == {n \in Nat : n <= Len(arts) => Agrees(h[n], d \o DeliveredUpto(e, n))}
<1>8. 0 \in matching
  <2>1. DeliveredUpto(e, 0) = <<>>
    BY DEF DeliveredUpto
  <2>2. d \o <<>> = d
    BY DEF Agrees, Matches
  <2> QED
    BY <1>7, <2>1, <2>2
<1>9. ASSUME NEW n \in Nat, n \in matching
      PROVE  n + 1 \in matching
  <2> SUFFICES ASSUME n + 1 <= Len(arts)
               PROVE  Agrees(h[n + 1], d \o DeliveredUpto(e, n + 1))
    OBVIOUS
  <2> DEFINE a == arts[n + 1]
             x == Delivered(a, Appends(e))
             del == DeliveredUpto(e, n)
  <2>1. Agrees(h[n], d \o del)
    BY <1>1, <1>9
  <2>2. n + 1 \in 1..Len(arts) /\ (n + 1) - 1 = n
    BY <1>1
  <2>3. /\ a.id \in Ids /\ a.text \in Seq(Chunks) /\ x \in Delivery
        /\ Appends(e) \in BOOLEAN
        /\ \A j \in 1..n : Delivered(arts[j], Appends(e)) \in Delivery
    BY <1>1, <2>2, DeliveredTypes
  <2>4. h[n + 1] = PutArtifact(h[n], a, Appends(e))
    BY <1>7, <2>2
  <2>5. del \in Seq(Delivery) /\ DeliveredUpto(e, n + 1) = Append(del, x)
    <3>1. del = [j \in 1..n |-> Delivered(arts[j], Appends(e))]
      BY DEF DeliveredUpto
    <3>2. DeliveredUpto(e, n + 1) = [j \in 1..(n + 1) |-> Delivered(arts[j], Appends(e))]
      BY DEF DeliveredUpto
    <3>3. x = Delivered(arts[n + 1], Appends(e))
      OBVIOUS
    <3> HIDE DEF del, x, a, arts
    <3>4. del \in Seq(Delivery) /\ Len(del) = n
      BY <2>3, <3>1
    <3> QED
      BY <3>1, <3>2, <3>3, <3>4
  <2>6. d \o Append(del, x) = Append(d \o del, x)
    <3> HIDE DEF del, x
    <3>1. d \in Seq(Delivery) /\ del \in Seq(Delivery) /\ x \in Delivery
      BY <2>3, <2>5 DEF Agrees, Matches
    <3> QED
      BY <3>1
  <2>7. Agrees(PutArtifact(h[n], a, Appends(e)), Append(d \o del, x))
    <3> HIDE DEF del, a, arts
    <3> QED
      BY <2>1, <2>3, MatchesPut, KeptPut DEF Agrees
  <2> HIDE DEF del, x, a
  <2> QED
    BY <2>4, <2>5, <2>6, <2>7
<1>10. Len(arts) \in matching
  <2> HIDE DEF matching
  <2> QED
    BY <1>1, <1>8, <1>9, Induction
<1> QED
  BY <1>1, <1>6, <1>10 DEF DeliveredBy

\* The deliveries of a log.
DeliveriesOf(l) == FlattenSeq([k \in DOMAIN l |-> DeliveredBy(l[k])])

LEMMA DeliveriesGrow ==
    ASSUME NEW l \in Seq(Events), NEW e \in Events
    PROVE  DeliveriesOf(Append(l, e)) = DeliveriesOf(l) \o DeliveredBy(e)
<1> DEFINE old == [k \in DOMAIN l |-> DeliveredBy(l[k])]
           m == Append(l, e)
           new == [k \in DOMAIN m |-> DeliveredBy(m[k])]
<1>1. /\ m \in Seq(Events) /\ Len(l) \in Nat /\ DOMAIN l = 1..Len(l)
      /\ DOMAIN m = 1..(Len(l) + 1) /\ m[Len(l) + 1] = e
      /\ \A k \in 1..Len(l) : l[k] \in Events /\ m[k] = l[k]
  OBVIOUS
<1> HIDE DEF m
<1>2. DeliveredBy(e) \in Seq(Delivery)
      /\ \A k \in 1..Len(l) : DeliveredBy(l[k]) \in Seq(Delivery)
  BY <1>1, DeliveredTypes
<1>3. /\ old \in Seq(Seq(Delivery)) /\ Len(old) = Len(l) /\ DOMAIN old = 1..Len(l)
      /\ \A k \in 1..Len(l) : old[k] = DeliveredBy(l[k])
  BY <1>1, <1>2
<1>4. /\ DOMAIN new = 1..(Len(l) + 1) /\ new[Len(l) + 1] = DeliveredBy(e)
      /\ \A k \in 1..Len(l) : new[k] = DeliveredBy(l[k])
      /\ new = [k \in 1..(Len(l) + 1) |-> new[k]]
  BY <1>1
<1> HIDE DEF old, new
<1>5. new = Append(old, DeliveredBy(e))
  <2> DEFINE last == DeliveredBy(e)
             n == Len(l)
  <2>1. last \in Seq(Delivery) /\ n \in Nat
    BY <1>1, <1>2
  <2>2. \A k \in 1..(n + 1) : k \in 1..n \/ k = n + 1
    BY <2>1
  <2>3. \A k \in 1..(n + 1) : new[k] \in Seq(Delivery)
    BY <1>2, <1>4, <2>2
  <2>4. new \in Seq(Seq(Delivery)) /\ Len(new) = n + 1
    BY <1>4, <2>1, <2>3
  <2>5. new[n + 1] = last /\ \A k \in 1..n : new[k] = old[k]
    BY <1>3, <1>4
  <2>6. Len(old) = n /\ old \in Seq(Seq(Delivery))
    BY <1>3
  <2> HIDE DEF last, n
  <2>7. new = Append(old, last)
    BY <2>1, <2>2, <2>4, <2>5, <2>6
  <2> QED
    BY <2>7 DEF last
<1>6. FlattenSeq(Append(old, DeliveredBy(e))) = FlattenSeq(old) \o DeliveredBy(e)
  BY <1>2, <1>3, FlattenAppend
<1> QED
  BY <1>5, <1>6 DEF DeliveriesOf, old, new, m

LEMMA NothingDelivered == DeliveriesOf(<<>>) = <<>> /\ Agrees(<<>>, <<>>)
<1>1. DeliveriesOf(<<>>) = <<>>
  BY DEF DeliveriesOf, FlattenSeq
<1>2. \A id : Of(<<>>, id) = {}
  BY DEF Of, Named
<1>3. Numbering(<<>>) = <<>> /\ Anonymous(<<>>) = <<>>
  BY DEF Numbering, Anonymous, FlattenSeq
<1> QED
  BY <1>1, <1>2, <1>3 DEF Agrees, Matches, Kept

-----------------------------------------------------------------------------
(* The trajectory of a log.                                                 *)

\* The events that tell a state, those of them before a place, those that
\* change the state, and the step of the trajectory at such a change: the
\* parts of TrailIsHistory for any log.
Told(l) == {k \in DOMAIN l : StateOf(l[k]) # None}
Before(l, k) == {j \in Told(l) : j < k}
Changes(l) ==
    {k \in Told(l) : Before(l, k) # {} => StateOf(l[k]) # StateOf(l[Max(Before(l, k))])}
Nth(l, k) == Cardinality({j \in Changes(l) : j <= k})

IsTrail(l, s) ==
    /\ Len(s) = Cardinality(Changes(l))
    /\ \A k \in Changes(l) : s[Nth(l, k)] = StateOf(l[k])

LEMMA ToldPlaces ==
    ASSUME NEW l \in Seq(Events)
    PROVE  /\ Told(l) \subseteq 1..Len(l) /\ Len(l) \in Nat
           /\ Changes(l) \subseteq Told(l)
           /\ IsFiniteSet(Changes(l)) /\ Cardinality(Changes(l)) \in Nat
           /\ \A k \in Changes(l) : Nth(l, k) \in 1..Cardinality(Changes(l))
<1>1. Told(l) \subseteq 1..Len(l) /\ Len(l) \in Nat /\ Changes(l) \subseteq Told(l)
  BY DEF Told, Changes
<1>2. IsFiniteSet(Changes(l)) /\ Cardinality(Changes(l)) \in Nat
  <2>1. IsFiniteSet(1..Len(l))
    BY <1>1, FS_Interval
  <2> QED
    BY <1>1, <2>1, FS_Subset, FS_CardinalityType
<1>3. ASSUME NEW k \in Changes(l)
      PROVE  Nth(l, k) \in 1..Cardinality(Changes(l))
  <2> DEFINE upto == {j \in Changes(l) : j <= k}
  <2>1. upto \in SUBSET Changes(l) /\ k \in upto
    BY <1>1
  <2>2. IsFiniteSet(upto) /\ Cardinality(upto) <= Cardinality(Changes(l))
    BY <1>2, <2>1, FS_Subset
  <2>3. Cardinality(upto) \in Nat /\ Cardinality(upto) # 0
    BY <2>1, <2>2, FS_CardinalityType, FS_EmptySet
  <2> HIDE DEF upto
  <2>4. Cardinality(upto) \in 1..Cardinality(Changes(l))
    BY <1>2, <2>2, <2>3
  <2> QED
    BY <2>4 DEF upto, Nth
<1> QED
  BY <1>1, <1>2, <1>3

\* What is said of the places of a log stays when the log grows.
LEMMA PlacesStay ==
    ASSUME NEW l \in Seq(Events), NEW e \in Events
    PROVE  /\ Told(Append(l, e)) =
                Told(l) \union (IF StateOf(e) = None THEN {} ELSE {Len(l) + 1})
           /\ Before(Append(l, e), Len(l) + 1) = Told(l)
           /\ \A k \in 1..Len(l) : k \in Changes(Append(l, e)) <=> k \in Changes(l)
<1> DEFINE m == Append(l, e)
           n == Len(l) + 1
<1>1. /\ n \in Nat /\ DOMAIN l = 1..(n - 1) /\ DOMAIN m = 1..(n - 1) \union {n}
      /\ m[n] = e /\ \A k \in 1..(n - 1) : m[k] = l[k]
  BY Appended
<1>2. n \notin 1..(n - 1) /\ Len(l) = n - 1 /\ Len(l) \in Nat
  BY <1>1
<1> HIDE DEF m, n
<1>3. Told(m) = Told(l) \union (IF StateOf(e) = None THEN {} ELSE {n})
  BY <1>1, <1>2 DEF Told
<1>4. ASSUME NEW k \in 1..(n - 1)
      PROVE  Before(m, k) = Before(l, k)
  BY <1>1, <1>3 DEF Before
<1>5. Before(m, n) = Told(l)
  <2>1. Told(l) \subseteq 1..(n - 1)
    BY <1>1 DEF Told
  <2> QED
    BY <1>1, <1>3, <2>1 DEF Before
<1>6. ASSUME NEW k \in 1..(n - 1)
      PROVE  k \in Changes(m) <=> k \in Changes(l)
  <2>1. k \in Told(m) <=> k \in Told(l)
    BY <1>1, <1>3, <1>6
  <2>2. Before(m, k) # {} => Max(Before(l, k)) \in 1..(n - 1)
    <3>1. Before(l, k) \in SUBSET (1..(n - 1)) /\ n - 1 \in Nat
      BY <1>1, <1>2 DEF Before, Told
    <3> QED
      BY <1>4, <3>1, Greatest
  <2>3. /\ m[k] = l[k]
        /\ Before(m, k) # {} => m[Max(Before(m, k))] = l[Max(Before(l, k))]
    BY <1>1, <1>4, <2>2
  <2> QED
    BY <1>4, <2>1, <2>3 DEF Changes
<1> QED
  BY <1>2, <1>3, <1>5, <1>6 DEF m, n

\* An event without a state changes nothing of the trajectory.
LEMMA UntoldStays ==
    ASSUME NEW l \in Seq(Events), NEW e \in Events, StateOf(e) = None, NEW s
    PROVE  /\ Told(Append(l, e)) = Told(l)
           /\ IsTrail(l, s) => IsTrail(Append(l, e), s)
           /\ Told(l) # {} => Append(l, e)[Max(Told(l))] = l[Max(Told(l))]
<1> DEFINE m == Append(l, e)
<1>1. Told(m) = Told(l)
  BY PlacesStay
<1>2. Told(l) \subseteq 1..Len(l) /\ \A k \in 1..Len(l) : m[k] = l[k]
  BY Appended, ToldPlaces
<1>3. Changes(m) = Changes(l)
  <2>1. Changes(m) \subseteq Told(m) /\ Changes(l) \subseteq Told(l)
    BY DEF Changes
  <2>2. \A k \in 1..Len(l) : k \in Changes(m) <=> k \in Changes(l)
    BY PlacesStay
  <2> HIDE DEF m
  <2> QED
    BY <1>1, <1>2, <2>1, <2>2
<1> HIDE DEF m
<1>4. \A k \in Changes(l) : Nth(m, k) = Nth(l, k) /\ m[k] = l[k]
  BY <1>2, <1>3 DEF Nth, Changes
<1>5. Told(l) # {} => m[Max(Told(l))] = l[Max(Told(l))]
  <2>1. Told(l) \in SUBSET (1..Len(l)) /\ Len(l) \in Nat
    BY ToldPlaces
  <2> QED
    BY <1>2, <2>1, Greatest
<1> QED
  BY <1>1, <1>3, <1>4, <1>5 DEF IsTrail, m

\* RecordState adds a step exactly when the event changes the state.
LEMMA TrailGrows ==
    ASSUME NEW S, NEW l \in Seq(Events), NEW s \in Seq(S),
           NEW e \in Events, StateOf(e) # None, StateOf(e) \in S,
           Told(l) = {} => s = <<>>,
           Told(l) # {} => /\ IsTrail(l, s) /\ s # <<>>
                           /\ Last(s) = StateOf(l[Max(Told(l))])
    PROVE  LET m == Append(l, e)
               t == RecordState(s, StateOf(e))
           IN /\ t \in Seq(S) /\ t # <<>> /\ Last(t) = StateOf(e)
              /\ IsTrail(m, t)
              /\ Told(m) # {} /\ Max(Told(m)) = Len(l) + 1 /\ m[Len(l) + 1] = e
<1> DEFINE m == Append(l, e)
           n == Len(l) + 1
           t == RecordState(s, StateOf(e))
<1>1. /\ n \in Nat /\ Len(l) = n - 1 /\ n \notin 1..(n - 1)
      /\ m[n] = e /\ \A k \in 1..(n - 1) : m[k] = l[k]
  BY Appended
<1>2. /\ Told(m) = Told(l) \union {n} /\ Before(m, n) = Told(l)
      /\ \A k \in 1..(n - 1) : k \in Changes(m) <=> k \in Changes(l)
  BY PlacesStay
<1>3. /\ Told(l) \subseteq 1..(n - 1) /\ Changes(l) \subseteq 1..(n - 1)
      /\ IsFiniteSet(Changes(l)) /\ Cardinality(Changes(l)) \in Nat
      /\ \A k \in Changes(l) : Nth(l, k) \in 1..Cardinality(Changes(l))
  BY ToldPlaces, <1>1
<1>4. Told(m) # {} /\ Max(Told(m)) = n
  <2>1. n \in Told(m) /\ \A y \in Told(m) : n >= y
    BY <1>1, <1>2, <1>3
  <2>2. Told(m) \in SUBSET (1..n)
    BY <1>1, <1>2, <1>3
  <2>3. Max(Told(m)) \in Told(m) /\ n <= Max(Told(m))
    BY <1>1, <2>1, <2>2, Greatest
  <2> HIDE DEF m, n
  <2> QED
    BY <1>1, <2>1, <2>2, <2>3
<1>5. /\ t \in Seq(S) /\ t # <<>> /\ Last(t) = StateOf(e)
      /\ t = IF s # <<>> /\ Last(s) = StateOf(e) THEN s ELSE Append(s, StateOf(e))
  BY Appended DEF RecordState
<1>6. n \in Changes(m) <=> (Told(l) # {} => StateOf(e) # Last(s))
  <2>1. Told(l) # {} => Max(Told(l)) \in 1..(n - 1)
    <3>1. n - 1 \in Nat /\ Told(l) \in SUBSET (1..(n - 1))
      BY <1>1, <1>3
    <3> QED
      BY <1>3, <3>1, Greatest
  <2>2. Told(l) # {} => m[Max(Told(l))] = l[Max(Told(l))]
    BY <1>1, <2>1
  <2>3. n \in Told(m)
    BY <1>2
  <2> HIDE DEF m, n
  <2> QED
    BY <1>1, <1>2, <2>2, <2>3 DEF Changes
<1>7. IsTrail(l, s) /\ Len(s) \in Nat
  <2>1. CASE Told(l) = {}
    <3>1. Changes(l) = {}
      BY <2>1 DEF Changes
    <3> QED
      BY <2>1, <3>1, FS_EmptySet DEF IsTrail
  <2> QED
    BY <2>1
<1>8. Changes(m) = Changes(l) \union (IF n \in Changes(m) THEN {n} ELSE {})
  <2>1. Changes(m) \subseteq 1..(n - 1) \union {n}
    BY <1>2, <1>3 DEF Changes
  <2> HIDE DEF m, n
  <2> QED
    BY <1>2, <1>3, <2>1
<1>9. \A k \in Changes(l) : Nth(m, k) = Nth(l, k) /\ m[k] = l[k]
  <2>1. ASSUME NEW k \in Changes(l)
        PROVE  {j \in Changes(m) : j <= k} = {j \in Changes(l) : j <= k}
    <3>1. k \in 1..(n - 1) /\ ~(n <= k)
      BY <1>1, <1>3
    <3> HIDE DEF m, n
    <3> QED
      BY <1>8, <3>1
  <2> HIDE DEF m, n
  <2> QED
    BY <1>1, <1>3, <2>1 DEF Nth
<1>10. CASE n \notin Changes(m)
  <2>1. t = s
    <3>1. s # <<>> /\ Last(s) = StateOf(e)
      BY <1>6, <1>10
    <3> QED
      BY <1>5, <3>1
  <2> HIDE DEF m, n, t
  <2>2. IsTrail(m, t)
    BY <1>7, <1>8, <1>9, <1>10, <2>1 DEF IsTrail
  <2> QED
    BY <1>1, <1>4, <1>5, <2>2 DEF m, n, t
<1>11. CASE n \in Changes(m)
  <2>1. t = Append(s, StateOf(e))
    <3>1. s # <<>> => Last(s) # StateOf(e)
      BY <1>6, <1>11
    <3> QED
      BY <1>5, <3>1
  <2>2. Cardinality(Changes(m)) = Cardinality(Changes(l)) + 1
    <3>1. Changes(m) = Changes(l) \union {n} /\ n \notin Changes(l)
      BY <1>1, <1>3, <1>8, <1>11
    <3> HIDE DEF m, n
    <3> QED
      BY <1>3, <3>1, FS_AddElement
  <2>3. Nth(m, n) = Len(s) + 1
    <3>1. {j \in Changes(m) : j <= n} = Changes(m)
      BY <1>1, <1>3, <1>8
    <3> QED
      BY <1>7, <2>2, <3>1 DEF Nth, IsTrail
  <2>4. /\ Len(t) = Len(s) + 1 /\ t[Len(s) + 1] = StateOf(e)
        /\ \A k \in 1..Len(s) : t[k] = s[k]
    BY <2>1, Appended
  <2>5. \A k \in Changes(l) : Nth(l, k) \in 1..Len(s) /\ s[Nth(l, k)] = StateOf(l[k])
    BY <1>3, <1>7 DEF IsTrail
  <2> HIDE DEF m, n, t
  <2>6. IsTrail(m, t)
    <3>1. Len(t) = Cardinality(Changes(m))
      BY <1>7, <2>2, <2>4 DEF IsTrail
    <3>2. ASSUME NEW k \in Changes(m)
          PROVE  t[Nth(m, k)] = StateOf(m[k])
      <4>1. CASE k = n
        BY <1>1, <2>3, <2>4, <4>1
      <4>2. CASE k \in Changes(l)
        BY <1>9, <2>4, <2>5, <4>2
      <4> QED
        BY <1>8, <4>1, <4>2
    <3> QED
      BY <3>1, <3>2 DEF IsTrail
  <2> QED
    BY <1>1, <1>4, <1>5, <2>6 DEF m, n, t
<1> QED
  BY <1>10, <1>11

-----------------------------------------------------------------------------
(* The inductive invariant.                                                 *)

States == {StateOf(e) : e \in Events} \union {"message"}

TypeInv ==
    /\ mode \in Modes
    /\ pc \in {"open", "finished", "failed"}
    /\ log \in Seq(Events)
    /\ state \in States
    /\ states \in Seq(States)

\* The trajectory ends in the current state; a stream that told none has the
\* state of a message, which only the end of the stream records.
TrailInv ==
    /\ Told(log) = {} =>
          /\ state = "message"
          /\ states = IF pc = "finished" THEN <<state>> ELSE <<>>
    /\ Told(log) # {} =>
          /\ IsTrail(log, states)
          /\ states # <<>>
          /\ Last(states) = state
          /\ state = StateOf(log[Max(Told(log))])

\* A subscription never leaves its task and context, and from its first event,
\* a snapshot, on it has the state of a task.
SubscribeInv ==
    mode = "subscribe" =>
        /\ task \in {None, Identity.task}
        /\ context = Identity.context
        /\ log # <<>> =>
              /\ Identity = [task |-> task, context |-> context]
              /\ state # "message"

FinishInv == pc = "finished" => MayFinish /\ log # <<>>

\* The artifacts are what a reader of the whole log assembles.
ArtifactsInv == Agrees(artifacts, DeliveriesOf(log))

CollectInv == TypeInv /\ TrailInv /\ SubscribeInv /\ FinishInv /\ ArtifactsInv

LEMMA CollectStarts == Init => CollectInv
<1> SUFFICES ASSUME Init PROVE CollectInv
  OBVIOUS
<1>1. Told(log) = {}
  BY DEF Init, Told
<1> QED
  BY <1>1, NothingDelivered
     DEF Init, CollectInv, TypeInv, TrailInv, SubscribeInv, FinishInv, ArtifactsInv, States

\* The last id present is the one that was there if every id present is.
LEMMA LastPresentIs ==
    ASSUME NEW S, NEW ids \in Seq(S), NEW id, NEW old,
           \A k \in DOMAIN ids : ids[k] \in {None, id}
    PROVE  /\ LastPresent(old, ids) \in {old, id}
           /\ (\E k \in DOMAIN ids : ids[k] # None) => LastPresent(old, ids) = id
<1> DEFINE present == {k \in DOMAIN ids : ids[k] # None}
<1>1. present \in SUBSET (1..Len(ids)) /\ Len(ids) \in Nat
  OBVIOUS
<1>2. present # {} => Max(present) \in present
  BY <1>1, Greatest
<1> QED
  BY <1>2 DEF LastPresent

-----------------------------------------------------------------------------
(* Every step preserves it.                                                 *)

\* An event that is collected.
Collects(e) ==
    LET ids == RecordedIds(e) IN
    /\ pc = "open" /\ pc' \in {"open", "failed"}
    /\ Admissible(e) /\ Fits(e)
    /\ task' = LastPresent(task, [k \in DOMAIN ids |-> ids[k].task])
    /\ context' = LastPresent(context, [k \in DOMAIN ids |-> ids[k].context])
    /\ state' = IF StateOf(e) = None THEN state ELSE StateOf(e)
    /\ states' = RecordState(states, StateOf(e))
    /\ artifacts' = CollectArtifacts(artifacts, e)
    /\ log' = Append(log, e)
    /\ mode' = mode

\* A stream that ends otherwise.
Ends ==
    /\ pc = "open" /\ pc' = "failed"
    /\ UNCHANGED <<mode, task, context, state, states, artifacts, log>>

LEMMA AddCases == ASSUME NEW e \in Events, Add(e) PROVE Collects(e) \/ Ends
  BY DEF Add, Collects, Ends

LEMMA EndsSteps == CollectInv /\ Ends => CollectInv'
  BY DEF CollectInv, TypeInv, TrailInv, SubscribeInv, FinishInv, ArtifactsInv, Ends

LEMMA FinishSteps == CollectInv /\ Finish => CollectInv'
<1> SUFFICES ASSUME CollectInv, Finish PROVE CollectInv'
  OBVIOUS
<1>1. CASE log # <<>> /\ MayFinish
  <2>1. /\ pc = "open" /\ pc' = "finished"
        /\ states' = IF states = <<>> THEN <<state>> ELSE states
        /\ UNCHANGED <<mode, task, context, state, artifacts, log>>
    BY <1>1 DEF Finish
  <2>2. TypeInv'
    BY <2>1 DEF CollectInv, TypeInv
  <2>3. TrailInv'
    BY <2>1 DEF CollectInv, TrailInv
  <2>4. SubscribeInv' /\ FinishInv' /\ ArtifactsInv'
    BY <1>1, <2>1 DEF CollectInv, SubscribeInv, FinishInv, ArtifactsInv, MayFinish
  <2> QED
    BY <2>2, <2>3, <2>4 DEF CollectInv
<1>2. CASE ~(log # <<>> /\ MayFinish)
  BY <1>2, EndsSteps DEF Finish, Ends
<1> QED
  BY <1>1, <1>2

LEMMA CollectsTrail ==
    ASSUME CollectInv, NEW e \in Events, Collects(e)
    PROVE  TypeInv' /\ TrailInv' /\ FinishInv'
<1>1. /\ log \in Seq(Events) /\ states \in Seq(States) /\ state \in States
      /\ mode \in Modes /\ pc = "open" /\ pc' \in {"open", "failed"} /\ mode' = mode
      /\ log' = Append(log, e) /\ log' \in Seq(Events)
      /\ states' = RecordState(states, StateOf(e))
      /\ state' = IF StateOf(e) = None THEN state ELSE StateOf(e)
  BY Appended DEF CollectInv, TypeInv, Collects
<1>2. StateOf(e) \in States
  BY DEF States
<1>3. CASE StateOf(e) = None
  <2>1. states' = states /\ state' = state
    BY <1>1, <1>3 DEF RecordState
  <2>2. /\ Told(log') = Told(log)
        /\ IsTrail(log, states) => IsTrail(log', states)
        /\ Told(log) # {} => log'[Max(Told(log))] = log[Max(Told(log))]
    BY <1>1, <1>3, UntoldStays
  <2>3. TypeInv' /\ FinishInv'
    BY <1>1, <2>1 DEF TypeInv, FinishInv
  <2>4. TrailInv'
    BY <1>1, <2>1, <2>2 DEF CollectInv, TrailInv
  <2> QED
    BY <2>3, <2>4
<1>4. CASE StateOf(e) # None
  <2>1. /\ Told(log) = {} => states = <<>>
        /\ Told(log) # {} => /\ IsTrail(log, states) /\ states # <<>>
                             /\ Last(states) = StateOf(log[Max(Told(log))])
    BY <1>1 DEF CollectInv, TrailInv
  <2>2. /\ states' \in Seq(States) /\ states' # <<>> /\ Last(states') = StateOf(e)
        /\ IsTrail(log', states')
        /\ Told(log') # {} /\ Max(Told(log')) = Len(log) + 1 /\ log'[Len(log) + 1] = e
    BY <1>1, <1>2, <1>4, <2>1, TrailGrows, SMTT(30)
  <2>3. TypeInv' /\ FinishInv'
    BY <1>1, <1>2, <1>4, <2>2 DEF TypeInv, FinishInv
  <2>4. TrailInv'
    BY <1>1, <1>4, <2>2 DEF TrailInv
  <2> QED
    BY <2>3, <2>4
<1> QED
  BY <1>3, <1>4

LEMMA CollectsSubscribed ==
    ASSUME CollectInv, NEW e \in Events, Collects(e)
    PROVE  SubscribeInv'
<1> SUFFICES ASSUME mode = "subscribe" PROVE SubscribeInv'
  BY DEF Collects, SubscribeInv
<1> DEFINE ids == RecordedIds(e)
           tasks == [k \in DOMAIN ids |-> ids[k].task]
           contexts == [k \in DOMAIN ids |-> ids[k].context]
<1>1. /\ e.type \notin {"empty", "message"} /\ Own(e) = Identity
      /\ log = <<>> => e.type = "task"
      /\ \A k \in DOMAIN MessagesOf(e) :
            /\ MessagesOf(e)[k].task \in {None, Identity.task}
            /\ MessagesOf(e)[k].context \in {None, Identity.context}
  BY DEF Collects, Admissible, Fits
<1>2. Identity = [task |-> Identity.task, context |-> Identity.context]
  BY <1>1 DEF Own
<1>3. ids \in Seq({ids[k] : k \in DOMAIN ids}) /\ 1 \in DOMAIN ids /\ ids[1] = Own(e)
      /\ \A k \in DOMAIN ids : /\ ids[k].task \in {None, Identity.task}
                              /\ ids[k].context \in {None, Identity.context}
  <2> DEFINE said == MessagesOf(e)
             named == [k \in DOMAIN said |->
                          IF said[k].role = "agent"
                          THEN [task |-> said[k].task, context |-> said[k].context]
                          ELSE [task |-> None, context |-> None]]
             N == {named[k] : k \in DOMAIN named} \union {Own(e)}
  <2>1. said \in Seq(ToSet(said))
    BY EventsAssumption
  <2>2. named \in Seq(N) /\ Len(named) \in Nat /\ DOMAIN named = DOMAIN said
        /\ DOMAIN named = 1..Len(named)
    <3>1. DOMAIN said = 1..Len(said) /\ Len(said) \in Nat
      BY <2>1
    <3> QED
      BY <3>1
  <2>3. \A k \in DOMAIN named : /\ named[k].task \in {None, Identity.task}
                                /\ named[k].context \in {None, Identity.context}
    BY <1>1
  <2>4. ids = <<Own(e)>> \o named
    BY <1>1 DEF RecordedIds
  <2> HIDE DEF ids, named, said
  <2>5. /\ ids \in Seq(N) /\ Len(ids) = 1 + Len(named) /\ ids[1] = Own(e)
        /\ \A k \in 2..Len(ids) : k - 1 \in DOMAIN named /\ ids[k] = named[k - 1]
    <3> HIDE DEF N
    <3>1. <<Own(e)>> \in Seq(N)
      BY DEF N
    <3> QED
      BY <2>2, <2>4, <3>1
  <2> HIDE DEF N
  <2>6. DOMAIN ids = 1..Len(ids) /\ Len(ids) \in Nat
    BY <2>5
  <2>7. ids \in Seq({ids[k] : k \in DOMAIN ids})
    BY <2>5, <2>6
  <2>8. \A k \in DOMAIN ids : /\ ids[k].task \in {None, Identity.task}
                              /\ ids[k].context \in {None, Identity.context}
    BY <1>1, <2>3, <2>5, <2>6
  <2> QED
    BY <2>2, <2>5, <2>6, <2>7, <2>8
<1> HIDE DEF ids
<1>4. task' = Identity.task
  <2>1. tasks \in Seq({ids[k].task : k \in DOMAIN ids}) /\ DOMAIN tasks = DOMAIN ids
    BY <1>3
  <2>2. \A k \in DOMAIN tasks : tasks[k] \in {None, Identity.task}
    BY <1>3
  <2>3. 1 \in DOMAIN tasks /\ tasks[1] = Identity.task
    BY <1>1, <1>3
  <2>4. task' = LastPresent(task, tasks) /\ task \in {None, Identity.task}
    BY DEF Collects, CollectInv, SubscribeInv, ids
  <2> HIDE DEF tasks
  <2>5. /\ LastPresent(task, tasks) \in {task, Identity.task}
        /\ (\E k \in DOMAIN tasks : tasks[k] # None) => LastPresent(task, tasks) = Identity.task
    BY <2>1, <2>2, LastPresentIs
  <2> QED
    BY <2>3, <2>4, <2>5
<1>5. context' = Identity.context
  <2>1. contexts \in Seq({ids[k].context : k \in DOMAIN ids}) /\ DOMAIN contexts = DOMAIN ids
    BY <1>3
  <2>2. \A k \in DOMAIN contexts : contexts[k] \in {None, Identity.context}
    BY <1>3
  <2>3. context' = LastPresent(context, contexts) /\ context = Identity.context
    BY DEF Collects, CollectInv, SubscribeInv, ids
  <2> HIDE DEF contexts
  <2>4. LastPresent(context, contexts) \in {context, Identity.context}
    BY <2>1, <2>2, LastPresentIs
  <2> QED
    BY <2>3, <2>4
<1>6. state' # "message"
  <2>1. e.type \in {"task", "status"} => StateOf(e) = e.state /\ StateOf(e) \notin {None, "message"}
    BY EventsAssumption DEF StateOf
  <2>2. e.type \notin {"task", "status"} => StateOf(e) = None
    BY <1>1 DEF StateOf
  <2>3. state' = IF StateOf(e) = None THEN state ELSE StateOf(e)
    BY DEF Collects
  <2>4. StateOf(e) = None => log # <<>>
    BY <1>1, <2>1
  <2> QED
    BY <2>1, <2>2, <2>3, <2>4 DEF CollectInv, SubscribeInv
<1> QED
  BY <1>2, <1>4, <1>5, <1>6 DEF SubscribeInv

LEMMA CollectsArtifacts ==
    ASSUME CollectInv, NEW e \in Events, Collects(e)
    PROVE  ArtifactsInv'
<1>1. /\ Agrees(artifacts, DeliveriesOf(log)) /\ log \in Seq(Events)
      /\ artifacts' = CollectArtifacts(artifacts, e) /\ log' = Append(log, e)
  BY DEF CollectInv, TypeInv, ArtifactsInv, Collects
<1>2. DeliveriesOf(log') = DeliveriesOf(log) \o DeliveredBy(e)
  BY <1>1, DeliveriesGrow
<1>3. Agrees(CollectArtifacts(artifacts, e), DeliveriesOf(log) \o DeliveredBy(e))
  BY <1>1, AgreesEvent
<1> QED
  BY <1>1, <1>2, <1>3 DEF ArtifactsInv

LEMMA CollectSteps == CollectInv /\ [Next]_vars => CollectInv'
<1> SUFFICES ASSUME CollectInv, [Next]_vars PROVE CollectInv'
  OBVIOUS
<1>1. ASSUME NEW e \in Events, Add(e)
      PROVE  CollectInv'
  <2>1. CASE Collects(e)
    BY <2>1, CollectsTrail, CollectsSubscribed, CollectsArtifacts DEF CollectInv
  <2>2. CASE Ends
    BY <2>2, EndsSteps
  <2> QED
    BY <1>1, <2>1, <2>2, AddCases
<1>2. CASE Finish
  BY <1>2, FinishSteps
<1>3. CASE Break
  BY <1>3, EndsSteps DEF Break, Ends
<1>4. CASE UNCHANGED vars
  BY <1>4 DEF vars, CollectInv, TypeInv, TrailInv, SubscribeInv, FinishInv, ArtifactsInv,
              MayFinish
<1> QED
  BY <1>1, <1>2, <1>3, <1>4 DEF Next

LEMMA CollectInvariant == Spec => []CollectInv
  BY CollectStarts, CollectSteps, PTL DEF Spec

-----------------------------------------------------------------------------
(* The properties.                                                          *)

\* Whatever a stream repeats, reorders or nests, a subscription that succeeds
\* reports the task and context it asked for and a state that ends the turn,
\* and the trajectory it reports ends in that state.
THEOREM OutcomesFit == Spec => []OutcomeFitsOperation
<1>1. CollectInv => OutcomeFitsOperation
  BY DEF CollectInv, TypeInv, TrailInv, SubscribeInv, FinishInv, MayFinish,
         OutcomeFitsOperation, Last
<1>2. QED
  BY <1>1, CollectInvariant, PTL

\* The states collected one by one are, at every moment, the changes of state
\* of the whole log.
THEOREM TrailsAreHistory == Spec => []TrailIsHistory
<1>1. CollectInv => TrailIsHistory
  <2> SUFFICES ASSUME CollectInv, pc = "open" \/ Told(log) # {}
               PROVE  /\ Len(states) = Cardinality(Changes(log))
                      /\ \A k \in Changes(log) :
                            states[Cardinality({j \in Changes(log) : j <= k})] = StateOf(log[k])
    BY DEF TrailIsHistory, Told, Before, Changes
  <2>1. CASE Told(log) = {}
    <3>1. Changes(log) = {} /\ states = <<>>
      BY <2>1 DEF Changes, CollectInv, TrailInv
    <3> QED
      BY <3>1, FS_EmptySet
  <2>2. CASE Told(log) # {}
    BY <2>2 DEF CollectInv, TrailInv, IsTrail, Nth
  <2> QED
    BY <2>1, <2>2
<1>2. QED
  BY <1>1, CollectInvariant, PTL

\* Every artifact with an id of its own is, at every moment, what a reader of
\* the whole log would assemble, in the order in which they first appeared,
\* whatever chunks and snapshots came, came again or came late; those without
\* one are all kept unless the agent sends an id that looks like their names.
THEOREM ArtifactsAreRead == Spec => []ArtifactsMatchLog
<1>1. CollectInv => ArtifactsMatchLog
  <2> SUFFICES ASSUME CollectInv PROVE ArtifactsMatchLog
    OBVIOUS
  <2> DEFINE d == Deliveries
             ids == {d[k].id : k \in Named(d)}
  <2>1. Deliveries = DeliveriesOf(log)
    <3>1. \A k \in DOMAIN log :
             DeliveredBy(log[k]) = [j \in DOMAIN ArtifactsOf(log[k]) |->
                 [id |-> ArtifactsOf(log[k])[j].id,
                  text |-> ArtifactsOf(log[k])[j].text,
                  append |-> Appends(log[k])]]
      <4> TAKE k \in DOMAIN log
      <4>1. log[k] \in Events
        BY DEF CollectInv, TypeInv
      <4>2. DOMAIN ArtifactsOf(log[k]) = 1..Len(ArtifactsOf(log[k]))
        BY <4>1, DeliveredTypes
      <4> QED
        BY <4>2 DEF DeliveredBy, DeliveredUpto, Delivered
    <3>2. [k \in DOMAIN log |-> DeliveredBy(log[k])] =
             [k \in DOMAIN log |-> [j \in DOMAIN ArtifactsOf(log[k]) |->
                 [id |-> ArtifactsOf(log[k])[j].id,
                  text |-> ArtifactsOf(log[k])[j].text,
                  append |-> Appends(log[k])]]]
      BY <3>1
    <3> QED
      BY <3>2, Zenon DEF Deliveries, DeliveriesOf
  <2>2. Matches(artifacts, d) /\ Kept(artifacts, d)
    BY <2>1 DEF CollectInv, ArtifactsInv, Agrees
  <2> HIDE DEF d
  <2>3. /\ DOMAIN artifacts = 1..Len(artifacts)
        /\ \A k \in DOMAIN artifacts :
              Proper(artifacts[k].key) <=> artifacts[k].key \notin Numbers
    <3>1. \A k \in 1..Len(artifacts) : artifacts[k] \in Entry
      BY <2>2 DEF Matches
    <3>2. DOMAIN artifacts = 1..Len(artifacts)
      BY <2>2 DEF Matches
    <3> QED
      BY <3>1, <3>2, NamesAssumption DEF Entry, Proper
  <2>4. \A id : id \in ids <=> Proper(id) /\ Of(d, id) # {}
    BY DEF Of, Named
  <2>5. \A id : Proper(id) =>
           (Of(d, id) # {} <=> \E k \in 1..Len(artifacts) : artifacts[k].key = id)
    BY <2>2 DEF Matches
  <2> HIDE DEF ids
  <2>6. Keys(artifacts) \ Numbers = ids
    BY <2>3, <2>4, <2>5 DEF Keys, Proper
  <2>7. \A j, k \in DOMAIN artifacts :
           j < k /\ {artifacts[j].key, artifacts[k].key} \subseteq ids
              => First(d, artifacts[j].key) < First(d, artifacts[k].key)
    BY <2>2, <2>3, <2>4 DEF Matches
  <2>8. \A k \in DOMAIN artifacts :
           artifacts[k].key \notin Numbers => artifacts[k].text = Reader(d, artifacts[k].key)
    BY <2>2, <2>3 DEF Matches
  <2>9. (\A k \in DOMAIN d : d[k].id \notin Numbers) => Numbering(artifacts) = Anonymous(d)
    BY <2>2 DEF Kept, Unlike
  <2> QED
    BY <2>6, <2>7, <2>8, <2>9, Zenon
       DEF ArtifactsMatchLog, Named, Of, First, Fresh, Start, Parts, Reader, Anonymous,
           Numbering, d, ids
<1>2. QED
  BY <1>1, CollectInvariant, PTL
=============================================================================
