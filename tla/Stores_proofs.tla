--------------------------- MODULE Stores_proofs ---------------------------
(***************************************************************************)
(* Theorems about the two stores that are read from files: the hash table  *)
(* of the UBODT implements the map; the road network finds the nearest     *)
(* candidates, numbers them apart, and draws a path without a gap.         *)
(***************************************************************************)
EXTENDS UBODTTable, RoadNetwork, LeastNumber, SequenceTheorems, TLAPS

-----------------------------------------------------------------------------
(* find_prime_number always answers with a size of its ladder. *)
LEMMA LadderSize ==
  ASSUME NEW rows \in Int
  PROVE  FindPrime(rows) \in Nat \ {0}
<1> DEFINE enough == {i \in DOMAIN Primes : rows <= LoadFactor * Primes[i]}
<1>1. CASE enough = {}
  BY <1>1, TableAssumption DEF FindPrime
<1>2. CASE enough # {}
  <2>1. enough \in SUBSET Nat
    BY TableAssumption
  <2>2. \E i \in enough : \A j \in enough : i <= j
    BY <1>2, <2>1, LeastElement
  <2>3. \A i \in enough : Primes[i] \in Nat \ {0}
    BY TableAssumption
  <2> QED
    BY <1>2, <2>2, <2>3 DEF FindPrime
<1> QED
  BY <1>1, <1>2

(* The estimate of the size of the file is an integer, negative or not. *)
LEMMA EstimateIsInt ==
  ASSUME NEW bytes \in Nat
  PROVE  EstimateRows(bytes) \in Int
<1>1. bytes % IntRange \in 0 .. IntRange - 1
  BY TableAssumption
<1>2. AsInt(bytes) \in Int
  BY <1>1, TableAssumption DEF AsInt
<1>3. \A a \in Nat : a \div RowSize \in Int
  BY TableAssumption
<1>4. ASSUME NEW a \in Int PROVE Quotient(a, RowSize) \in Int
  <2>1. CASE a >= 0
    BY <1>3, <2>1 DEF Quotient
  <2>2. CASE ~ (a >= 0)
    <3>1. -a \in Nat
      BY <2>2
    <3> QED
      BY <1>3, <2>2, <3>1 DEF Quotient
  <2> QED
    BY <2>1, <2>2
<1> QED
  BY <1>2, <1>4 DEF EstimateRows

(* The bucket of a pair is one of the buckets of the table. *)
LEMMA BucketInTable ==
  ASSUME NEW b \in Nat \ {0}, NEW s \in NodeIndex, NEW t \in NodeIndex
  PROVE  CalBucketIndex(b, s, t) \in 0 .. b - 1
<1>1. s \in Nat /\ t \in Nat
  BY TableAssumption DEF NodeIndex
<1>2. s * Multiplier \in Nat
  BY <1>1, TableAssumption
<1>3. s * Multiplier + t \in Nat
  BY <1>1, <1>2
<1> HIDE DEF NodeIndex
<1>4. \A n \in Nat : n % b \in 0 .. b - 1
  OBVIOUS
<1> QED
  BY <1>3, <1>4 DEF CalBucketIndex

-----------------------------------------------------------------------------
(* A walk along a chain stops at its first match. *)
LEMMA WalkStops ==
  ASSUME NEW chain \in Seq(Record), NEW s, NEW t, NEW i,
         IsFirstMatch(chain, i, s, t)
  PROVE  Walk(chain, s, t) = chain[i]
<1>1. i \in 1 .. Len(chain)
  BY DEF IsFirstMatch
<1>2. ASSUME NEW j \in 1 .. Len(chain), IsFirstMatch(chain, j, s, t)
      PROVE  j = i
  <2>1. ~ (j < i)
    BY <1>2 DEF IsFirstMatch
  <2>2. ~ (i < j)
    BY <1>1, <1>2 DEF IsFirstMatch
  <2> QED
    BY <1>1, <2>1, <2>2
<1> QED
  BY <1>1, <1>2 DEF Walk

(* The record linked in front is found first. *)
LEMMA WalkToHead ==
  ASSUME NEW chain \in Seq(Record), NEW r \in Record
  PROVE  Walk(Link(r, chain), r.source, r.target) = r
<1>1. Link(r, chain) \in Seq(Record) /\ Link(r, chain)[1] = r
      /\ 1 \in 1 .. Len(Link(r, chain))
  BY DEF Link
<1>2. IsFirstMatch(Link(r, chain), 1, r.source, r.target)
  BY <1>1 DEF IsFirstMatch, Matches
<1> QED
  BY <1>1, <1>2, WalkStops

(* A record of another pair in front of a chain changes no answer. *)
LEMMA WalkPastHead ==
  ASSUME NEW chain \in Seq(Record), NEW r \in Record, NEW s, NEW t,
         ~ Matches(r, s, t)
  PROVE  Walk(Link(r, chain), s, t) = Walk(chain, s, t)
<1> DEFINE longer == Link(r, chain)
<1>1. /\ longer \in Seq(Record) /\ Len(longer) = Len(chain) + 1
      /\ longer[1] = r
      /\ \A i \in 1 .. Len(chain) : longer[i + 1] = chain[i]
  BY DEF Link
<1>2. ASSUME NEW i \in 1 .. Len(chain), IsFirstMatch(chain, i, s, t)
      PROVE  IsFirstMatch(longer, i + 1, s, t)
  <2>1. ASSUME NEW j \in 1 .. i PROVE ~ Matches(longer[j], s, t)
    <3>1. CASE j = 1
      BY <1>1, <3>1
    <3>2. CASE j # 1
      <4>1. j - 1 \in 1 .. i - 1 /\ longer[j] = chain[j - 1]
        BY <1>1, <3>2
      <4> QED
        BY <1>2, <4>1 DEF IsFirstMatch
    <3> QED
      BY <3>1, <3>2
  <2>2. Matches(longer[i + 1], s, t)
    BY <1>1, <1>2 DEF IsFirstMatch
  <2> QED
    BY <1>1, <2>1, <2>2 DEF IsFirstMatch
<1>3. ASSUME NEW i \in 1 .. Len(longer), IsFirstMatch(longer, i, s, t)
      PROVE  \E j \in 1 .. Len(chain) : IsFirstMatch(chain, j, s, t)
  <2>1. i # 1
    BY <1>1, <1>3 DEF IsFirstMatch
  <2>2. i - 1 \in 1 .. Len(chain) /\ longer[i] = chain[i - 1]
    BY <1>1, <2>1
  <2>3. ASSUME NEW j \in 1 .. (i - 1) - 1 PROVE ~ Matches(chain[j], s, t)
    <3>1. j + 1 \in 1 .. i - 1 /\ longer[j + 1] = chain[j]
      BY <1>1, <2>2
    <3> QED
      BY <1>3, <3>1 DEF IsFirstMatch
  <2>4. Matches(chain[i - 1], s, t)
    BY <1>3, <2>2 DEF IsFirstMatch
  <2> QED
    BY <2>2, <2>3, <2>4 DEF IsFirstMatch
<1>4. CASE \E i \in 1 .. Len(chain) : IsFirstMatch(chain, i, s, t)
  <2>1. PICK i \in 1 .. Len(chain) : IsFirstMatch(chain, i, s, t)
    BY <1>4
  <2>2. Walk(chain, s, t) = chain[i]
    BY <2>1, WalkStops
  <2>3. Walk(longer, s, t) = longer[i + 1]
    BY <1>1, <1>2, <2>1, WalkStops
  <2> QED
    BY <1>1, <2>2, <2>3
<1>5. CASE ~ \E i \in 1 .. Len(chain) : IsFirstMatch(chain, i, s, t)
  BY <1>3, <1>5 DEF Walk
<1> QED
  BY <1>4, <1>5

-----------------------------------------------------------------------------
(* The facts about one turn of the read loop the theorems below share. *)
LEMMA InsertStep ==
  ASSUME TypeOK, Insert
  PROVE  /\ Head(file) \in Record
         /\ BucketOf(Head(file)) \in 0 .. buckets - 1
         /\ hashtable[BucketOf(Head(file))] \in Seq(Record)
         /\ \A h \in 0 .. buckets - 1 :
              hashtable'[h] = IF h = BucketOf(Head(file))
                              THEN Link(Head(file), hashtable[h])
                              ELSE hashtable[h]
<1>1. Head(file) \in Record
  BY DEF TypeOK, Insert
<1>2. buckets \in Nat \ {0}
  BY DEF TypeOK, Insert
<1>3. Head(file).source \in NodeIndex /\ Head(file).target \in NodeIndex
  BY <1>1 DEF Record
<1>4. BucketOf(Head(file)) \in 0 .. buckets - 1
  BY <1>2, <1>3, BucketInTable DEF BucketOf
<1>5. hashtable' = [hashtable EXCEPT ![BucketOf(Head(file))] =
                      Link(Head(file), hashtable[BucketOf(Head(file))])]
  BY DEF Insert
<1>6. hashtable \in [0 .. buckets - 1 -> Seq(Record)]
  BY DEF TypeOK
<1> QED
  BY <1>1, <1>4, <1>5, <1>6

\* The constructor clears as many buckets as it allocates.
LEMMA ConstructStep ==
  ASSUME TypeOK, Construct
  PROVE  /\ buckets' \in Nat \ {0}
         /\ \A h \in 0 .. buckets' - 1 : hashtable'[h] = <<>>
         /\ hashtable' \in [0 .. buckets' - 1 -> Seq(Record)]
<1>1. RowSize * size \in Nat
  BY TableAssumption DEF TypeOK
<1>2. buckets' \in Nat \ {0}
  BY <1>1, EstimateIsInt, LadderSize DEF Construct
<1> QED
  BY <1>2 DEF Construct

(***************************************************************************)
(* Type correctness and filing: the invariant holds initially, and every   *)
(* step of the reader preserves it.                                        *)
(***************************************************************************)
THEOREM Invariance == Spec => []IInv
<1>1. Init => IInv
  <2> SUFFICES ASSUME Init PROVE IInv
    OBVIOUS
  <2>1. file \in Seq(Record)
    BY TableAssumption DEF Init
  <2>2. TypeOK
    <3>1. hashtable \in [0 .. buckets - 1 -> Seq(Record)]
      <4>1. 0 .. 0 - 1 = {} /\ <<>> = [h \in {} |-> <<>>]
        OBVIOUS
      <4> QED
        BY <4>1 DEF Init
    <3> QED
      BY <2>1, <3>1 DEF Init, TypeOK
  <2>3. InItsBucket
    BY DEF Init, InItsBucket
  <2> QED
    BY <2>2, <2>3 DEF IInv
<1>2. IInv /\ [Next]_vars => IInv'
  <2> SUFFICES ASSUME IInv, [Next]_vars PROVE IInv'
    OBVIOUS
  <2> USE DEF IInv
  <2>1. CASE Construct
    <3>1. TypeOK'
      BY <2>1, ConstructStep DEF TypeOK, Construct
    <3>2. InItsBucket'
      BY <2>1, ConstructStep DEF InItsBucket
    <3> QED
      BY <3>1, <3>2
  <2>2. CASE Insert
    <3> DEFINE r == Head(file)
    <3>1. \A h \in 0 .. buckets - 1 :
            hashtable'[h] = IF h = BucketOf(r) THEN Link(r, hashtable[h])
                            ELSE hashtable[h]
      BY <2>2, InsertStep
    <3>2. r \in Record /\ buckets' = buckets
      BY <2>2, InsertStep DEF Insert
    <3>3. TypeOK'
      <4>1. file' \in Seq(Record)
        BY <2>2 DEF TypeOK, Insert
      <4>2. hashtable' \in [0 .. buckets' - 1 -> Seq(Record)]
        <5>1. Link(r, hashtable[BucketOf(r)]) \in Seq(Record)
          BY <2>2, <3>2, InsertStep DEF Link
        <5> QED
          BY <2>2, <5>1 DEF Insert, TypeOK
      <4>3. delta' \in Nat
        <5>1. r.cost \in Nat
          BY <3>2, TableAssumption DEF Record
        <5> QED
          BY <2>2, <5>1 DEF Insert, TypeOK
      <4> QED
        BY <2>2, <4>1, <4>2, <4>3 DEF Insert, TypeOK
    <3>4. InItsBucket'
      <4> SUFFICES ASSUME NEW h \in 0 .. buckets - 1,
                          NEW i \in 1 .. Len(hashtable'[h])
                   PROVE  h = CalBucketIndex(buckets, hashtable'[h][i].source,
                                             hashtable'[h][i].target)
        BY <3>2 DEF InItsBucket, CalBucketIndex
      <4>1. CASE h = BucketOf(r)
        <5>1. hashtable[h] \in Seq(Record) /\ hashtable'[h] = Link(r, hashtable[h])
          BY <3>1, <4>1 DEF TypeOK
        <5>2. CASE i = 1
          <6>1. hashtable'[h][i] = r
            BY <3>2, <5>1, <5>2 DEF Link
          <6> QED
            BY <4>1, <6>1 DEF BucketOf
        <5>3. CASE i # 1
          <6>1. /\ i - 1 \in 1 .. Len(hashtable[h])
                /\ hashtable'[h][i] = hashtable[h][i - 1]
            BY <3>2, <5>1, <5>3 DEF Link
          <6> QED
            BY <6>1 DEF InItsBucket
        <5> QED
          BY <5>2, <5>3
      <4>2. CASE h # BucketOf(r)
        BY <3>1, <4>2 DEF InItsBucket
      <4> QED
        BY <4>1, <4>2
    <3> QED
      BY <3>3, <3>4
  <2>3. CASE Serving \/ UNCHANGED vars
    BY <2>3 DEF Serving, vars, TypeOK, InItsBucket, CalBucketIndex
  <2> QED
    BY <2>1, <2>2, <2>3 DEF Next
<1> QED
  BY <1>1, <1>2, PTL DEF Spec

(***************************************************************************)
(* The reader and its table implement the map: constructing the table      *)
(* answers nothing for every pair, and reading a row is one Put of the row *)
(* at its own pair, whatever chain it is linked into.                      *)
(***************************************************************************)
THEOREM TableImplementsMap == Spec => ImplementsMap
<1> DEFINE answers == [p \in Pair |-> LookUp(p[1], p[2])]
<1>1. Init => Abstract!Init
  BY DEF Init, LookUp, Abstract!Init
<1>2. IInv /\ [Next]_vars => [Abstract!Next]_answers
  <2> SUFFICES ASSUME IInv, [Next]_vars PROVE [Abstract!Next]_answers
    OBVIOUS
  <2> USE DEF IInv
  <2>1. CASE Construct
    <3>1. \A p \in Pair : LookUp(p[1], p[2]) = Null
      BY <2>1 DEF Construct, LookUp
    <3>2. ASSUME NEW p \in Pair PROVE LookUp(p[1], p[2])' = Null
      <4>1. buckets' \in Nat \ {0} /\ p[1] \in NodeIndex /\ p[2] \in NodeIndex
        BY <2>1, ConstructStep DEF Pair
      <4>2. CalBucketIndex(buckets', p[1], p[2]) \in 0 .. buckets' - 1
        BY <4>1, BucketInTable
      <4>3. Walk(<<>>, p[1], p[2]) = Null
        BY DEF Walk
      <4> QED
        BY <2>1, <4>1, <4>2, <4>3, ConstructStep DEF LookUp
    <3>3. answers' = answers
      BY <3>1, <3>2
    <3> QED
      BY <3>3
  <2>2. CASE Insert
    <3> DEFINE r == Head(file)
               at == <<r.source, r.target>>
    <3>1. /\ r \in Record /\ at \in Pair
          /\ buckets \in Nat \ {0} /\ buckets' = buckets
      BY <2>2, InsertStep DEF Insert, TypeOK, Record, Pair
    <3>2. ASSUME NEW p \in Pair
          PROVE  LookUp(p[1], p[2])' = IF p = at THEN r ELSE LookUp(p[1], p[2])
      <4> DEFINE h == CalBucketIndex(buckets, p[1], p[2])
      <4>1. /\ h \in 0 .. buckets - 1
            /\ hashtable[h] \in Seq(Record)
        BY <3>1, BucketInTable DEF Pair, TypeOK
      <4>2. /\ LookUp(p[1], p[2]) = Walk(hashtable[h], p[1], p[2])
            /\ LookUp(p[1], p[2])' = Walk(hashtable'[h], p[1], p[2])
        BY <3>1 DEF LookUp, CalBucketIndex
      <4>3. CASE p = at
        <5>1. h = BucketOf(r) /\ p[1] = r.source /\ p[2] = r.target
          BY <4>3 DEF BucketOf
        <5>2. hashtable'[h] = Link(r, hashtable[h])
          BY <2>2, <4>1, <5>1, InsertStep
        <5> QED
          BY <3>1, <4>1, <4>2, <4>3, <5>1, <5>2, WalkToHead
      <4>4. CASE p # at
        <5>1. ~ Matches(r, p[1], p[2])
          BY <4>4 DEF Matches, Pair
        <5>2. hashtable'[h] = IF h = BucketOf(r) THEN Link(r, hashtable[h])
                              ELSE hashtable[h]
          BY <2>2, <4>1, InsertStep
        <5> QED
          BY <3>1, <4>1, <4>2, <4>4, <5>1, <5>2, WalkPastHead
      <4> QED
        BY <4>3, <4>4
    <3>3. answers' = [answers EXCEPT ![at] = r]
      BY <3>1, <3>2
    <3> QED
      BY <3>1, <3>3 DEF Abstract!Next, Abstract!Put
  <2>3. CASE Serving \/ UNCHANGED vars
    BY <2>3 DEF Serving, vars, LookUp, CalBucketIndex
  <2> QED
    BY <2>1, <2>2, <2>3 DEF Next
<1>3. Spec => []IInv
  BY Invariance
<1> QED
  BY <1>1, <1>2, <1>3, PTL DEF Spec, ImplementsMap, Abstract!Spec
-----------------------------------------------------------------------------

Point == Int \X Int

\* Squares grow with what they are squares of.
LEMMA SquareGrows ==
  ASSUME NEW a \in Nat, NEW b \in Nat
  PROVE  a < b => a * a < b * b
OBVIOUS

\* A square is the same forwards and backwards, and not negative.
LEMMA SquareOfNegative ==
  ASSUME NEW a \in Int
  PROVE  a * a = (-a) * (-a) /\ a * a \in Nat
OBVIOUS

\* Whether forwards or backwards, division by the length of a segment is exact.
LEMMA Quotients ==
  ASSUME NEW L \in Nat \ {0}, NEW n \in Int, NEW x
  PROVE  /\ x = L => (n * x) \div L = n
         /\ x = -L => (n * x) \div L = -n
         /\ x = 0 => (n * x) \div L = 0
OBVIOUS

(***************************************************************************)
(* The number from 0 to L that comes closest to x.                         *)
(***************************************************************************)
Clipped(x, L) == IF x < 0 THEN 0 ELSE IF x > L THEN L ELSE x

\* Clipping to the segment picks the one closest number on it.
LEMMA ClippedClosest ==
  ASSUME NEW x \in Int, NEW L \in Nat, NEW o \in 0 .. L, o # Clipped(x, L)
  PROVE  (x - Clipped(x, L)) * (x - Clipped(x, L)) < (x - o) * (x - o)
<1> DEFINE c == Clipped(x, L)
<1>1. c \in 0 .. L
  BY DEF Clipped
<1>2. CASE x < 0
  <2>1. c = 0 /\ -x \in Nat /\ o - x \in Nat /\ -x < o - x
    BY <1>2 DEF Clipped
  <2>2. (-x) * (-x) < (o - x) * (o - x)
    BY <2>1, SquareGrows
  <2> QED
    BY <2>1, <2>2
<1>3. CASE x > L
  <2>1. c = L /\ x - L \in Nat /\ x - o \in Nat /\ x - L < x - o
    BY <1>3 DEF Clipped
  <2> QED
    BY <2>1, SquareGrows
<1>4. CASE 0 <= x /\ x <= L
  <2>1. c = x /\ x - o # 0 /\ x - o \in Int
    BY <1>4 DEF Clipped
  <2>2. 0 < (x - o) * (x - o)
    BY <2>1
  <2> QED
    BY <2>1, <2>2
<1> QED
  BY <1>2, <1>3, <1>4

Parallel(a, b) == a[1] = b[1] \/ a[2] = b[2]

Directions == {<<1, 0>>, <<-1, 0>>, <<0, 1>>, <<0, -1>>}

\* The point an offset away from a in a direction.
Away(a, d, o) == << a[1] + o * d[1], a[2] + o * d[2] >>

\* What it is to be some way off in each of the four directions.
LEMMA AwayFrom ==
  ASSUME NEW a \in Point, NEW o \in Int
  PROVE  /\ Away(a, <<1, 0>>, o) = <<a[1] + o, a[2]>> /\ Away(a, <<-1, 0>>, o) = <<a[1] - o, a[2]>>
         /\ Away(a, <<0, 1>>, o) = <<a[1], a[2] + o>> /\ Away(a, <<0, -1>>, o) = <<a[1], a[2] - o>>
BY DEF Away, Point

\* An axis-parallel segment runs in one of the four directions.
LEMMA SegmentRuns ==
  ASSUME NEW a \in Point, NEW b \in Point, Parallel(a, b), a # b
  PROVE  /\ Distance(a, b) \in Nat \ {0}
         /\ \E d \in Directions : /\ b = Away(a, d, Distance(a, b))
                                  /\ \A o \in Int : OnSegment(a, b, o) = Away(a, d, o)
<1> DEFINE L == Distance(a, b)
<1>1. /\ a[1] \in Int /\ a[2] \in Int /\ b[1] \in Int /\ b[2] \in Int
      /\ a = <<a[1], a[2]>> /\ b = <<b[1], b[2]>>
  BY DEF Point
<1>2. a[1] # b[1] \/ a[2] # b[2]
  BY <1>1
<1>3. ASSUME NEW o \in Int
      PROVE  OnSegment(a, b, o) = <<a[1] + (o * (b[1] - a[1])) \div L, a[2] + (o * (b[2] - a[2])) \div L>>
  BY DEF OnSegment
<1>4. CASE a[2] = b[2] /\ a[1] < b[1]
  <2>1. L = b[1] - a[1] /\ L \in Nat \ {0} /\ b[2] - a[2] = 0
    BY <1>1, <1>4 DEF Distance, Abs
  <2> HIDE DEF L
  <2>2. b = <<a[1] + L, a[2]>>
    BY <1>1, <1>4, <2>1
  <2>3. ASSUME NEW o \in Int PROVE OnSegment(a, b, o) = <<a[1] + o, a[2]>>
    <3>1. /\ (o * (b[1] - a[1])) \div L = o
          /\ (o * (b[2] - a[2])) \div L = 0
      <4> DEFINE X == b[1] - a[1]
                 Y == b[2] - a[2]
      <4>1. X = L /\ Y = 0
        BY <1>1, <1>4, <2>1
      <4> HIDE DEF X, Y
      <4>2. (o * X) \div L = o /\ (o * Y) \div L = 0
        BY <2>1, <4>1, Quotients
      <4> QED
        BY <4>2 DEF X, Y
    <3> QED
      BY <1>1, <1>3, <3>1
  <2>4. <<1, 0>> \in Directions
    BY DEF Directions
  <2>5. \A o \in Int : Away(a, <<1, 0>>, o) = <<a[1] + o, a[2]>>
    BY AwayFrom
  <2>6. b = Away(a, <<1, 0>>, L)
    BY <2>1, <2>2, <2>5
  <2>7. \A o \in Int : OnSegment(a, b, o) = Away(a, <<1, 0>>, o)
    BY <2>3, <2>5
  <2> QED
    BY <2>1, <2>4, <2>6, <2>7 DEF L
<1>5. CASE a[2] = b[2] /\ b[1] < a[1]
  <2>1. L = a[1] - b[1] /\ L \in Nat \ {0} /\ b[2] - a[2] = 0 /\ b[1] - a[1] = -L
    BY <1>1, <1>5 DEF Distance, Abs
  <2> HIDE DEF L
  <2>2. b = <<a[1] - L, a[2]>>
    BY <1>1, <1>5, <2>1
  <2>3. ASSUME NEW o \in Int PROVE OnSegment(a, b, o) = <<a[1] - o, a[2]>>
    <3>1. /\ (o * (b[1] - a[1])) \div L = -o
          /\ (o * (b[2] - a[2])) \div L = 0
      <4> DEFINE X == b[1] - a[1]
                 Y == b[2] - a[2]
      <4>1. X = -L /\ Y = 0
        BY <1>1, <1>5, <2>1
      <4> HIDE DEF X, Y
      <4>2. (o * X) \div L = -o /\ (o * Y) \div L = 0
        BY <2>1, <4>1, Quotients
      <4> QED
        BY <4>2 DEF X, Y
    <3> QED
      BY <1>1, <1>3, <3>1
  <2>4. <<-1, 0>> \in Directions
    BY DEF Directions
  <2>5. \A o \in Int : Away(a, <<-1, 0>>, o) = <<a[1] - o, a[2]>>
    BY AwayFrom
  <2>6. b = Away(a, <<-1, 0>>, L)
    BY <2>1, <2>2, <2>5
  <2>7. \A o \in Int : OnSegment(a, b, o) = Away(a, <<-1, 0>>, o)
    BY <2>3, <2>5
  <2> QED
    BY <2>1, <2>4, <2>6, <2>7 DEF L
<1>6. CASE a[1] = b[1] /\ a[2] < b[2]
  <2>1. L = b[2] - a[2] /\ L \in Nat \ {0} /\ b[1] - a[1] = 0
    BY <1>1, <1>6 DEF Distance, Abs
  <2> HIDE DEF L
  <2>2. b = <<a[1], a[2] + L>>
    BY <1>1, <1>6, <2>1
  <2>3. ASSUME NEW o \in Int PROVE OnSegment(a, b, o) = <<a[1], a[2] + o>>
    <3>1. /\ (o * (b[1] - a[1])) \div L = 0
          /\ (o * (b[2] - a[2])) \div L = o
      <4> DEFINE X == b[1] - a[1]
                 Y == b[2] - a[2]
      <4>1. X = 0 /\ Y = L
        BY <1>1, <1>6, <2>1
      <4> HIDE DEF X, Y
      <4>2. (o * X) \div L = 0 /\ (o * Y) \div L = o
        BY <2>1, <4>1, Quotients
      <4> QED
        BY <4>2 DEF X, Y
    <3> QED
      BY <1>1, <1>3, <3>1
  <2>4. <<0, 1>> \in Directions
    BY DEF Directions
  <2>5. \A o \in Int : Away(a, <<0, 1>>, o) = <<a[1], a[2] + o>>
    BY AwayFrom
  <2>6. b = Away(a, <<0, 1>>, L)
    BY <2>1, <2>2, <2>5
  <2>7. \A o \in Int : OnSegment(a, b, o) = Away(a, <<0, 1>>, o)
    BY <2>3, <2>5
  <2> QED
    BY <2>1, <2>4, <2>6, <2>7 DEF L
<1>7. CASE a[1] = b[1] /\ b[2] < a[2]
  <2>1. L = a[2] - b[2] /\ L \in Nat \ {0} /\ b[1] - a[1] = 0 /\ b[2] - a[2] = -L
    BY <1>1, <1>7 DEF Distance, Abs
  <2> HIDE DEF L
  <2>2. b = <<a[1], a[2] - L>>
    BY <1>1, <1>7, <2>1
  <2>3. ASSUME NEW o \in Int PROVE OnSegment(a, b, o) = <<a[1], a[2] - o>>
    <3>1. /\ (o * (b[1] - a[1])) \div L = 0
          /\ (o * (b[2] - a[2])) \div L = -o
      <4> DEFINE X == b[1] - a[1]
                 Y == b[2] - a[2]
      <4>1. X = 0 /\ Y = -L
        BY <1>1, <1>7, <2>1
      <4> HIDE DEF X, Y
      <4>2. (o * X) \div L = 0 /\ (o * Y) \div L = -o
        BY <2>1, <4>1, Quotients
      <4> QED
        BY <4>2 DEF X, Y
    <3> QED
      BY <1>1, <1>3, <3>1
  <2>4. <<0, -1>> \in Directions
    BY DEF Directions
  <2>5. \A o \in Int : Away(a, <<0, -1>>, o) = <<a[1], a[2] - o>>
    BY AwayFrom
  <2>6. b = Away(a, <<0, -1>>, L)
    BY <2>1, <2>2, <2>5
  <2>7. \A o \in Int : OnSegment(a, b, o) = Away(a, <<0, -1>>, o)
    BY <2>3, <2>5
  <2> QED
    BY <2>1, <2>4, <2>6, <2>7 DEF L
<1> QED
  BY <1>1, <1>2, <1>4, <1>5, <1>6, <1>7 DEF Parallel

\* Distances are natural numbers, and zero between a point and itself only.
LEMMA DistanceTyped ==
  ASSUME NEW a \in Point, NEW b \in Point
  PROVE  /\ Distance(a, b) \in Nat /\ (Distance(a, b) = 0 <=> a = b)
         /\ Dist2(a, b) \in Nat
<1>1. /\ a[1] \in Int /\ a[2] \in Int /\ b[1] \in Int /\ b[2] \in Int
      /\ a = <<a[1], a[2]>> /\ b = <<b[1], b[2]>>
  BY DEF Point
<1>2. Distance(a, b) \in Nat
  BY <1>1 DEF Distance, Abs
<1>3. Distance(a, b) = 0 <=> a[1] = b[1] /\ a[2] = b[2]
  BY <1>1 DEF Distance, Abs
<1>4. (a[1] - b[1]) * (a[1] - b[1]) \in Nat /\ (a[2] - b[2]) * (a[2] - b[2]) \in Nat
  <2>1. a[1] - b[1] \in Int /\ a[2] - b[2] \in Int
    BY <1>1
  <2> QED
    BY <2>1, SquareOfNegative
<1>5. Dist2(a, b) \in Nat
  <2>1. \A m, n \in Nat : m + n \in Nat
    OBVIOUS
  <2> QED
    BY <1>4, <2>1 DEF Dist2
<1> QED
  BY <1>1, <1>2, <1>3, <1>5

(***************************************************************************)
(* The point of a segment closest to p, and all others farther.            *)
(***************************************************************************)
LEMMA AwayDistance ==
  ASSUME NEW a \in Point, NEW p \in Point, NEW o \in Int
  PROVE  /\ Dist2(p, Away(a, <<1, 0>>, o)) = (p[1] - a[1] - o) * (p[1] - a[1] - o) + (p[2] - a[2]) * (p[2] - a[2])
         /\ Dist2(p, Away(a, <<-1, 0>>, o)) = (a[1] - p[1] - o) * (a[1] - p[1] - o) + (p[2] - a[2]) * (p[2] - a[2])
         /\ Dist2(p, Away(a, <<0, 1>>, o)) = (p[1] - a[1]) * (p[1] - a[1]) + (p[2] - a[2] - o) * (p[2] - a[2] - o)
         /\ Dist2(p, Away(a, <<0, -1>>, o)) = (p[1] - a[1]) * (p[1] - a[1]) + (a[2] - p[2] - o) * (a[2] - p[2] - o)
<1>1. a[1] \in Int /\ a[2] \in Int /\ p[1] \in Int /\ p[2] \in Int
  BY DEF Point
<1>2. p[1] - (a[1] + o) = p[1] - a[1] - o /\ p[2] - (a[2] + o) = p[2] - a[2] - o
  BY <1>1
<1>3. ASSUME NEW x \in Int, NEW y \in Int
      PROVE  (x - (y - o)) * (x - (y - o)) = (y - x - o) * (y - x - o)
  <2>1. x - (y - o) = -(y - x - o) /\ y - x - o \in Int
    OBVIOUS
  <2> QED
    BY <2>1, SquareOfNegative
<1>4. /\ Away(a, <<1, 0>>, o) = <<a[1] + o, a[2]>> /\ Away(a, <<-1, 0>>, o) = <<a[1] - o, a[2]>>
      /\ Away(a, <<0, 1>>, o) = <<a[1], a[2] + o>> /\ Away(a, <<0, -1>>, o) = <<a[1], a[2] - o>>
  BY AwayFrom
<1>5. /\ Dist2(p, <<a[1] - o, a[2]>>) = (a[1] - p[1] - o) * (a[1] - p[1] - o) + (p[2] - a[2]) * (p[2] - a[2])
      /\ Dist2(p, <<a[1], a[2] - o>>) = (p[1] - a[1]) * (p[1] - a[1]) + (a[2] - p[2] - o) * (a[2] - p[2] - o)
  <2>1. /\ (p[1] - (a[1] - o)) * (p[1] - (a[1] - o)) = (a[1] - p[1] - o) * (a[1] - p[1] - o)
        /\ (p[2] - (a[2] - o)) * (p[2] - (a[2] - o)) = (a[2] - p[2] - o) * (a[2] - p[2] - o)
    BY <1>1, <1>3
  <2>2. /\ Dist2(p, <<a[1] - o, a[2]>>) = (p[1] - (a[1] - o)) * (p[1] - (a[1] - o)) + (p[2] - a[2]) * (p[2] - a[2])
        /\ Dist2(p, <<a[1], a[2] - o>>) = (p[1] - a[1]) * (p[1] - a[1]) + (p[2] - (a[2] - o)) * (p[2] - (a[2] - o))
    BY DEF Dist2
  <2> QED
    BY <2>1, <2>2
<1>6. /\ Dist2(p, <<a[1] + o, a[2]>>) = (p[1] - a[1] - o) * (p[1] - a[1] - o) + (p[2] - a[2]) * (p[2] - a[2])
      /\ Dist2(p, <<a[1], a[2] + o>>) = (p[1] - a[1]) * (p[1] - a[1]) + (p[2] - a[2] - o) * (p[2] - a[2] - o)
  <2>1. /\ Dist2(p, <<a[1] + o, a[2]>>) = (p[1] - (a[1] + o)) * (p[1] - (a[1] + o)) + (p[2] - a[2]) * (p[2] - a[2])
        /\ Dist2(p, <<a[1], a[2] + o>>) = (p[1] - a[1]) * (p[1] - a[1]) + (p[2] - (a[2] + o)) * (p[2] - (a[2] + o))
    BY DEF Dist2
  <2> QED
    BY <1>2, <2>1
<1> QED
  BY <1>4, <1>5, <1>6

\* How far along the line p lies, and how far beside it.
LiesBeside(p, a, b, d, L, x, y) ==
  /\ (p[1] - a[1]) * (b[1] - a[1]) + (p[2] - a[2]) * (b[2] - a[2]) = x * L
  /\ \A o \in Int : Dist2(p, Away(a, d, o)) = (x - o) * (x - o) + y * y

\* Every point is some way along a segment and some way beside it.
LEMMA AlongAndBeside ==
  ASSUME NEW a \in Point, NEW p \in Point, NEW d \in Directions, NEW L \in Nat,
         NEW b, b = Away(a, d, L)
  PROVE  \E x \in Int, y \in Int : LiesBeside(p, a, b, d, L, x, y)
<1>1. a[1] \in Int /\ a[2] \in Int /\ p[1] \in Int /\ p[2] \in Int
  BY DEF Point
<1> DEFINE P == p[1] - a[1]
           Q == p[2] - a[2]
<1>2. P \in Int /\ Q \in Int /\ a[1] - p[1] = -P /\ a[2] - p[2] = -Q
  BY <1>1
<1>3. /\ Away(a, <<1, 0>>, L) = <<a[1] + L, a[2]>> /\ Away(a, <<-1, 0>>, L) = <<a[1] - L, a[2]>>
      /\ Away(a, <<0, 1>>, L) = <<a[1], a[2] + L>> /\ Away(a, <<0, -1>>, L) = <<a[1], a[2] - L>>
  BY AwayFrom
<1>4. \A o \in Int :
         /\ Dist2(p, Away(a, <<1, 0>>, o)) = (P - o) * (P - o) + Q * Q
         /\ Dist2(p, Away(a, <<-1, 0>>, o)) = (-P - o) * (-P - o) + Q * Q
         /\ Dist2(p, Away(a, <<0, 1>>, o)) = P * P + (Q - o) * (Q - o)
         /\ Dist2(p, Away(a, <<0, -1>>, o)) = P * P + (-Q - o) * (-Q - o)
  BY <1>2, AwayDistance
<1>5. CASE d = <<1, 0>>
  <2>1. b[1] - a[1] = L /\ b[2] - a[2] = 0
    BY <1>1, <1>3, <1>5
  <2>2. \A o \in Int : Dist2(p, Away(a, d, o)) = (P - o) * (P - o) + Q * Q
    BY <1>4, <1>5
  <2> HIDE DEF P, Q
  <2>3. P * (b[1] - a[1]) + Q * (b[2] - a[2]) = P * L
    BY <1>2, <2>1
  <2> QED
    BY <1>2, <2>2, <2>3 DEF P, Q, LiesBeside
<1>6. CASE d = <<-1, 0>>
  <2>1. b[1] - a[1] = -L /\ b[2] - a[2] = 0
    BY <1>1, <1>3, <1>6
  <2>2. \A o \in Int : Dist2(p, Away(a, d, o)) = (-P - o) * (-P - o) + Q * Q
    BY <1>4, <1>6
  <2> HIDE DEF P, Q
  <2>3. P * (b[1] - a[1]) + Q * (b[2] - a[2]) = (-P) * L /\ -P \in Int
    BY <1>2, <2>1
  <2> QED
    BY <1>2, <2>2, <2>3 DEF P, Q, LiesBeside
<1>7. CASE d = <<0, 1>>
  <2>1. b[1] - a[1] = 0 /\ b[2] - a[2] = L
    BY <1>1, <1>3, <1>7
  <2>2. \A o \in Int : Dist2(p, Away(a, d, o)) = (Q - o) * (Q - o) + P * P
    <3> HIDE DEF P, Q
    <3>1. \A o \in Int : P * P + (Q - o) * (Q - o) = (Q - o) * (Q - o) + P * P
      BY <1>2
    <3> QED
      BY <1>4, <1>7, <3>1
  <2> HIDE DEF P, Q
  <2>3. P * (b[1] - a[1]) + Q * (b[2] - a[2]) = Q * L
    BY <1>2, <2>1
  <2> QED
    BY <1>2, <2>2, <2>3 DEF P, Q, LiesBeside
<1>8. CASE d = <<0, -1>>
  <2>1. b[1] - a[1] = 0 /\ b[2] - a[2] = -L
    BY <1>1, <1>3, <1>8
  <2>2. \A o \in Int : Dist2(p, Away(a, d, o)) = (-Q - o) * (-Q - o) + P * P
    <3> HIDE DEF P, Q
    <3>1. \A o \in Int : P * P + (-Q - o) * (-Q - o) = (-Q - o) * (-Q - o) + P * P
      BY <1>2
    <3> QED
      BY <1>4, <1>8, <3>1
  <2> HIDE DEF P, Q
  <2>3. P * (b[1] - a[1]) + Q * (b[2] - a[2]) = (-Q) * L /\ -Q \in Int
    BY <1>2, <2>1
  <2> QED
    BY <1>2, <2>2, <2>3 DEF P, Q, LiesBeside
<1> QED
  BY <1>5, <1>6, <1>7, <1>8 DEF Directions

Found == [dist2 : Nat, offset : Nat, point : Point]

\* Some way off a point there is a point.
LEMMA AwayTyped ==
  ASSUME NEW a \in Point, NEW d \in Directions, NEW o \in Int
  PROVE  Away(a, d, o) \in Point
<1>1. a[1] \in Int /\ a[2] \in Int /\ d[1] \in Int /\ d[2] \in Int
  BY DEF Point, Directions
<1>2. \A x, y, z \in Int : x + y * z \in Int
  OBVIOUS
<1>3. a[1] + o * d[1] \in Int /\ a[2] + o * d[2] \in Int
  BY <1>1, <1>2
<1> QED
  BY <1>3 DEF Away, Point

\* closest_point_on_segment finds the one closest point of the segment.
LEMMA ClosestOn ==
  ASSUME NEW p \in Point, NEW a \in Point, NEW b \in Point, Parallel(a, b),
         NEW c, c = ClosestOnSegment(p, a, b)
  PROVE  /\ c \in Found /\ c.offset \in 0 .. Distance(a, b) /\ c.dist2 = Dist2(p, c.point)
         /\ a = b => c.point = a
         /\ a # b => /\ c.point = OnSegment(a, b, c.offset)
                     /\ \A o \in 0 .. Distance(a, b) :
                          o # c.offset => c.dist2 < Dist2(p, OnSegment(a, b, o))
<1> DEFINE L == Distance(a, b)
<1>1. L \in Nat /\ (L = 0 <=> a = b)
  BY DistanceTyped
<1>2. CASE a = b
  <2>1. c = [dist2 |-> Dist2(p, a), offset |-> 0, point |-> a]
    BY <1>1, <1>2 DEF ClosestOnSegment
  <2>2. Dist2(p, a) \in Nat
    BY DistanceTyped
  <2> QED
    BY <1>1, <1>2, <2>1, <2>2 DEF Found
<1>3. CASE a # b
  <2>1. PICK d \in Directions : b = Away(a, d, L) /\ \A o \in Int : OnSegment(a, b, o) = Away(a, d, o)
    BY <1>3, SegmentRuns
  <2>2. PICK x \in Int, y \in Int : LiesBeside(p, a, b, d, L, x, y)
    <3>1. b = Away(a, d, L) /\ L \in Nat
      BY <1>1, <2>1
    <3> HIDE DEF L
    <3> QED
      BY <3>1, AlongAndBeside
  <2> DEFINE C == Clipped(x, L)
  <2>3. C \in 0 .. L
    BY <1>1 DEF Clipped
  <2>4. L # 0 /\ L \in Nat \ {0}
    BY <1>1, <1>3
  <2>5. (x * L) \div L = x
    <3> HIDE DEF L
    <3> QED
      BY <2>4, Quotients
  <2>6. c = [dist2 |-> Dist2(p, OnSegment(a, b, C)), offset |-> C, point |-> OnSegment(a, b, C)]
    BY <2>2, <2>4, <2>5 DEF ClosestOnSegment, Clipped, LiesBeside
  <2> HIDE DEF C, L
  <2>7. OnSegment(a, b, C) \in Point /\ C \in Nat
    BY <1>1, <2>1, <2>3, AwayTyped
  <2>8. Dist2(p, OnSegment(a, b, C)) \in Nat
    BY <2>7, DistanceTyped
  <2>9. ASSUME NEW o \in 0 .. L, o # C
        PROVE  Dist2(p, OnSegment(a, b, C)) < Dist2(p, OnSegment(a, b, o))
    <3>1. (x - C) * (x - C) < (x - o) * (x - o)
      BY <1>1, <2>9, ClippedClosest DEF C
    <3>2. /\ Dist2(p, OnSegment(a, b, C)) = (x - C) * (x - C) + y * y
          /\ Dist2(p, OnSegment(a, b, o)) = (x - o) * (x - o) + y * y
      BY <1>1, <2>1, <2>2, <2>3 DEF LiesBeside
    <3>3. /\ (x - C) * (x - C) \in Int /\ (x - o) * (x - o) \in Int /\ y * y \in Int
      BY <1>1, <2>3
    <3> QED
      BY <3>1, <3>2, <3>3
  <2> QED
    BY <1>3, <2>3, <2>6, <2>7, <2>8, <2>9 DEF Found, L
<1> QED
  BY <1>2, <1>3
-----------------------------------------------------------------------------

(***************************************************************************)
(* Lengths along a line add up.                                            *)
(***************************************************************************)
LEMMA LengthsAdd ==
  ASSUME NEW line \in Seq(Point), Len(line) >= 1
  PROVE  /\ LengthTo(line, 1) = 0
         /\ \A i \in 1 .. Len(line) : LengthTo(line, i) \in Nat
         /\ \A i \in Segments(line) :
              LengthTo(line, i + 1) = LengthTo(line, i) + Distance(line[i], line[i + 1])
<1> DEFINE n == Len(line) - 1
           Body(f) == [i \in 0 .. Len(line) - 1 |->
                         IF i = 0 THEN 0 ELSE f[i - 1] + Distance(line[i], line[i + 1])]
           passed == CHOOSE f : f = Body(f)
           w == [k \in 1 .. n |-> Distance(line[k], line[k + 1])]
           step == [k \in 1 .. n |-> [x \in Nat |-> x + w[k]]]
<1>1. n \in Nat /\ w \in [1 .. n -> Nat] /\ Len(line) = n + 1
  <2>1. n \in Nat /\ Len(line) = n + 1
    OBVIOUS
  <2>2. \A k \in 1 .. n : line[k] \in Point /\ line[k + 1] \in Point
    BY <2>1
  <2>3. \A k \in 1 .. n : Distance(line[k], line[k + 1]) \in Nat
    BY <2>2, DistanceTyped
  <2> QED
    BY <2>1, <2>3
<1>2. PICK f \in [0 .. n -> Nat] : f[0] = 0 /\ \A k \in 1 .. n : f[k] = f[k - 1] + w[k]
  <2> HIDE DEF n, w
  <2> QED
    BY <1>1, TotalsExist
<1>3. f = Body(f)
  <2>1. \A k \in 0 .. n : f[k] = Body(f)[k]
    BY <1>2
  <2> QED
    BY <2>1
<1>4. passed = Body(passed)
  <2> HIDE DEF Body
  <2> QED
    BY <1>3
<1>5. \A i : LengthTo(line, i) = passed[i - 1]
  BY DEF LengthTo
<1>6. passed[0] = 0 /\ \A k \in 1 .. n : passed[k] = passed[k - 1] + w[k]
  <2> HIDE DEF passed
  <2>1. 0 \in 0 .. n /\ \A k \in 1 .. n : k \in 0 .. n /\ k # 0
    BY <1>1
  <2> QED
    BY <1>4, <2>1
<1>7. passed = [k \in 0 .. n |-> passed[k]]
  <2> HIDE DEF passed
  <2> QED
    BY <1>4
<1> HIDE DEF passed
<1>8. step \in [1 .. n -> [Nat -> Nat]]
  BY <1>1
<1>9. \A k \in 1 .. n : passed[k - 1] \in Nat => passed[k] = step[k][passed[k - 1]]
  BY <1>6
<1>10. Recurs(passed, n, Nat, 0, step)
  <2> HIDE DEF n, step, w
  <2> QED
    BY <1>1, <1>6, <1>7, <1>8, <1>9, RecursionTyped DEF StepsWithin
<1>11. \A k \in 0 .. n : passed[k] \in Nat
  BY <1>10 DEF Recurs
<1> HIDE DEF step, n
<1>12. \A i \in 1 .. n + 1 : i - 1 \in 0 .. n
  BY <1>1
<1>13. \A i \in 1 .. n : (i + 1) - 1 = i /\ w[i] = Distance(line[i], line[i + 1])
  BY <1>1
<1>14. Segments(line) = 1 .. n
  BY DEF Segments, n
<1> HIDE DEF w
<1>15. LengthTo(line, 1) = 0
  <2>1. 1 - 1 = 0
    OBVIOUS
  <2> QED
    BY <1>5, <1>6, <2>1
<1>16. \A i \in 1 .. n + 1 : LengthTo(line, i) \in Nat
  BY <1>5, <1>11, <1>12
<1>17. ASSUME NEW i \in 1 .. n
       PROVE  LengthTo(line, i + 1) = LengthTo(line, i) + Distance(line[i], line[i + 1])
  <2>1. LengthTo(line, i + 1) = passed[i] /\ LengthTo(line, i) = passed[i - 1]
    BY <1>5, <1>13
  <2> QED
    BY <1>6, <1>13, <2>1
<1> QED
  BY <1>1, <1>14, <1>15, <1>16, <1>17

\* The length of a line does not fall from one vertex to a later one.
LEMMA LengthsGrow ==
  ASSUME NEW line \in Seq(Point), NEW i \in 1 .. Len(line), NEW j \in 1 .. Len(line), i <= j
  PROVE  LengthTo(line, i) <= LengthTo(line, j)
<1> DEFINE n == Len(line) - 1
           T == {k \in 0 .. n : i <= k + 1 => LengthTo(line, i) <= LengthTo(line, k + 1)}
<1>1. n \in Nat /\ Len(line) >= 1 /\ Len(line) = n + 1 /\ i \in 1 .. n + 1 /\ j \in 1 .. n + 1
  <2>1. Len(line) \in Nat
    OBVIOUS
  <2> QED
    BY <2>1
<1>2. /\ \A k \in 1 .. n + 1 : LengthTo(line, k) \in Nat
      /\ \A k \in 1 .. n : LengthTo(line, k + 1) = LengthTo(line, k) + Distance(line[k], line[k + 1])
  BY <1>1, LengthsAdd DEF Segments
<1>3. \A k \in 1 .. n : Distance(line[k], line[k + 1]) \in Nat
  <2>1. \A k \in 1 .. n : line[k] \in Point /\ line[k + 1] \in Point
    BY <1>1
  <2> QED
    BY <2>1, DistanceTyped
<1> HIDE DEF n
<1>4. 0 \in T
  <2>1. i <= 0 + 1 => i = 1
    BY <1>1
  <2> QED
    BY <1>1, <1>2, <2>1
<1>5. ASSUME NEW k \in 1 .. n, k - 1 \in T PROVE k \in T
  <2>1. (k - 1) + 1 = k /\ k \in 0 .. n /\ k \in 1 .. n + 1 /\ k + 1 \in 1 .. n + 1
    BY <1>1
  <2>2. LengthTo(line, k) <= LengthTo(line, k + 1) /\ LengthTo(line, k) \in Nat /\ LengthTo(line, k + 1) \in Nat
    BY <1>2, <1>3, <2>1
  <2>3. CASE i <= k
    <3>1. LengthTo(line, i) <= LengthTo(line, k) /\ LengthTo(line, i) \in Nat
      BY <1>1, <1>2, <1>5, <2>1, <2>3
    <3> QED
      BY <2>1, <2>2, <3>1
  <2>4. CASE i = k + 1
    BY <2>1, <2>2, <2>4
  <2>5. CASE k + 1 < i
    BY <1>1, <2>1, <2>5
  <2> QED
    BY <1>1, <2>3, <2>4, <2>5
<1>6. \A k \in 0 .. n : k \in T
  <2> HIDE DEF T
  <2> QED
    BY <1>1, <1>4, <1>5, InductionUpTo
<1>7. j - 1 \in 0 .. n /\ (j - 1) + 1 = j
  BY <1>1
<1>8. j - 1 \in T
  BY <1>6, <1>7
<1> QED
  BY <1>7, <1>8

(***************************************************************************)
(* A road, and its segments.                                               *)
(***************************************************************************)
LEMMA RoadTyped ==
  ASSUME NEW line \in Line
  PROVE  /\ line \in Seq(Point) /\ Len(line) \in Nat /\ Len(line) >= 2 /\ LineLength(line) > 0
         /\ DOMAIN line = 1 .. Len(line) /\ \A i \in 1 .. Len(line) : line[i] \in Point
         /\ \A i \in Segments(line) :
              /\ i \in 1 .. Len(line) /\ i + 1 \in 1 .. Len(line)
              /\ line[i] \in Point /\ line[i + 1] \in Point /\ Parallel(line[i], line[i + 1])
<1>1. line \in Seq(Point) /\ Len(line) > 1 /\ IsLine(line) /\ LineLength(line) > 0
  BY DEF Line, Point
<1>2. /\ Len(line) \in Nat /\ Len(line) >= 2 /\ DOMAIN line = 1 .. Len(line)
      /\ \A i \in 1 .. Len(line) : line[i] \in Point
  BY <1>1
<1>3. \A i \in Segments(line) : i \in 1 .. Len(line) /\ i + 1 \in 1 .. Len(line)
  BY <1>2 DEF Segments
<1>4. \A i \in Segments(line) : Parallel(line[i], line[i + 1])
  BY <1>1 DEF IsLine, Segments, Parallel
<1> QED
  BY <1>1, <1>2, <1>3, <1>4
-----------------------------------------------------------------------------

(***************************************************************************)
(* Linear referencing takes the first of the closest segments.             *)
(***************************************************************************)
On(p, line, i) == ClosestOnSegment(p, line[i], line[i + 1])

FirstOfClosest(p, line, i) ==
  \A j \in Segments(line) :
    /\ On(p, line, i).dist2 <= On(p, line, j).dist2
    /\ j < i => On(p, line, i).dist2 < On(p, line, j).dist2

\* What linear referencing looks at on each segment.
LEMMA OnTyped ==
  ASSUME NEW line \in Line, NEW p \in Point, NEW i \in Segments(line)
  PROVE  /\ On(p, line, i) \in Found /\ On(p, line, i).dist2 \in Nat
         /\ On(p, line, i).offset \in 0 .. Distance(line[i], line[i + 1])
         /\ On(p, line, i).dist2 = Dist2(p, On(p, line, i).point)
         /\ line[i] = line[i + 1] => On(p, line, i).point = line[i]
         /\ line[i] # line[i + 1] =>
              /\ On(p, line, i).point = OnSegment(line[i], line[i + 1], On(p, line, i).offset)
              /\ \A o \in 0 .. Distance(line[i], line[i + 1]) :
                   o # On(p, line, i).offset =>
                     On(p, line, i).dist2 < Dist2(p, OnSegment(line[i], line[i + 1], o))
<1>1. line[i] \in Point /\ line[i + 1] \in Point /\ Parallel(line[i], line[i + 1])
  BY RoadTyped
<1> DEFINE a == line[i]
           b == line[i + 1]
           c == On(p, line, i)
<1>2. a \in Point /\ b \in Point /\ Parallel(a, b) /\ c = ClosestOnSegment(p, a, b)
  BY <1>1 DEF On
<1> HIDE DEF a, b, c
<1>3. /\ c \in Found /\ c.offset \in 0 .. Distance(a, b) /\ c.dist2 = Dist2(p, c.point)
      /\ a = b => c.point = a
      /\ a # b => /\ c.point = OnSegment(a, b, c.offset)
                  /\ \A o \in 0 .. Distance(a, b) :
                       o # c.offset => c.dist2 < Dist2(p, OnSegment(a, b, o))
  BY <1>2, ClosestOn
<1>4. c.dist2 \in Nat
  BY <1>3 DEF Found
<1> QED
  BY <1>3, <1>4 DEF a, b, c

\* linear_referencing answers with the first of the closest segments.
LEMMA Referenced ==
  ASSUME NEW line \in Line, NEW p \in Point
  PROVE  \E i \in Segments(line) :
           /\ LinearReferencing(p, line) =
                [On(p, line, i) EXCEPT !.offset = LengthTo(line, i) + @]
           /\ FirstOfClosest(p, line, i)
<1> DEFINE n == Len(line) - 1
           on == [i \in Segments(line) |-> ClosestOnSegment(p, line[i], line[i + 1])]
           Body(f) == [i \in 0 .. Len(line) - 1 |->
                         IF i = 0 THEN 1 ELSE IF Closer(on[i], on[f[i - 1]]) THEN i ELSE f[i - 1]]
           best == CHOOSE f : f = Body(f)
           S == 1 .. n
           step == [k \in 1 .. n |-> [x \in S |-> IF Closer(on[k], on[x]) THEN k ELSE x]]
<1>1. n \in Nat /\ n >= 1 /\ Len(line) = n + 1 /\ Segments(line) = S /\ 1 \in S
  <2>1. Len(line) \in Nat /\ Len(line) >= 2
    BY RoadTyped
  <2> QED
    BY <2>1 DEF Segments
<1>2. \A i \in S : on[i] = On(p, line, i) /\ On(p, line, i).dist2 \in Nat
  BY <1>1, OnTyped DEF On
<1> HIDE DEF on, n
<1>3. step \in [1 .. n -> [S -> S]]
  OBVIOUS
<1> HIDE DEF S
<1>4. PICK f : Recurs(f, n, S, 1, step)
  <2> HIDE DEF step
  <2> QED
    BY <1>1, <1>3, RecursionExists DEF StepsWithin
<1>5. f \in [0 .. n -> S] /\ f[0] = 1 /\ \A k \in 1 .. n : f[k] = step[k][f[k - 1]]
  BY <1>4 DEF Recurs
<1>6. f = Body(f)
  <2>1. \A k \in 0 .. n : k # 0 => k \in 1 .. n /\ k - 1 \in 0 .. n /\ f[k - 1] \in S
    BY <1>1, <1>5
  <2>2. \A k \in 1 .. n : f[k] = IF Closer(on[k], on[f[k - 1]]) THEN k ELSE f[k - 1]
    <3> SUFFICES ASSUME NEW k \in 1 .. n
                 PROVE  f[k] = IF Closer(on[k], on[f[k - 1]]) THEN k ELSE f[k - 1]
      OBVIOUS
    <3>1. step[k] = [x \in S |-> IF Closer(on[k], on[x]) THEN k ELSE x]
      OBVIOUS
    <3>2. f[k - 1] \in S /\ f[k] = step[k][f[k - 1]]
      BY <1>1, <1>5, <2>1
    <3> HIDE DEF step
    <3> QED
      BY <3>1, <3>2
  <2>3. 0 .. n = 0 .. Len(line) - 1
    BY <1>1
  <2>4. \A k \in 0 .. n : f[k] = Body(f)[k]
    BY <1>5, <2>1, <2>2, <2>3
  <2> QED
    BY <1>5, <2>3, <2>4
<1>7. best = Body(best)
  <2> HIDE DEF Body
  <2> QED
    BY <1>6
<1>8. LinearReferencing(p, line) =
        [on[best[n]] EXCEPT !.offset = LengthTo(line, best[n]) + @]
  BY DEF LinearReferencing, on, n
<1>9. /\ best[0] = 1
      /\ \A k \in 1 .. n : best[k] = IF Closer(on[k], on[best[k - 1]]) THEN k ELSE best[k - 1]
      /\ best = [k \in 0 .. n |-> best[k]]
  <2> HIDE DEF best
  <2>1. 0 \in 0 .. n /\ 0 .. n = 0 .. Len(line) - 1 /\ \A k \in 1 .. n : k \in 0 .. n /\ k # 0
    BY <1>1
  <2>2. best[0] = 1
    BY <1>7, <2>1
  <2>3. \A k \in 1 .. n : best[k] = IF Closer(on[k], on[best[k - 1]]) THEN k ELSE best[k - 1]
    BY <1>7, <2>1
  <2>4. best = [k \in 0 .. n |-> best[k]]
    BY <1>7, <2>1
  <2> QED
    BY <2>2, <2>3, <2>4
<1> HIDE DEF best, Body
<1>10. \A k \in 1 .. n : best[k - 1] \in S => best[k] = step[k][best[k - 1]]
  BY <1>9
<1> HIDE DEF step
<1>11. Recurs(best, n, S, 1, step)
  BY <1>1, <1>3, <1>9, <1>10, RecursionTyped DEF StepsWithin
<1>12. \A k \in 0 .. n : best[k] \in S
  BY <1>11 DEF Recurs
<1> DEFINE d(i) == On(p, line, i).dist2
           T == {k \in 0 .. n : /\ best[k] <= k \/ best[k] = 1
                                /\ \A j \in 1 .. k : d(best[k]) <= d(j) /\ (j < best[k] => d(best[k]) < d(j))}
<1>13. 0 \in T
  BY <1>1, <1>9
<1>14. ASSUME NEW k \in 1 .. n, k - 1 \in T PROVE k \in T
  <2> DEFINE b == best[k - 1]
  <2>1. /\ k \in 0 .. n /\ k - 1 \in 0 .. n /\ b \in S /\ k \in S /\ b \in Nat /\ k \in Nat
        /\ \A j \in 1 .. k : j \in S /\ (j \in 1 .. k - 1 \/ j = k)
    BY <1>1, <1>12 DEF S
  <2>2. /\ b <= k - 1 \/ b = 1
        /\ \A j \in 1 .. k - 1 : d(b) <= d(j) /\ (j < b => d(b) < d(j))
    BY <1>14
  <2> HIDE DEF d
  <2>3. d(b) \in Nat /\ d(k) \in Nat /\ \A j \in 1 .. k : d(j) \in Nat
    BY <1>2, <2>1 DEF d
  <2>4. Closer(on[k], on[b]) <=> d(k) < d(b)
    BY <1>2, <2>1 DEF Closer, d
  <2>5. CASE d(k) < d(b)
    <3>1. best[k] = k
      BY <1>9, <2>4, <2>5
    <3>2. ASSUME NEW j \in 1 .. k PROVE d(k) <= d(j) /\ (j < k => d(k) < d(j))
      <4>1. CASE j = k
        BY <2>3, <4>1
      <4>2. CASE j \in 1 .. k - 1
        <5>1. d(b) <= d(j) /\ d(j) \in Nat
          BY <2>2, <2>3, <4>2
        <5> QED
          BY <2>3, <2>5, <5>1
      <4> QED
        BY <2>1, <4>1, <4>2
    <3> QED
      BY <2>1, <3>1, <3>2 DEF d
  <2>6. CASE ~ d(k) < d(b)
    <3>1. best[k] = b
      BY <1>9, <2>4, <2>6
    <3>2. ASSUME NEW j \in 1 .. k PROVE d(b) <= d(j) /\ (j < b => d(b) < d(j))
      <4>1. CASE j = k
        BY <2>1, <2>2, <2>3, <2>6, <4>1
      <4>2. CASE j \in 1 .. k - 1
        BY <2>2, <4>2
      <4> QED
        BY <2>1, <4>1, <4>2
    <3>3. b <= k \/ b = 1
      BY <2>1, <2>2
    <3> HIDE DEF b
    <3> QED
      BY <2>1, <3>1, <3>2, <3>3 DEF d
  <2> QED
    BY <2>5, <2>6
<1>15. n \in T
  <2> HIDE DEF T
  <2>1. \A k \in 0 .. n : k \in T
    BY <1>1, <1>13, <1>14, InductionUpTo
  <2> QED
    BY <1>1, <2>1
<1> DEFINE i == best[n]
<1>16. i \in S /\ on[i] = On(p, line, i)
  BY <1>1, <1>2, <1>12
<1>17. FirstOfClosest(p, line, i)
  BY <1>1, <1>15 DEF FirstOfClosest, S
<1> QED
  BY <1>1, <1>8, <1>16, <1>17
-----------------------------------------------------------------------------

(***************************************************************************)
(* The points of a line; the vertices are among them.                      *)
(***************************************************************************)
At(line, i, o) ==
  [point |-> OnSegment(line[i], line[i + 1], o), offset |-> LengthTo(line, i) + o]

\* The points of a line are those of its segments that have a length.
LEMMA PointOfLine ==
  ASSUME NEW line
  PROVE  /\ \A i \in Segments(line) : line[i] # line[i + 1] =>
              \A o \in 0 .. Distance(line[i], line[i + 1]) : At(line, i, o) \in PointsOf(line)
         /\ \A q \in PointsOf(line) :
              \E i \in Segments(line) :
                /\ line[i] # line[i + 1]
                /\ \E o \in 0 .. Distance(line[i], line[i + 1]) : q = At(line, i, o)
BY DEF PointsOf, At

\* A segment begins and ends at its vertices, as far along as they are.
LEMMA EndsOfSegment ==
  ASSUME NEW line \in Line, NEW i \in Segments(line)
  PROVE  /\ line[i] # line[i + 1] =>
              /\ OnSegment(line[i], line[i + 1], 0) = line[i]
              /\ OnSegment(line[i], line[i + 1], Distance(line[i], line[i + 1])) = line[i + 1]
              /\ \A o \in Int : OnSegment(line[i], line[i + 1], o) \in Point
         /\ Distance(line[i], line[i + 1]) \in Nat
         /\ Distance(line[i], line[i + 1]) = 0 <=> line[i] = line[i + 1]
         /\ LengthTo(line, i) \in Nat /\ LengthTo(line, i + 1) \in Nat
         /\ LengthTo(line, i + 1) = LengthTo(line, i) + Distance(line[i], line[i + 1])
<1> DEFINE a == line[i]
           b == line[i + 1]
<1>1. /\ a \in Point /\ b \in Point /\ Parallel(a, b) /\ i \in 1 .. Len(line) /\ i + 1 \in 1 .. Len(line)
      /\ line \in Seq(Point) /\ Len(line) >= 1
  BY RoadTyped
<1>2. /\ LengthTo(line, i) \in Nat /\ LengthTo(line, i + 1) \in Nat
      /\ LengthTo(line, i + 1) = LengthTo(line, i) + Distance(a, b)
  BY <1>1, LengthsAdd
<1> HIDE DEF a, b
<1>3. Distance(a, b) \in Nat /\ (Distance(a, b) = 0 <=> a = b)
  BY <1>1, DistanceTyped
<1>4. ASSUME a # b
      PROVE  /\ OnSegment(a, b, 0) = a /\ OnSegment(a, b, Distance(a, b)) = b
             /\ \A o \in Int : OnSegment(a, b, o) \in Point
  <2>1. PICK d \in Directions : /\ b = Away(a, d, Distance(a, b))
                                /\ \A o \in Int : OnSegment(a, b, o) = Away(a, d, o)
    BY <1>1, <1>4, SegmentRuns
  <2>2. Away(a, d, 0) = a
    <3>1. a[1] \in Int /\ a[2] \in Int /\ a = <<a[1], a[2]>>
      BY <1>1 DEF Point
    <3>3. d[1] \in Int /\ d[2] \in Int
      BY DEF Directions
    <3>2. a[1] + 0 * d[1] = a[1] /\ a[2] + 0 * d[2] = a[2]
      BY <3>1, <3>3
    <3> QED
      BY <3>1, <3>2 DEF Away
  <2> QED
    BY <1>1, <1>3, <2>1, <2>2, AwayTyped
<1> QED
  BY <1>2, <1>3, <1>4 DEF a, b

\* The points of a line and their offsets.
LEMMA PointsTyped ==
  ASSUME NEW line \in Line, NEW q \in PointsOf(line)
  PROVE  q \in [point : Point, offset : Nat]
<1>1. PICK i \in Segments(line) :
        /\ line[i] # line[i + 1]
        /\ \E o \in 0 .. Distance(line[i], line[i + 1]) : q = At(line, i, o)
  BY PointOfLine
<1>2. PICK o \in 0 .. Distance(line[i], line[i + 1]) : q = At(line, i, o)
  BY <1>1
<1>3. o \in Nat /\ o \in Int
  BY EndsOfSegment
<1>4. OnSegment(line[i], line[i + 1], o) \in Point /\ LengthTo(line, i) \in Nat
  BY <1>1, <1>3, EndsOfSegment
<1>5. LengthTo(line, i) + o \in Nat
  BY <1>3, <1>4
<1> QED
  BY <1>2, <1>4, <1>5 DEF At

Vertex(line, i) == [point |-> line[i], offset |-> LengthTo(line, i)]

\* Every vertex of a line is on it.
LEMMA VerticesOn ==
  ASSUME NEW line \in Line
  PROVE  \A i \in 1 .. Len(line) : Vertex(line, i) \in PointsOf(line)
<1> DEFINE n == Len(line) - 1
           V(k) == Vertex(line, k + 1) \in PointsOf(line)
<1>1. /\ n \in Nat /\ n >= 1 /\ Len(line) = n + 1
      /\ \A k \in 1 .. n : k \in Segments(line) /\ (k - 1) + 1 = k
  <2>1. Len(line) \in Nat /\ Len(line) >= 2
    BY RoadTyped
  <2> QED
    BY <2>1 DEF Segments
<1> HIDE DEF n
<1>2. ASSUME NEW k \in 1 .. n, line[k] # line[k + 1]
      PROVE  V(k - 1) /\ V(k)
  <2>1. k \in Segments(line) /\ (k - 1) + 1 = k
    BY <1>1
  <2> DEFINE D == Distance(line[k], line[k + 1])
  <2>2. /\ OnSegment(line[k], line[k + 1], 0) = line[k]
        /\ OnSegment(line[k], line[k + 1], D) = line[k + 1]
        /\ D \in Nat /\ LengthTo(line, k) \in Nat /\ LengthTo(line, k + 1) = LengthTo(line, k) + D
    BY <1>2, <2>1, EndsOfSegment
  <2> HIDE DEF D
  <2>3. At(line, k, 0) = Vertex(line, k) /\ At(line, k, D) = Vertex(line, k + 1)
    BY <2>2 DEF At, Vertex
  <2>4. 0 \in 0 .. D /\ D \in 0 .. D
    BY <2>2
  <2>5. At(line, k, 0) \in PointsOf(line) /\ At(line, k, D) \in PointsOf(line)
    BY <1>2, <2>1, <2>4, PointOfLine DEF D
  <2> QED
    BY <2>1, <2>3, <2>5
<1>3. ASSUME NEW k \in 1 .. n, line[k] = line[k + 1]
      PROVE  Vertex(line, k) = Vertex(line, k + 1) /\ LengthTo(line, k + 1) = LengthTo(line, k)
  <2>1. k \in Segments(line)
    BY <1>1
  <2>2. /\ Distance(line[k], line[k + 1]) = 0 /\ LengthTo(line, k) \in Nat
        /\ LengthTo(line, k + 1) = LengthTo(line, k) + Distance(line[k], line[k + 1])
    BY <1>3, <2>1, EndsOfSegment
  <2>3. LengthTo(line, k + 1) = LengthTo(line, k)
    BY <2>2
  <2> QED
    BY <1>3, <2>3 DEF Vertex
<1>4. V(0)
  <2> SUFFICES ASSUME ~ V(0) PROVE FALSE
    OBVIOUS
  <2> DEFINE T == {k \in 0 .. n : ~ V(k) /\ LengthTo(line, k + 1) = 0}
  <2>1. LengthTo(line, 0 + 1) = 0 /\ 0 \in 0 .. n
    <3>1. line \in Seq(Point) /\ Len(line) >= 1
      BY RoadTyped
    <3> QED
      BY <1>1, <3>1, LengthsAdd
  <2>2. 0 \in T
    BY <2>1
  <2>3. ASSUME NEW k \in 1 .. n, k - 1 \in T PROVE k \in T
    <3>1. ~ V(k - 1) /\ LengthTo(line, k) = 0 /\ ~ Vertex(line, k) \in PointsOf(line)
      BY <1>1, <2>3
    <3>2. line[k] = line[k + 1]
      BY <1>2, <3>1
    <3>3. Vertex(line, k) = Vertex(line, k + 1) /\ LengthTo(line, k + 1) = LengthTo(line, k)
      BY <1>3, <3>2
    <3>4. k \in 0 .. n
      OBVIOUS
    <3> QED
      BY <3>1, <3>3, <3>4
  <2> HIDE DEF T
  <2>4. \A k \in 0 .. n : k \in T
    BY <1>1, <2>2, <2>3, InductionUpTo
  <2>5. n \in T
    BY <1>1, <2>4
  <2>6. LengthTo(line, n + 1) = 0
    BY <2>5 DEF T
  <2>7. LineLength(line) > 0
    BY RoadTyped
  <2> QED
    BY <1>1, <2>6, <2>7 DEF LineLength
<1> DEFINE T == {k \in 0 .. n : V(k)}
<1>5. 0 \in T
  BY <1>1, <1>4
<1>6. ASSUME NEW k \in 1 .. n, k - 1 \in T PROVE k \in T
  <2>1. k \in 0 .. n /\ Vertex(line, k) \in PointsOf(line)
    BY <1>1, <1>6
  <2> QED
    BY <1>2, <1>3, <2>1
<1>7. \A k \in 0 .. n : k \in T
  <2> HIDE DEF T
  <2> QED
    BY <1>1, <1>5, <1>6, InductionUpTo
<1>8. \A i \in 1 .. Len(line) : i - 1 \in 0 .. n /\ (i - 1) + 1 = i
  BY <1>1
<1>9. \A k \in 0 .. n : Vertex(line, k + 1) \in PointsOf(line)
  BY <1>7
<1> QED
  BY <1>8, <1>9

(***************************************************************************)
(* Linear referencing locates a point: where it puts it lies on the line,  *)
(* at that offset; nothing on the line is closer, and nothing as close     *)
(* comes before.                                                           *)
(***************************************************************************)
LEMMA Located ==
  ASSUME NEW line \in Line, NEW p \in Point, NEW f, f = LinearReferencing(p, line)
  PROVE  /\ f \in Found /\ f.dist2 = Dist2(p, f.point)
         /\ [point |-> f.point, offset |-> f.offset] \in PointsOf(line)
         /\ \A q \in PointsOf(line) :
              /\ f.dist2 <= Dist2(p, q.point)
              /\ f.dist2 = Dist2(p, q.point) => f.offset <= q.offset
<1>1. PICK i \in Segments(line) :
        /\ f = [On(p, line, i) EXCEPT !.offset = LengthTo(line, i) + @]
        /\ FirstOfClosest(p, line, i)
  BY Referenced
<1> DEFINE c == On(p, line, i)
           a == line[i]
           b == line[i + 1]
           D == Distance(a, b)
<1>2. /\ c \in Found /\ c.dist2 \in Nat /\ c.offset \in 0 .. D /\ c.dist2 = Dist2(p, c.point)
      /\ a = b => c.point = a
      /\ a # b => /\ c.point = OnSegment(a, b, c.offset)
                  /\ \A o \in 0 .. D : o # c.offset => c.dist2 < Dist2(p, OnSegment(a, b, o))
  BY OnTyped
<1>3. /\ D \in Nat /\ (D = 0 <=> a = b) /\ LengthTo(line, i) \in Nat /\ LengthTo(line, i + 1) \in Nat
      /\ LengthTo(line, i + 1) = LengthTo(line, i) + D
  BY EndsOfSegment
<1>4. /\ f = [c EXCEPT !.offset = LengthTo(line, i) + @]
      /\ \A j \in Segments(line) :
            c.dist2 <= On(p, line, j).dist2 /\ (j < i => c.dist2 < On(p, line, j).dist2)
  BY <1>1 DEF FirstOfClosest
<1>5. /\ f.dist2 = c.dist2 /\ f.point = c.point /\ f.offset = LengthTo(line, i) + c.offset
      /\ f \in Found
  <2> HIDE DEF c, D
  <2>1. LengthTo(line, i) + c.offset \in Nat
    BY <1>2, <1>3
  <2> QED
    BY <1>2, <1>4, <2>1 DEF Found
<1>6. [point |-> f.point, offset |-> f.offset] \in PointsOf(line)
  <2>1. CASE a # b
    <3>1. [point |-> f.point, offset |-> f.offset] = At(line, i, c.offset)
      BY <1>2, <1>5, <2>1 DEF At
    <3>2. At(line, i, c.offset) \in PointsOf(line)
      BY <1>2, <2>1, PointOfLine
    <3> QED
      BY <3>1, <3>2
  <2>2. CASE a = b
    <3>1. c.offset = 0
      BY <1>2, <1>3, <2>2
    <3>2. LengthTo(line, i) + 0 = LengthTo(line, i)
      BY <1>3
    <3>3. [point |-> f.point, offset |-> f.offset] = Vertex(line, i)
      BY <1>2, <1>5, <2>2, <3>1, <3>2 DEF Vertex
    <3>4. i \in 1 .. Len(line)
      BY RoadTyped
    <3> QED
      BY <3>3, <3>4, VerticesOn
  <2> QED
    BY <2>1, <2>2
<1>7. ASSUME NEW q \in PointsOf(line)
      PROVE  /\ f.dist2 <= Dist2(p, q.point)
             /\ f.dist2 = Dist2(p, q.point) => f.offset <= q.offset
  <2>1. PICK j \in Segments(line) :
          /\ line[j] # line[j + 1]
          /\ \E o \in 0 .. Distance(line[j], line[j + 1]) : q = At(line, j, o)
    BY PointOfLine
  <2>2. PICK o \in 0 .. Distance(line[j], line[j + 1]) : q = At(line, j, o)
    BY <2>1
  <2>3. /\ Distance(line[j], line[j + 1]) \in Nat /\ LengthTo(line, j) \in Nat /\ o \in Nat
        /\ OnSegment(line[j], line[j + 1], o) \in Point
    <3>1. Distance(line[j], line[j + 1]) \in Nat
      BY EndsOfSegment
    <3>2. o \in Nat /\ o \in Int
      BY <3>1
    <3> QED
      BY <2>1, <3>1, <3>2, EndsOfSegment
  <2> DEFINE x == OnSegment(line[j], line[j + 1], o)
             e == On(p, line, j)
  <2>4. q.point = x /\ q.offset = LengthTo(line, j) + o
    BY <2>2 DEF At
  <2>5. Dist2(p, x) \in Nat
    BY <2>3, DistanceTyped
  <2>6. /\ e.dist2 \in Nat /\ e.dist2 = Dist2(p, e.point)
        /\ e.point = OnSegment(line[j], line[j + 1], e.offset)
        /\ o # e.offset => e.dist2 < Dist2(p, x)
    BY <2>1, OnTyped
  <2>7. e.dist2 <= Dist2(p, x) /\ (Dist2(p, x) = e.dist2 => o = e.offset)
    <3> HIDE DEF e, x
    <3>1. CASE o = e.offset
      <4>1. Dist2(p, x) = e.dist2
        BY <2>6, <3>1 DEF x
      <4> QED
        BY <2>5, <2>6, <3>1, <4>1
    <3>2. CASE o # e.offset
      BY <2>5, <2>6, <3>2
    <3> QED
      BY <3>1, <3>2
  <2>8. c.dist2 <= e.dist2 /\ (j < i => c.dist2 < e.dist2)
    BY <1>4
  <2> HIDE DEF c, e, x
  <2>9. f.dist2 <= Dist2(p, x)
    BY <1>2, <1>5, <2>5, <2>6, <2>7, <2>8
  <2>10. ASSUME f.dist2 = Dist2(p, x) PROVE f.offset <= LengthTo(line, j) + o
    <3>1. e.dist2 = Dist2(p, x) /\ ~ j < i
      BY <1>2, <1>5, <2>5, <2>6, <2>7, <2>8, <2>10
    <3>2. CASE j = i
      <4>1. o = c.offset
        BY <2>7, <3>1, <3>2 DEF c, e
      <4>2. LengthTo(line, i) + c.offset <= LengthTo(line, i) + c.offset
        BY <1>2, <1>3
      <4> QED
        BY <1>5, <3>2, <4>1, <4>2
    <3>3. CASE j # i
      <4>1. i + 1 \in 1 .. Len(line) /\ j \in 1 .. Len(line) /\ i + 1 <= j /\ line \in Seq(Point)
        <5>1. i + 1 \in 1 .. Len(line) /\ j \in 1 .. Len(line) /\ i \in 1 .. Len(line) /\ line \in Seq(Point)
          BY RoadTyped
        <5> QED
          BY <3>1, <3>3, <5>1
      <4>2. LengthTo(line, i + 1) <= LengthTo(line, j)
        BY <4>1, LengthsGrow
      <4> HIDE DEF D
      <4> QED
        BY <1>2, <1>3, <1>5, <2>3, <4>2
    <3> QED
      BY <3>2, <3>3
  <2> QED
    BY <2>4, <2>9, <2>10
<1> HIDE DEF c
<1> QED
  BY <1>2, <1>5, <1>6, <1>7
-----------------------------------------------------------------------------

(***************************************************************************)
(* Of finitely many numbers one is the least and one the greatest.         *)
(***************************************************************************)
LEMMA LeastOf ==
  ASSUME NEW n \in Nat \ {0}, NEW s \in [1 .. n -> Int]
  PROVE  \E m \in 1 .. n : \A j \in 1 .. n : s[m] <= s[j]
<1> DEFINE N == n - 1
           T == {k \in 0 .. N : \E m \in 1 .. k + 1 : \A j \in 1 .. k + 1 : s[m] <= s[j]}
<1>1. N \in Nat /\ N + 1 = n
  OBVIOUS
<1>2. 0 \in T
  <2>1. 1 \in 1 .. 0 + 1 /\ \A j \in 1 .. 0 + 1 : s[1] <= s[j]
    OBVIOUS
  <2> QED
    BY <1>1, <2>1
<1>3. ASSUME NEW k \in 1 .. N, k - 1 \in T PROVE k \in T
  <2>1. (k - 1) + 1 = k /\ k \in 0 .. N
    OBVIOUS
  <2>2. PICK m \in 1 .. k : \A j \in 1 .. k : s[m] <= s[j]
    BY <1>3, <2>1
  <2>3. /\ m \in 1 .. k + 1 /\ k + 1 \in 1 .. k + 1 /\ s[m] \in Int /\ s[k + 1] \in Int
        /\ \A j \in 1 .. k + 1 : (j \in 1 .. k \/ j = k + 1) /\ s[j] \in Int
    OBVIOUS
  <2>4. CASE s[m] <= s[k + 1]
    <3>1. \A j \in 1 .. k + 1 : s[m] <= s[j]
      BY <2>2, <2>3, <2>4
    <3> QED
      BY <2>1, <2>3, <3>1
  <2>5. CASE ~ s[m] <= s[k + 1]
    <3>1. \A j \in 1 .. k + 1 : s[k + 1] <= s[j]
      BY <2>2, <2>3, <2>5
    <3> QED
      BY <2>1, <2>3, <3>1
  <2> QED
    BY <2>4, <2>5
<1> HIDE DEF T, N
<1>4. \A k \in 0 .. N : k \in T
  <2>1. N \in Nat /\ 0 \in T /\ \A k \in 1 .. N : k - 1 \in T => k \in T
    BY <1>1, <1>2, <1>3
  <2> QED
    BY <2>1, InductionUpTo
<1>5. N \in 0 .. N
  BY <1>1
<1> QED
  BY <1>1, <1>4, <1>5 DEF T

\* A lower bound that is a member is the least.
LEMMA LeastIs ==
  ASSUME NEW S \in SUBSET Int, NEW n \in S, \A other \in S : n <= other
  PROVE  Least(S) = n
<1>1. ASSUME NEW m \in S, \A other \in S : m <= other PROVE m = n
  <2>1. n \in Int /\ m \in Int /\ m <= n /\ n <= m
    BY <1>1
  <2> QED
    BY <2>1
<1> QED
  BY <1>1 DEF Least

\* An upper bound that is a member is the greatest.
LEMMA GreatestIs ==
  ASSUME NEW S \in SUBSET Int, NEW n \in S, \A other \in S : n >= other
  PROVE  Greatest(S) = n
<1>1. ASSUME NEW m \in S, \A other \in S : m >= other PROVE m = n
  <2>1. n \in Int /\ m \in Int /\ m >= n /\ n >= m
    BY <1>1
  <2> QED
    BY <2>1
<1> QED
  BY <1>1 DEF Greatest

\* The least coordinate, and the greatest of them and 0, bound them all.
LEMMA Bounded ==
  ASSUME NEW n \in Nat \ {0}, NEW s \in [1 .. n -> Int], NEW S, S = {s[i] : i \in 1 .. n}
  PROVE  /\ Least(S) \in Int /\ Greatest(S \cup {0}) \in Int
         /\ \A i \in 1 .. n : Least(S) <= s[i] /\ s[i] <= Greatest(S \cup {0})
<1>1. PICK m \in 1 .. n : \A j \in 1 .. n : s[m] <= s[j]
  BY LeastOf
<1>2. S \in SUBSET Int
  OBVIOUS
<1>3. Least(S) = s[m]
  BY <1>1, <1>2, LeastIs
<1> DEFINE t == [i \in 1 .. n |-> -s[i]]
<1>4. t \in [1 .. n -> Int]
  OBVIOUS
<1>5. PICK g \in 1 .. n : \A j \in 1 .. n : t[g] <= t[j]
  <2> HIDE DEF t
  <2> QED
    BY <1>4, LeastOf
<1>6. \A j \in 1 .. n : s[j] <= s[g] /\ s[j] \in Int
  <2> SUFFICES ASSUME NEW j \in 1 .. n PROVE s[j] <= s[g] /\ s[j] \in Int
    OBVIOUS
  <2>1. s[g] \in Int /\ s[j] \in Int /\ -s[g] <= -s[j]
    BY <1>5
  <2> QED
    BY <2>1
<1> DEFINE G == IF s[g] >= 0 THEN s[g] ELSE 0
<1>7. G \in S \cup {0} /\ G \in Int /\ s[g] <= G /\ 0 <= G
  BY <1>6
<1>8. \A other \in S \cup {0} : G >= other
  BY <1>6
<1> HIDE DEF G
<1>9. Greatest(S \cup {0}) = G
  <2>1. S \cup {0} \in SUBSET Int
    BY <1>2
  <2> QED
    BY <1>7, <1>8, <2>1, GreatestIs
<1>10. ASSUME NEW i \in 1 .. n PROVE s[m] <= s[i] /\ s[i] <= G
  BY <1>1, <1>6, <1>7
<1> QED
  BY <1>3, <1>6, <1>7, <1>9, <1>10

(***************************************************************************)
(* The bounding box holds the line: the greatest coordinates are sought    *)
(* from 0 up, which makes the box larger than need be but never too small. *)
(***************************************************************************)
Holds(box, q) == box.x1 <= q[1] /\ q[1] <= box.x2 /\ box.y1 <= q[2] /\ q[2] <= box.y2

\* The bounding box of a line holds its vertices.
LEMMA BoxTyped ==
  ASSUME NEW line \in Line
  PROVE  /\ BoundingBox(line) \in [x1 : Int, y1 : Int, x2 : Int, y2 : Int]
         /\ \A i \in 1 .. Len(line) : Holds(BoundingBox(line), line[i])
<1> DEFINE n == Len(line)
           xs == [i \in 1 .. n |-> line[i][1]]
           ys == [i \in 1 .. n |-> line[i][2]]
<1>1. n \in Nat \ {0} /\ DOMAIN line = 1 .. n /\ \A i \in 1 .. n : line[i] \in Point
  <2>1. n \in Nat /\ n >= 2
    BY RoadTyped
  <2> QED
    BY <2>1, RoadTyped
<1>2. xs \in [1 .. n -> Int] /\ ys \in [1 .. n -> Int]
  BY <1>1 DEF Point
<1>3. Xs(line) = {xs[i] : i \in 1 .. n} /\ Ys(line) = {ys[i] : i \in 1 .. n}
  BY <1>1 DEF Xs, Ys
<1>4. \A i \in 1 .. n : xs[i] = line[i][1] /\ ys[i] = line[i][2]
  OBVIOUS
<1> DEFINE x1 == Least(Xs(line))
           x2 == Greatest(Xs(line) \cup {0})
           y1 == Least(Ys(line))
           y2 == Greatest(Ys(line) \cup {0})
<1> HIDE DEF n, xs, ys
<1>5. x1 \in Int /\ x2 \in Int /\ \A i \in 1 .. n : x1 <= xs[i] /\ xs[i] <= x2
  BY <1>1, <1>2, <1>3, Bounded
<1>6. y1 \in Int /\ y2 \in Int /\ \A i \in 1 .. n : y1 <= ys[i] /\ ys[i] <= y2
  BY <1>1, <1>2, <1>3, Bounded
<1>7. BoundingBox(line) = [x1 |-> x1, y1 |-> y1, x2 |-> x2, y2 |-> y2]
  BY DEF BoundingBox
<1> HIDE DEF x1, x2, y1, y2
<1> QED
  BY <1>4, <1>5, <1>6, <1>7 DEF Holds, n

\* A point on a segment is between its ends in both coordinates.
LEMMA Between ==
  ASSUME NEW a \in Point, NEW b \in Point, Parallel(a, b), a # b,
         NEW o \in 0 .. Distance(a, b), NEW q, q = OnSegment(a, b, o)
  PROVE  \A k \in {1, 2} :
           /\ a[k] \in Int /\ b[k] \in Int /\ q[k] \in Int
           /\ (a[k] <= q[k] /\ q[k] <= b[k]) \/ (b[k] <= q[k] /\ q[k] <= a[k])
<1> DEFINE L == Distance(a, b)
<1>1. L \in Nat /\ o \in Int /\ o \in Nat /\ o <= L
  BY DistanceTyped
<1>2. PICK d \in Directions : b = Away(a, d, L) /\ \A x \in Int : OnSegment(a, b, x) = Away(a, d, x)
  BY SegmentRuns
<1>3. q = Away(a, d, o) /\ b = Away(a, d, L) /\ a[1] \in Int /\ a[2] \in Int
  BY <1>1, <1>2 DEF Point
<1> HIDE DEF L
<1>4. CASE d = <<1, 0>>
  <2>1. q = <<a[1] + o, a[2]>> /\ b = <<a[1] + L, a[2]>>
    BY <1>1, <1>3, <1>4, AwayFrom
  <2> QED
    BY <1>1, <1>3, <2>1
<1>5. CASE d = <<-1, 0>>
  <2>1. q = <<a[1] - o, a[2]>> /\ b = <<a[1] - L, a[2]>>
    BY <1>1, <1>3, <1>5, AwayFrom
  <2> QED
    BY <1>1, <1>3, <2>1
<1>6. CASE d = <<0, 1>>
  <2>1. q = <<a[1], a[2] + o>> /\ b = <<a[1], a[2] + L>>
    BY <1>1, <1>3, <1>6, AwayFrom
  <2> QED
    BY <1>1, <1>3, <2>1
<1>7. CASE d = <<0, -1>>
  <2>1. q = <<a[1], a[2] - o>> /\ b = <<a[1], a[2] - L>>
    BY <1>1, <1>3, <1>7, AwayFrom
  <2> QED
    BY <1>1, <1>3, <2>1
<1> QED
  BY <1>4, <1>5, <1>6, <1>7 DEF Directions

\* The bounding box of a line holds every point of it.
LEMMA BoxHoldsLine ==
  ASSUME NEW line \in Line, NEW q \in PointsOf(line)
  PROVE  Holds(BoundingBox(line), q.point)
<1>1. PICK i \in Segments(line) :
        /\ line[i] # line[i + 1]
        /\ \E o \in 0 .. Distance(line[i], line[i + 1]) : q = At(line, i, o)
  BY PointOfLine
<1>2. PICK o \in 0 .. Distance(line[i], line[i + 1]) : q = At(line, i, o)
  BY <1>1
<1> DEFINE a == line[i]
           b == line[i + 1]
           x == q.point
           B == BoundingBox(line)
<1>3. /\ a \in Point /\ b \in Point /\ Parallel(a, b)
      /\ i \in 1 .. Len(line) /\ i + 1 \in 1 .. Len(line)
  BY RoadTyped
<1>4. x = OnSegment(a, b, o)
  BY <1>2 DEF At
<1>5. \A k \in {1, 2} :
        /\ a[k] \in Int /\ b[k] \in Int /\ x[k] \in Int
        /\ (a[k] <= x[k] /\ x[k] <= b[k]) \/ (b[k] <= x[k] /\ x[k] <= a[k])
  <2> HIDE DEF x
  <2> QED
    BY <1>1, <1>3, <1>4, Between
<1>6. B.x1 \in Int /\ B.x2 \in Int /\ B.y1 \in Int /\ B.y2 \in Int /\ Holds(B, a) /\ Holds(B, b)
  <2>1. B \in [x1 : Int, y1 : Int, x2 : Int, y2 : Int] /\ Holds(B, a) /\ Holds(B, b)
    BY <1>3, BoxTyped
  <2> HIDE DEF B, a, b
  <2> QED
    BY <2>1
<1> HIDE DEF a, b, x, B
<1> QED
  BY <1>5, <1>6 DEF Holds, B, x

(***************************************************************************)
(* What lies within the radius of p lies in the square about p.            *)
(***************************************************************************)
LEMMA WithinSquare ==
  ASSUME NEW u \in Int, NEW v \in Int, NEW r \in Nat, u * u + v * v <= r * r
  PROVE  -r <= u /\ u <= r
<1>1. u * u \in Nat /\ v * v \in Nat
  BY SquareOfNegative
<1>2. u * u <= r * r
  BY <1>1
<1>3. u <= r
  <2> SUFFICES ASSUME r < u PROVE FALSE
    OBVIOUS
  <2>1. u \in Nat /\ r * r < u * u
    BY SquareGrows
  <2> QED
    BY <1>1, <1>2, <2>1
<1>4. -r <= u
  <2> SUFFICES ASSUME r < -u PROVE FALSE
    OBVIOUS
  <2>1. -u \in Nat /\ r * r < (-u) * (-u) /\ (-u) * (-u) = u * u
    BY SquareGrows, SquareOfNegative
  <2> QED
    BY <1>1, <1>2, <2>1
<1> QED
  BY <1>3, <1>4
-----------------------------------------------------------------------------

(***************************************************************************)
(* The ends of a road.                                                     *)
(***************************************************************************)
LEMMA EndsOfRoad ==
  ASSUME NEW f \in Feature
  PROVE  /\ f.id \in Int /\ f.source \in Int /\ f.target \in Int
         /\ f.geom \in Line /\ f.geom \in Seq(Int \X Int) /\ Len(f.geom) \in Nat /\ Len(f.geom) >= 2
         /\ f.geom[1] \in Int \X Int /\ f.geom[Len(f.geom)] \in Int \X Int
         /\ Mentions(f)[1] = <<f.source, f.geom[1]>>
         /\ Mentions(f)[2] = <<f.target, f.geom[Len(f.geom)]>>
<1>1. f.id \in Int /\ f.source \in Int /\ f.target \in Int /\ f.geom \in Line
  BY DEF Feature
<1> DEFINE P == Int \X Int
<1>2. f.geom \in Seq(P) /\ Len(f.geom) > 1
  BY <1>1 DEF Line
<1> HIDE DEF P
<1>3. Len(f.geom) \in Nat /\ Len(f.geom) >= 2
  BY <1>2
<1>4. f.geom[1] \in P /\ f.geom[Len(f.geom)] \in P
  BY <1>2, <1>3
<1> QED
  BY <1>1, <1>2, <1>3, <1>4 DEF Mentions, P

\* Two sequences of one element each.
LEMMA OneAndOne ==
  ASSUME NEW a, NEW b
  PROVE  << a >> \o << b >> = << a, b >>
<1> DEFINE S == {a, b}
           x == << a >> \o << b >>
           y == << a, b >>
<1>1. x \in Seq(S) /\ y \in Seq(S) /\ Len(x) = Len(y) /\ Len(x) = 2
  OBVIOUS
<1>2. x[1] = y[1] /\ x[2] = y[2]
  OBVIOUS
<1> HIDE DEF x, y
<1>3. \A i \in 1 .. Len(x) : x[i] = y[i]
  BY <1>1, <1>2
<1>4. x = y
  BY <1>1, <1>3, SeqEqual
<1> QED
  BY <1>4 DEF x, y

\* A sequence with another behind it.
LEMMA Appended ==
  ASSUME NEW S, NEW s \in Seq(S), NEW t \in Seq(S), NEW u, u = s \o t
  PROVE  /\ u \in Seq(S) /\ Len(u) = Len(s) + Len(t) /\ Len(s) \in Nat /\ Len(t) \in Nat
         /\ \A n \in 1 .. Len(s) : u[n] = s[n]
         /\ \A n \in 1 .. Len(u) : n \notin 1 .. Len(s) =>
              n - Len(s) \in 1 .. Len(t) /\ u[n] = t[n - Len(s)]
<1>1. u \in Seq(S) /\ Len(u) = Len(s) + Len(t) /\ Len(s) \in Nat /\ Len(t) \in Nat
  OBVIOUS
<1>2. \A n \in 1 .. Len(s) : u[n] = s[n]
  OBVIOUS
<1>3. ASSUME NEW n \in 1 .. Len(u), n \notin 1 .. Len(s)
      PROVE  n - Len(s) \in 1 .. Len(t) /\ u[n] = t[n - Len(s)]
  <2>1. n - Len(s) \in 1 .. Len(t) /\ n \in 1 .. Len(s) + Len(t) /\ ~ (n <= Len(s))
    BY <1>1, <1>3
  <2>2. (s \o t)[n] = IF n <= Len(s) THEN s[n] ELSE t[n - Len(s)]
    BY <2>1, ConcatProperties
  <2> QED
    BY <2>1, <2>2
<1> QED
  BY <1>1, <1>2, <1>3

Mention == Int \X (Int \X Int)

(***************************************************************************)
(* The nodes read_ogr_file and add_edge add for a road: none, one or two,  *)
(* that were not known, each with an end of the road.                      *)
(***************************************************************************)
LEMMA Mentioned ==
  ASSUME NEW f \in Feature, node_id_vec \in Seq(Int)
  PROVE  /\ NewMentions(f) \in Seq(Mention)
         /\ \A m \in DOMAIN NewMentions(f) :
              /\ \E k \in {1, 2} : NewMentions(f)[m] = Mentions(f)[k]
              /\ IsNew(node_id_vec, NewMentions(f)[m][1])
         /\ \A m, n \in DOMAIN NewMentions(f) :
              NewMentions(f)[m][1] = NewMentions(f)[n][1] => m = n
         /\ \A k \in {1, 2} :
              IsNew(node_id_vec, Mentions(f)[k][1]) =>
                \E m \in DOMAIN NewMentions(f) : NewMentions(f)[m][1] = Mentions(f)[k][1]
<1> DEFINE s == Mentions(f)[1]
           t == Mentions(f)[2]
<1>1. s \in Mention /\ t \in Mention /\ s[1] = f.source /\ t[1] = f.target
  <2> DEFINE P == Int \X Int
             a == f.geom[1]
             b == f.geom[Len(f.geom)]
  <2>1. /\ f.source \in Int /\ f.target \in Int /\ a \in P /\ b \in P
        /\ s = <<f.source, a>> /\ t = <<f.target, b>>
    BY EndsOfRoad
  <2> HIDE DEF P, a, b, s, t
  <2>2. s \in Int \X P /\ t \in Int \X P
    BY <2>1
  <2> QED
    BY <2>1, <2>2 DEF Mention, P
<1>3. IsNew(node_id_vec \o << f.source >>, f.target) <=>
        IsNew(node_id_vec, f.target) /\ f.target # f.source
  <2> DEFINE longer == node_id_vec \o << f.source >>
             l == Len(node_id_vec)
  <2>1. /\ l \in Nat /\ DOMAIN node_id_vec = 1 .. l /\ DOMAIN longer = 1 .. l + 1
        /\ longer[l + 1] = f.source /\ \A n \in 1 .. l : longer[n] = node_id_vec[n]
    BY EndsOfRoad
  <2> HIDE DEF longer, l
  <2>2. 1 .. l + 1 = (1 .. l) \cup {l + 1}
    BY <2>1
  <2>3. (\A n \in DOMAIN longer : longer[n] # f.target) <=>
        (\A n \in DOMAIN node_id_vec : node_id_vec[n] # f.target) /\ f.target # f.source
    BY <2>1, <2>2
  <2> QED
    BY <2>3 DEF IsNew, longer
<1>2. NewMentions(f) =
        (IF IsNew(node_id_vec, s[1]) THEN << s >> ELSE <<>>) \o
        (IF IsNew(node_id_vec, t[1]) /\ t[1] # s[1] THEN << t >> ELSE <<>>)
  BY <1>1, <1>3 DEF NewMentions
<1> HIDE DEF s, t
<1> DEFINE new == NewMentions(f)
<1>4. \/ new = << s, t >> /\ IsNew(node_id_vec, s[1]) /\ IsNew(node_id_vec, t[1]) /\ s[1] # t[1]
      \/ new = << s >> /\ IsNew(node_id_vec, s[1]) /\ (IsNew(node_id_vec, t[1]) => s[1] = t[1])
      \/ new = << t >> /\ IsNew(node_id_vec, t[1]) /\ ~ IsNew(node_id_vec, s[1])
      \/ new = <<>> /\ ~ IsNew(node_id_vec, t[1]) /\ ~ IsNew(node_id_vec, s[1])
  <2>1. /\ << s >> \o << t >> = << s, t >> /\ << s >> \o <<>> = << s >>
        /\ <<>> \o << t >> = << t >> /\ <<>> \o <<>> = <<>>
    BY OneAndOne
  <2>2. s[1] = t[1] => (IsNew(node_id_vec, s[1]) <=> IsNew(node_id_vec, t[1]))
    OBVIOUS
  <2> HIDE DEF new
  <2>3. new = (IF IsNew(node_id_vec, s[1]) THEN << s >> ELSE <<>>) \o
              (IF IsNew(node_id_vec, t[1]) /\ t[1] # s[1] THEN << t >> ELSE <<>>)
    BY <1>2 DEF new
  <2>4. CASE IsNew(node_id_vec, s[1])
    BY <2>1, <2>3, <2>4
  <2>5. CASE ~ IsNew(node_id_vec, s[1]) /\ IsNew(node_id_vec, t[1])
    BY <2>1, <2>2, <2>3, <2>5
  <2>6. CASE ~ IsNew(node_id_vec, s[1]) /\ ~ IsNew(node_id_vec, t[1])
    BY <2>1, <2>3, <2>6
  <2> QED
    BY <2>4, <2>5, <2>6
<1> HIDE DEF new
<1>5. /\ new \in Seq(Mention)
      /\ \A m \in DOMAIN new : new[m] \in {s, t} /\ IsNew(node_id_vec, new[m][1])
      /\ \A m, n \in DOMAIN new : new[m][1] = new[n][1] => m = n
  <2>1. CASE new = << s, t >> /\ IsNew(node_id_vec, s[1]) /\ IsNew(node_id_vec, t[1]) /\ s[1] # t[1]
    <3>1. new[1] = s /\ new[2] = t /\ DOMAIN new = {1, 2} /\ new \in Seq(Mention)
      BY <1>1, <2>1
    <3> QED
      BY <2>1, <3>1
  <2>2. CASE new = << s >> /\ IsNew(node_id_vec, s[1])
    BY <1>1, <2>2
  <2>3. CASE new = << t >> /\ IsNew(node_id_vec, t[1])
    BY <1>1, <2>3
  <2>4. CASE new = <<>>
    BY <2>4
  <2> QED
    BY <1>4, <2>1, <2>2, <2>3, <2>4
<1>6. /\ IsNew(node_id_vec, s[1]) => \E m \in DOMAIN new : new[m][1] = s[1]
      /\ IsNew(node_id_vec, t[1]) => \E m \in DOMAIN new : new[m][1] = t[1]
  <2>1. CASE new = << s, t >>
    <3>1. new[1] = s /\ new[2] = t /\ 1 \in DOMAIN new /\ 2 \in DOMAIN new
      BY <2>1
    <3> QED
      BY <3>1
  <2>2. CASE new = << s >> /\ (IsNew(node_id_vec, t[1]) => s[1] = t[1])
    <3>1. new[1] = s /\ 1 \in DOMAIN new
      BY <2>2
    <3> QED
      BY <2>2, <3>1
  <2>3. CASE new = << t >> /\ ~ IsNew(node_id_vec, s[1])
    <3>1. new[1] = t /\ 1 \in DOMAIN new
      BY <2>3
    <3> QED
      BY <2>3, <3>1
  <2> QED
    BY <1>4, <2>1, <2>2, <2>3
<1> QED
  BY <1>5, <1>6 DEF s, t, new

(***************************************************************************)
(* The ids and points of the nodes after a road is stored: those before,   *)
(* then those of the ends that are new, each once.                         *)
(***************************************************************************)
LEMMA NodesGrow ==
  ASSUME NEW f \in Feature, Containers, Store(f)
  PROVE  /\ node_id_vec' \in Seq(Int) /\ vertex_points' \in Seq(Int \X Int)
         /\ Len(vertex_points') = Len(node_id_vec') /\ Len(node_id_vec) <= Len(node_id_vec')
         /\ \A n \in 1 .. Len(node_id_vec) :
              node_id_vec'[n] = node_id_vec[n] /\ vertex_points'[n] = vertex_points[n]
         /\ \A n \in 1 .. Len(node_id_vec') : n \notin 1 .. Len(node_id_vec) =>
              \E k \in {1, 2} : /\ node_id_vec'[n] = Mentions(f)[k][1]
                                /\ vertex_points'[n] = Mentions(f)[k][2]
<1> DEFINE new == NewMentions(f)
           P == Int \X Int
           l == Len(node_id_vec)
           names == [m \in DOMAIN new |-> new[m][1]]
           places == [m \in DOMAIN new |-> new[m][2]]
<1>1. /\ node_id_vec \in Seq(Int) /\ vertex_points \in Seq(P) /\ Len(vertex_points) = l /\ l \in Nat
  <2>1. node_id_vec \in Seq(Int) /\ vertex_points \in Seq(P) /\ DOMAIN vertex_points = DOMAIN node_id_vec
    BY DEF Containers
  <2> HIDE DEF P
  <2> QED
    BY <2>1
<1>2. new \in Seq(Int \X P) /\ \A m \in DOMAIN new : \E k \in {1, 2} : new[m] = Mentions(f)[k]
  BY <1>1, Mentioned DEF Mention
<1>3. node_id_vec' = node_id_vec \o names /\ vertex_points' = vertex_points \o places
  BY DEF Store
<1> HIDE DEF P, new
<1>4. Len(new) \in Nat /\ DOMAIN new = 1 .. Len(new) /\ \A m \in DOMAIN new : new[m] \in Int \X P
  BY <1>2
<1>5. names \in Seq(Int) /\ places \in Seq(P) /\ Len(names) = Len(new) /\ Len(places) = Len(new)
  BY <1>4
<1>6. \A m \in 1 .. Len(new) : names[m] = new[m][1] /\ places[m] = new[m][2]
  BY <1>4
<1> HIDE DEF names, places
<1>7. /\ node_id_vec' \in Seq(Int) /\ Len(node_id_vec') = l + Len(new)
      /\ vertex_points' \in Seq(P) /\ Len(vertex_points') = l + Len(new)
  <2>1. node_id_vec \in Seq(Int) /\ names \in Seq(Int) /\ node_id_vec' = node_id_vec \o names
    BY <1>1, <1>3, <1>5
  <2>2. node_id_vec' \in Seq(Int) /\ Len(node_id_vec') = l + Len(names)
    BY <2>1, Appended
  <2>3. vertex_points \in Seq(P) /\ places \in Seq(P) /\ vertex_points' = vertex_points \o places
    BY <1>1, <1>3, <1>5
  <2>4. vertex_points' \in Seq(P) /\ Len(vertex_points') = Len(vertex_points) + Len(places)
    BY <2>3, Appended
  <2> QED
    BY <1>1, <1>5, <2>2, <2>4
<1>8. \A n \in 1 .. l : node_id_vec'[n] = node_id_vec[n] /\ vertex_points'[n] = vertex_points[n]
  <2>1. \A n \in 1 .. l : node_id_vec'[n] = node_id_vec[n]
    BY <1>1, <1>3, <1>5, Appended
  <2>2. \A n \in 1 .. l : vertex_points'[n] = vertex_points[n]
    BY <1>1, <1>3, <1>5, Appended
  <2> QED
    BY <2>1, <2>2
<1>9. ASSUME NEW n \in 1 .. Len(node_id_vec'), n \notin 1 .. l
      PROVE  /\ n - l \in 1 .. Len(new)
             /\ node_id_vec'[n] = new[n - l][1] /\ vertex_points'[n] = new[n - l][2]
  <2>1. n - l \in 1 .. Len(names) /\ node_id_vec'[n] = names[n - l]
    BY <1>1, <1>3, <1>5, <1>9, Appended
  <2>2. vertex_points'[n] = places[n - l]
    BY <1>1, <1>3, <1>5, <1>7, <1>9, Appended
  <2>3. n - l \in 1 .. Len(new)
    BY <1>5, <2>1
  <2> QED
    BY <1>6, <2>1, <2>2, <2>3
<1>10. ASSUME NEW n \in 1 .. Len(node_id_vec'), n \notin 1 .. l
       PROVE  \E k \in {1, 2} : /\ node_id_vec'[n] = Mentions(f)[k][1]
                                /\ vertex_points'[n] = Mentions(f)[k][2]
  <2>1. /\ n - l \in DOMAIN new
        /\ node_id_vec'[n] = new[n - l][1] /\ vertex_points'[n] = new[n - l][2]
    BY <1>4, <1>9, <1>10
  <2>2. PICK k \in {1, 2} : new[n - l] = Mentions(f)[k]
    BY <1>2, <2>1
  <2> QED
    BY <2>1, <2>2
<1>11. l <= Len(node_id_vec')
  BY <1>1, <1>4, <1>7
<1> QED
  BY <1>7, <1>8, <1>10, <1>11 DEF P

(***************************************************************************)
(* After a road is stored, too, no two nodes have one id, each end of the  *)
(* road is a node, and node_map leads from ids to indices.                 *)
(***************************************************************************)
LEMMA IdsApart ==
  ASSUME NEW f \in Feature, Containers, Store(f)
  PROVE  /\ \A m, n \in 1 .. Len(node_id_vec') : node_id_vec'[m] = node_id_vec'[n] => m = n
         /\ \A k \in {1, 2} : \E n \in 1 .. Len(node_id_vec') : node_id_vec'[n] = Mentions(f)[k][1]
         /\ ToSet(node_id_vec) \subseteq ToSet(node_id_vec')
<1> DEFINE new == NewMentions(f)
           l == Len(node_id_vec)
           names == [m \in DOMAIN new |-> new[m][1]]
<1>1. node_id_vec \in Seq(Int) /\ l \in Nat /\ DOMAIN node_id_vec = 1 .. l
  BY DEF Containers
<1>2. /\ new \in Seq(Mention)
      /\ \A m \in DOMAIN new : IsNew(node_id_vec, new[m][1])
      /\ \A m, n \in DOMAIN new : new[m][1] = new[n][1] => m = n
      /\ \A k \in {1, 2} :
           IsNew(node_id_vec, Mentions(f)[k][1]) =>
             \E m \in DOMAIN new : new[m][1] = Mentions(f)[k][1]
  BY <1>1, Mentioned
<1>3. node_id_vec' = node_id_vec \o names
  BY DEF Store
<1> HIDE DEF new
<1>4. /\ Len(new) \in Nat /\ DOMAIN new = 1 .. Len(new)
      /\ \A m \in DOMAIN new : new[m][1] \in Int
  BY <1>2 DEF Mention
<1>5. /\ names \in Seq(Int) /\ Len(names) = Len(new)
      /\ \A m \in 1 .. Len(new) : names[m] = new[m][1]
  BY <1>4
<1> HIDE DEF names
<1>6. node_id_vec \in Seq(Int) /\ names \in Seq(Int)
  BY <1>1, <1>5
<1>7. /\ node_id_vec' \in Seq(Int) /\ Len(node_id_vec') = l + Len(names)
      /\ \A n \in 1 .. l : node_id_vec'[n] = node_id_vec[n]
  BY <1>3, <1>6, Appended
<1>8. \A n \in 1 .. Len(node_id_vec') : n \notin 1 .. l =>
        n - l \in 1 .. Len(names) /\ node_id_vec'[n] = names[n - l]
  BY <1>3, <1>6, Appended
<1>9. ASSUME NEW n \in 1 .. Len(node_id_vec'), n \notin 1 .. l
      PROVE  n - l \in DOMAIN new /\ node_id_vec'[n] = new[n - l][1]
  BY <1>4, <1>5, <1>8, <1>9
<1>10. \A m, n \in 1 .. l : node_id_vec[m] = node_id_vec[n] => m = n
  <2> SUFFICES ASSUME NEW m \in 1 .. l, NEW n \in 1 .. l, node_id_vec[m] = node_id_vec[n]
               PROVE  m = n
    OBVIOUS
  <2>1. m - 1 \in NodesSoFar /\ n - 1 \in NodesSoFar /\ (m - 1) + 1 = m /\ (n - 1) + 1 = n
    BY <1>1 DEF NodesSoFar
  <2>2. \A x \in NodesSoFar : node_map[node_id_vec[x + 1]] = x
    BY DEF Containers
  <2>3. m - 1 = n - 1
    BY <2>1, <2>2
  <2> QED
    BY <1>1, <2>3
<1>11. ASSUME NEW m \in 1 .. Len(node_id_vec'), NEW n \in 1 .. Len(node_id_vec'),
              node_id_vec'[m] = node_id_vec'[n]
       PROVE  m = n
  <2>1. ASSUME NEW x \in 1 .. l, NEW y \in 1 .. Len(node_id_vec'), y \notin 1 .. l,
               node_id_vec'[x] = node_id_vec'[y]
        PROVE  FALSE
    <3>1. IsNew(node_id_vec, node_id_vec'[y])
      BY <1>2, <1>9, <2>1
    <3>2. node_id_vec[x] # node_id_vec'[y]
      BY <1>1, <3>1 DEF IsNew
    <3> QED
      BY <1>7, <2>1, <3>2
  <2>2. CASE m \in 1 .. l /\ n \in 1 .. l
    BY <1>7, <1>10, <1>11, <2>2
  <2>3. CASE m \notin 1 .. l /\ n \notin 1 .. l
    <3>1. m - l = n - l
      BY <1>2, <1>9, <1>11, <2>3
    <3> QED
      BY <1>1, <1>7, <3>1
  <2> QED
    BY <1>11, <2>1, <2>2, <2>3
<1>12. ASSUME NEW k \in {1, 2}
       PROVE  \E n \in 1 .. Len(node_id_vec') : node_id_vec'[n] = Mentions(f)[k][1]
  <2>1. CASE IsNew(node_id_vec, Mentions(f)[k][1])
    <3>1. PICK m \in DOMAIN new : new[m][1] = Mentions(f)[k][1]
      BY <1>2, <2>1
    <3>2. m \in 1 .. Len(names) /\ names[m] = Mentions(f)[k][1] /\ Len(names) \in Nat
      BY <1>4, <1>5, <3>1
    <3>3. l + m \in 1 .. Len(node_id_vec') /\ l + m \notin 1 .. l /\ (l + m) - l = m
      BY <1>1, <1>7, <3>2
    <3>4. node_id_vec'[l + m] = names[m]
      BY <1>8, <3>3
    <3> QED
      BY <3>2, <3>3, <3>4
  <2>2. CASE ~ IsNew(node_id_vec, Mentions(f)[k][1])
    <3>1. PICK n \in 1 .. l : node_id_vec[n] = Mentions(f)[k][1]
      BY <1>1, <2>2 DEF IsNew
    <3>2. n \in 1 .. Len(node_id_vec')
      BY <1>1, <1>4, <1>5, <1>7
    <3> QED
      BY <1>7, <3>1, <3>2
  <2> QED
    BY <2>1, <2>2
<1>13. ToSet(node_id_vec) \subseteq ToSet(node_id_vec')
  <2>1. \A n \in 1 .. l : n \in DOMAIN node_id_vec'
    BY <1>1, <1>4, <1>5, <1>7
  <2> QED
    BY <1>1, <1>7, <2>1 DEF ToSet
<1> QED
  BY <1>11, <1>12, <1>13

\* Storing a road keeps the map from node ids to indices complete.
LEMMA NodesMapped ==
  ASSUME NEW f \in Feature, Containers, Store(f)
  PROVE  /\ DOMAIN node_map' = ToSet(node_id_vec')
         /\ \A n \in 1 .. Len(node_id_vec') : node_map'[node_id_vec'[n]] = n - 1
<1> DEFINE ids == node_id_vec'
           index(id) == CHOOSE n \in 0 .. Len(ids) - 1 : ids[n + 1] = id
<1>1. /\ ids \in Seq(Int) /\ Len(ids) \in Nat /\ DOMAIN ids = 1 .. Len(ids)
      /\ Len(node_id_vec) \in Nat /\ Len(node_id_vec) <= Len(ids)
      /\ \A n \in 1 .. Len(node_id_vec) : ids[n] = node_id_vec[n]
  <2>1. node_id_vec \in Seq(Int)
    BY DEF Containers
  <2> QED
    BY <2>1, NodesGrow
<1>2. node_map' = [id \in ToSet(ids) |-> IF id \in DOMAIN node_map THEN node_map[id] ELSE index(id)]
  BY DEF Store
<1>3. \A m, n \in 1 .. Len(ids) : ids[m] = ids[n] => m = n
  BY IdsApart
<1>4. ASSUME NEW n \in 1 .. Len(ids) PROVE index(ids[n]) = n - 1
  <2>1. n - 1 \in 0 .. Len(ids) - 1 /\ (n - 1) + 1 = n
    BY <1>1
  <2>2. \A m \in 0 .. Len(ids) - 1 : m + 1 \in 1 .. Len(ids) /\ (m + 1) - 1 = m
    BY <1>1
  <2>3. \A m \in 0 .. Len(ids) - 1 : ids[m + 1] = ids[n] => m = n - 1
    BY <1>3, <2>2
  <2> QED
    BY <2>1, <2>3
<1>5. /\ DOMAIN node_map = ToSet(node_id_vec)
      /\ \A n \in NodesSoFar : node_map[node_id_vec[n + 1]] = n
  BY DEF Containers
<1>6. ASSUME NEW n \in 1 .. Len(ids) PROVE node_map'[ids[n]] = n - 1
  <2>1. ids[n] \in ToSet(ids)
    BY <1>1 DEF ToSet
  <2>2. node_map'[ids[n]] = IF ids[n] \in DOMAIN node_map THEN node_map[ids[n]] ELSE index(ids[n])
    BY <1>2, <2>1
  <2>3. CASE ids[n] \in DOMAIN node_map
    <3>1. PICK m \in 1 .. Len(node_id_vec) : node_id_vec[m] = ids[n]
      BY <1>1, <1>5, <2>3 DEF ToSet, Containers
    <3>2. m = n
      BY <1>1, <1>3, <3>1
    <3>3. m - 1 \in NodesSoFar /\ (m - 1) + 1 = m
      BY <1>1 DEF NodesSoFar
    <3>4. node_map[node_id_vec[m]] = m - 1
      BY <1>5, <3>3
    <3> QED
      BY <2>2, <2>3, <3>1, <3>2, <3>4
  <2>4. CASE ids[n] \notin DOMAIN node_map
    BY <1>4, <2>2, <2>4
  <2> QED
    BY <2>3, <2>4
<1> QED
  BY <1>2, <1>6

(***************************************************************************)
(* Storing a road keeps the containers in agreement: its edge comes last,  *)
(* its ends are nodes, and an id that was known keeps its first edge.      *)
(***************************************************************************)
LEMMA EdgesGrow ==
  ASSUME NEW f \in Feature, Containers, Store(f)
  PROVE  /\ edges' \in Seq(Edge) /\ Len(edges') = Len(edges) + 1 /\ Len(edges) \in Nat
         /\ DOMAIN edges = 1 .. Len(edges) /\ DOMAIN edges' = 1 .. Len(edges) + 1
         /\ \A i \in 1 .. Len(edges) : edges'[i] = edges[i]
         /\ edges'[Len(edges) + 1] = [id |-> f.id, source |-> node_map'[f.source],
                                      target |-> node_map'[f.target], geom |-> f.geom]
         /\ \E n \in 1 .. Len(node_id_vec') : node_id_vec'[n] = f.source /\ node_map'[f.source] = n - 1
         /\ \E n \in 1 .. Len(node_id_vec') : node_id_vec'[n] = f.target /\ node_map'[f.target] = n - 1
<1> DEFINE e == [id |-> f.id, source |-> node_map'[f.source],
                 target |-> node_map'[f.target], geom |-> f.geom]
<1>1. /\ Mentions(f)[1][1] = f.source /\ Mentions(f)[2][1] = f.target
      /\ f.id \in Int /\ f.geom \in Line
  BY EndsOfRoad
<1>2. PICK m \in 1 .. Len(node_id_vec') : node_id_vec'[m] = f.source
  BY <1>1, IdsApart
<1>3. PICK n \in 1 .. Len(node_id_vec') : node_id_vec'[n] = f.target
  BY <1>1, IdsApart
<1>4. node_map'[f.source] = m - 1 /\ node_map'[f.target] = n - 1
  BY <1>2, <1>3, NodesMapped
<1>5. e \in Edge
  <2>1. m - 1 \in Nat /\ n - 1 \in Nat
    OBVIOUS
  <2> QED
    BY <1>1, <1>4, <2>1 DEF Edge
<1>6. edges \in Seq(Edge) /\ edges' = Append(edges, e)
  BY DEF Containers, Store
<1> HIDE DEF e
<1>7. /\ edges' \in Seq(Edge) /\ Len(edges') = Len(edges) + 1 /\ Len(edges) \in Nat
      /\ DOMAIN edges = 1 .. Len(edges) /\ DOMAIN edges' = 1 .. Len(edges) + 1
      /\ \A i \in 1 .. Len(edges) : edges'[i] = edges[i]
      /\ edges'[Len(edges) + 1] = e
  BY <1>5, <1>6
<1> QED
  BY <1>2, <1>3, <1>4, <1>7 DEF e

\* Storing a road keeps the containers typed and in step.
LEMMA StoreKeeps ==
  ASSUME NEW f \in Feature, Containers, Store(f)
  PROVE  Containers' /\ Len(node_id_vec) <= Len(node_id_vec') /\ Len(edges') = Len(edges) + 1
<1> DEFINE l == Len(edges)
           nodes == Len(node_id_vec)
<1>1. /\ node_id_vec' \in Seq(Int) /\ vertex_points' \in Seq(Int \X Int)
      /\ Len(vertex_points') = Len(node_id_vec') /\ nodes <= Len(node_id_vec')
      /\ nodes \in Nat /\ Len(node_id_vec') \in Nat
      /\ \A n \in 1 .. nodes : vertex_points'[n] = vertex_points[n]
  <2>1. node_id_vec \in Seq(Int)
    BY DEF Containers
  <2>2. nodes \in Nat
    BY <2>1
  <2>3. /\ node_id_vec' \in Seq(Int) /\ vertex_points' \in Seq(Int \X Int)
        /\ Len(vertex_points') = Len(node_id_vec') /\ nodes <= Len(node_id_vec')
        /\ \A n \in 1 .. nodes : vertex_points'[n] = vertex_points[n]
    BY NodesGrow
  <2>4. Len(node_id_vec') \in Nat
    BY <2>3
  <2> QED
    BY <2>2, <2>3, <2>4
<1>2. /\ edges' \in Seq(Edge) /\ Len(edges') = l + 1 /\ l \in Nat
      /\ DOMAIN edges = 1 .. l /\ DOMAIN edges' = 1 .. l + 1
      /\ \A i \in 1 .. l : edges'[i] = edges[i]
  BY EdgesGrow
<1>3. /\ edges'[l + 1].id = f.id /\ edges'[l + 1].geom = f.geom
      /\ edges'[l + 1].source = node_map'[f.source] /\ edges'[l + 1].target = node_map'[f.target]
  <2>1. edges'[l + 1] = [id |-> f.id, source |-> node_map'[f.source],
                         target |-> node_map'[f.target], geom |-> f.geom]
    BY EdgesGrow
  <2> QED
    BY <2>1
<1>4. DOMAIN node_map' = ToSet(node_id_vec')
  BY NodesMapped
<1>5. \A n \in NodesSoFar' : node_map'[node_id_vec'[n + 1]] = n
  <2>1. \A n \in NodesSoFar' : n + 1 \in 1 .. Len(node_id_vec') /\ (n + 1) - 1 = n
    BY <1>1 DEF NodesSoFar
  <2> QED
    BY <2>1, NodesMapped
<1>6. DOMAIN edge_map' = { edges'[i].id : i \in DOMAIN edges' }
  <2>1. DOMAIN edge_map = { edges[i].id : i \in DOMAIN edges }
    BY DEF Containers
  <2>2. DOMAIN edge_map' = DOMAIN edge_map \cup {f.id}
    BY DEF Store, Inserted
  <2>3. 1 .. l + 1 = (1 .. l) \cup {l + 1}
    BY <1>2
  <2> QED
    BY <1>2, <1>3, <2>1, <2>2, <2>3
<1>7. ASSUME NEW id \in DOMAIN edge_map'
      PROVE  /\ edge_map'[id] \in EdgesSoFar' /\ edges'[edge_map'[id] + 1].id = id
             /\ \A i \in 1 .. edge_map'[id] : edges'[i].id # id
  <2>1. edge_map' = Inserted(edge_map, f.id, l)
    BY DEF Store
  <2>2. CASE id \in DOMAIN edge_map
    <3>1. edge_map'[id] = edge_map[id]
      BY <2>1, <2>2 DEF Inserted
    <3>2. /\ edge_map[id] \in EdgesSoFar /\ edges[edge_map[id] + 1].id = id
          /\ \A i \in 1 .. edge_map[id] : edges[i].id # id
      BY <2>2 DEF Containers
    <3>3. edge_map[id] \in 0 .. l - 1
      BY <3>2 DEF EdgesSoFar
    <3>4. edge_map[id] + 1 \in 1 .. l /\ \A i \in 1 .. edge_map[id] : i \in 1 .. l
      BY <1>2, <3>3
    <3>5. edge_map[id] \in EdgesSoFar'
      BY <1>2, <3>3 DEF EdgesSoFar
    <3> QED
      BY <1>2, <3>1, <3>2, <3>4, <3>5
  <2>3. CASE id \notin DOMAIN edge_map
    <3>1. id = f.id /\ edge_map'[id] = l
      BY <2>1, <2>3 DEF Inserted
    <3>2. l \in EdgesSoFar'
      BY <1>2 DEF EdgesSoFar
    <3>3. \A i \in 1 .. l : edges[i].id # id
      <4>1. DOMAIN edge_map = { edges[i].id : i \in DOMAIN edges }
        BY DEF Containers
      <4> QED
        BY <1>2, <2>3, <4>1
    <3> QED
      BY <1>2, <1>3, <3>1, <3>2, <3>3
  <2> QED
    BY <2>2, <2>3
<1>8. ASSUME NEW i \in DOMAIN edges' PROVE {edges'[i].source, edges'[i].target} \subseteq NodesSoFar'
  <2>1. CASE i \in 1 .. l
    <3>1. {edges[i].source, edges[i].target} \subseteq NodesSoFar
      BY <1>2, <2>1 DEF Containers
    <3>2. NodesSoFar \subseteq NodesSoFar'
      BY <1>1 DEF NodesSoFar
    <3> QED
      BY <1>2, <2>1, <3>1, <3>2
  <2>2. CASE i = l + 1
    <3>1. \A n \in 1 .. Len(node_id_vec') : n - 1 \in NodesSoFar'
      BY <1>1 DEF NodesSoFar
    <3>2. node_map'[f.source] \in NodesSoFar' /\ node_map'[f.target] \in NodesSoFar'
      BY <3>1, EdgesGrow
    <3> QED
      BY <1>3, <2>2, <3>2
  <2> QED
    BY <1>2, <2>1, <2>2
<1>9. DOMAIN vertex_points' = DOMAIN node_id_vec'
  <2> DEFINE P == Int \X Int
  <2>1. vertex_points' \in Seq(P) /\ Len(vertex_points') = Len(node_id_vec') /\ node_id_vec' \in Seq(Int)
    BY <1>1
  <2> HIDE DEF P
  <2> QED
    BY <2>1
<1>10. ASSUME NEW n \in NodesSoFar'
       PROVE  \E i \in DOMAIN edges' :
                \/ edges'[i].source = n /\ edges'[i].geom[1] = vertex_points'[n + 1]
                \/ edges'[i].target = n /\ edges'[i].geom[Len(edges'[i].geom)] = vertex_points'[n + 1]
  <2>1. n + 1 \in 1 .. Len(node_id_vec') /\ (n + 1) - 1 = n /\ n \in Nat
    BY <1>1 DEF NodesSoFar
  <2>2. CASE n \in NodesSoFar
    <3>1. PICK i \in DOMAIN edges :
            \/ edges[i].source = n /\ edges[i].geom[1] = vertex_points[n + 1]
            \/ edges[i].target = n /\ edges[i].geom[Len(edges[i].geom)] = vertex_points[n + 1]
      BY <2>2 DEF Containers
    <3>2. n + 1 \in 1 .. nodes
      BY <1>1, <2>2 DEF NodesSoFar
    <3>3. vertex_points'[n + 1] = vertex_points[n + 1]
      BY <1>1, <3>2
    <3>4. i \in DOMAIN edges' /\ edges'[i] = edges[i]
      BY <1>2
    <3> QED
      BY <3>1, <3>3, <3>4
  <2>3. CASE n \notin NodesSoFar
    <3>1. n + 1 \notin 1 .. nodes
      BY <1>1, <2>1, <2>3 DEF NodesSoFar
    <3>2. PICK k \in {1, 2} : /\ node_id_vec'[n + 1] = Mentions(f)[k][1]
                              /\ vertex_points'[n + 1] = Mentions(f)[k][2]
      BY <2>1, <3>1, NodesGrow
    <3>3. node_map'[node_id_vec'[n + 1]] = n
      BY <2>1, NodesMapped
    <3>4. l + 1 \in DOMAIN edges'
      BY <1>2
    <3>5. CASE k = 1
      <4>1. n = node_map'[f.source] /\ vertex_points'[n + 1] = f.geom[1]
        BY <3>2, <3>3, <3>5, EndsOfRoad
      <4> QED
        BY <1>3, <3>4, <4>1
    <3>6. CASE k = 2
      <4>1. n = node_map'[f.target] /\ vertex_points'[n + 1] = f.geom[Len(f.geom)]
        BY <3>2, <3>3, <3>6, EndsOfRoad
      <4> QED
        BY <1>3, <3>4, <4>1
    <3> QED
      BY <3>5, <3>6
  <2> QED
    BY <2>2, <2>3
<1> QED
  BY <1>1, <1>2, <1>4, <1>5, <1>6, <1>7, <1>8, <1>9, <1>10 DEF Containers
-----------------------------------------------------------------------------

\* The rtree holds the first of the edges, each once.
Indexed ==
  /\ Cardinality(rtree) \in 0 .. Len(edges)
  /\ rtree = { [box |-> BoundingBox(edges[i].geom), edge |-> i - 1] : i \in 1 .. Cardinality(rtree) }

InTree == 0 .. Cardinality(rtree) - 1

Candidate == [edge : Nat, offset : Nat, dist2 : Nat, point : Point]

\* An entry of the R-tree is an edge of the store.
LEMMA GeomOf ==
  ASSUME Containers, Indexed, NEW e \in InTree
  PROVE  e \in Nat /\ e + 1 \in 1 .. Cardinality(rtree) /\ (e + 1) - 1 = e /\ edges[e + 1].geom \in Line
<1>1. edges \in Seq(Edge) /\ Len(edges) \in Nat /\ Cardinality(rtree) \in 0 .. Len(edges)
  BY DEF Containers, Indexed
<1>2. e \in Nat /\ e + 1 \in 1 .. Cardinality(rtree) /\ e + 1 \in 1 .. Len(edges) /\ (e + 1) - 1 = e
  BY <1>1 DEF InTree
<1>3. edges[e + 1] \in Edge
  BY <1>1, <1>2
<1> QED
  BY <1>2, <1>3 DEF Edge

(***************************************************************************)
(* A candidate is where linear referencing locates its point on its edge:  *)
(* its distance is that of the edge.                                       *)
(***************************************************************************)
Closest(p, line, d) == { q \in PointsOf(line) : Dist2(p, q.point) = d }

LocatedOn(c, p, e) ==
  /\ [point |-> c.point, offset |-> c.offset] \in Closest(p, edges[e + 1].geom, c.dist2)
  /\ c.offset = Least({ q.offset : q \in Closest(p, edges[e + 1].geom, c.dist2) })
  /\ c.dist2 = DistanceTo(p, e)

\* A candidate is the closest point of its edge.
LEMMA CandidateLocated ==
  ASSUME Containers, Indexed, NEW e \in InTree, NEW p \in Point, NEW c, c = CandidateOn(p, e)
  PROVE  /\ c \in Candidate /\ c.edge = e /\ c.dist2 = DistanceTo(p, e) /\ DistanceTo(p, e) \in Nat
         /\ LocatedOn(c, p, e)
<1> DEFINE line == edges[e + 1].geom
           f == LinearReferencing(p, line)
           here == [point |-> f.point, offset |-> f.offset]
<1>1. line \in Line /\ e \in Nat
  BY GeomOf
<1>2. c = [edge |-> e, offset |-> f.offset, dist2 |-> f.dist2, point |-> f.point]
  BY DEF CandidateOn
<1>3. DistanceTo(p, e) = Least({ Dist2(p, q.point) : q \in PointsOf(line) })
  BY DEF DistanceTo
<1> HIDE DEF line
<1>4. /\ f \in Found /\ f.dist2 = Dist2(p, f.point) /\ here \in PointsOf(line)
      /\ \A q \in PointsOf(line) :
           /\ f.dist2 <= Dist2(p, q.point)
           /\ f.dist2 = Dist2(p, q.point) => f.offset <= q.offset
  <2> HIDE DEF f
  <2>1. f = LinearReferencing(p, line)
    BY DEF f
  <2> QED
    BY <1>1, <2>1, Located
<1> HIDE DEF f
<1>5. f.offset \in Nat /\ f.dist2 \in Nat /\ f.point \in Point
  BY <1>4 DEF Found
<1>6. here.point = f.point /\ here.offset = f.offset
  OBVIOUS
<1>7. ASSUME NEW q \in PointsOf(line) PROVE Dist2(p, q.point) \in Nat /\ q.offset \in Nat
  <2>1. q.point \in Point /\ q.offset \in Nat
    BY <1>1, PointsTyped
  <2> QED
    BY <2>1, DistanceTyped
<1> HIDE DEF here
<1>8. DistanceTo(p, e) = f.dist2
  <2> DEFINE S == { Dist2(p, q.point) : q \in PointsOf(line) }
  <2>1. S \in SUBSET Int
    BY <1>7
  <2>2. f.dist2 \in S
    BY <1>4, <1>6
  <2>3. \A other \in S : f.dist2 <= other
    BY <1>4
  <2> HIDE DEF S
  <2>4. Least(S) = f.dist2
    BY <2>1, <2>2, <2>3, LeastIs
  <2> QED
    BY <1>3, <2>4 DEF S
<1>9. here \in Closest(p, line, f.dist2)
  BY <1>4, <1>6 DEF Closest
<1>10. f.offset = Least({ q.offset : q \in Closest(p, line, f.dist2) })
  <2> DEFINE S == { q.offset : q \in Closest(p, line, f.dist2) }
  <2>1. S \in SUBSET Int
    BY <1>7 DEF Closest
  <2>2. f.offset \in S
    BY <1>6, <1>9
  <2>3. \A other \in S : f.offset <= other
    BY <1>4 DEF Closest
  <2> HIDE DEF S
  <2>4. Least(S) = f.offset
    BY <2>1, <2>2, <2>3, LeastIs
  <2> QED
    BY <2>4 DEF S
<1>11. /\ c.edge = e /\ c.offset = f.offset /\ c.dist2 = f.dist2 /\ c.point = f.point
       /\ c \in Candidate
  BY <1>1, <1>2, <1>5 DEF Candidate
<1> QED
  BY <1>5, <1>8, <1>9, <1>10, <1>11 DEF here, line, LocatedOn

(***************************************************************************)
(* The square and the boxes leave no edge out that is within the radius.   *)
(***************************************************************************)
LEMMA BoxMeetsSquare ==
  ASSUME NEW line \in Line, NEW p \in Point, NEW r \in Nat,
         LinearReferencing(p, line).dist2 <= r * r
  PROVE  Overlap(BoundingBox(line), Square(p, r))
<1> DEFINE f == LinearReferencing(p, line)
           x == f.point
           B == BoundingBox(line)
<1>1. /\ f \in Found /\ f.dist2 = Dist2(p, x)
      /\ [point |-> x, offset |-> f.offset] \in PointsOf(line)
  <2> HIDE DEF f
  <2>1. f = LinearReferencing(p, line)
    BY DEF f
  <2> QED
    BY <2>1, Located
<1>2. Holds(B, x)
  <2> DEFINE q == [point |-> x, offset |-> f.offset]
  <2>1. q.point = x /\ q \in PointsOf(line)
    BY <1>1
  <2> HIDE DEF q, x, f
  <2> QED
    BY <2>1, BoxHoldsLine
<1>3. B.x1 \in Int /\ B.x2 \in Int /\ B.y1 \in Int /\ B.y2 \in Int
  <2>1. B \in [x1 : Int, y1 : Int, x2 : Int, y2 : Int]
    BY BoxTyped
  <2> HIDE DEF B
  <2> QED
    BY <2>1
<1>4. x \in Point
  <2> HIDE DEF f
  <2> QED
    BY <1>1 DEF Found
<1>5. Dist2(p, x) <= r * r
  BY <1>1
<1> HIDE DEF B, x, f
<1>6. x[1] \in Int /\ x[2] \in Int /\ p[1] \in Int /\ p[2] \in Int
  BY <1>4 DEF Point
<1> DEFINE u == p[1] - x[1]
           v == p[2] - x[2]
<1>7. u \in Int /\ v \in Int
  BY <1>6
<1>8. u * u + v * v <= r * r
  BY <1>5 DEF Dist2
<1>9. v * v + u * u <= r * r
  <2> HIDE DEF u, v
  <2> QED
    BY <1>7, <1>8
<1>10. -r <= u /\ u <= r /\ -r <= v /\ v <= r
  <2> HIDE DEF u, v
  <2> QED
    BY <1>7, <1>8, <1>9, WithinSquare
<1>11. /\ Square(p, r).x1 = p[1] - r /\ Square(p, r).x2 = p[1] + r
       /\ Square(p, r).y1 = p[2] - r /\ Square(p, r).y2 = p[2] + r
  BY DEF Square
<1>12. Overlap(B, Square(p, r))
  BY <1>2, <1>3, <1>6, <1>10, <1>11 DEF Overlap, Holds
<1> QED
  BY <1>12 DEF B

NearBy(p, r) == { e \in InTree : DistanceTo(p, e) <= r * r }

\* Searching by boxes loses no edge that is within the radius.
LEMMA WithinIsNear ==
  ASSUME Containers, Indexed, NEW p \in Point, NEW r \in Nat
  PROVE  WithinRadius(p, r) = { CandidateOn(p, e) : e \in NearBy(p, r) }
<1>1. ASSUME NEW c \in WithinRadius(p, r)
      PROVE  c \in { CandidateOn(p, e) : e \in NearBy(p, r) }
  <2>1. PICK item \in rtree : c = CandidateOn(p, item.edge) /\ c.dist2 <= r * r
    BY DEF WithinRadius
  <2>2. PICK i \in 1 .. Cardinality(rtree) :
          item = [box |-> BoundingBox(edges[i].geom), edge |-> i - 1]
    BY DEF Indexed
  <2>3. item.edge = i - 1
    BY <2>2
  <2>4. i - 1 \in InTree
    BY DEF InTree, Indexed
  <2>5. c = CandidateOn(p, i - 1)
    BY <2>1, <2>3
  <2>6. c.dist2 = DistanceTo(p, i - 1)
    BY <2>4, <2>5, CandidateLocated
  <2> QED
    BY <2>1, <2>4, <2>5, <2>6 DEF NearBy
<1>2. ASSUME NEW e \in NearBy(p, r)
      PROVE  CandidateOn(p, e) \in WithinRadius(p, r)
  <2> DEFINE line == edges[e + 1].geom
             item == [box |-> BoundingBox(line), edge |-> e]
             c == CandidateOn(p, e)
  <2>1. e \in InTree /\ DistanceTo(p, e) <= r * r
    BY DEF NearBy
  <2>2. line \in Line /\ e + 1 \in 1 .. Cardinality(rtree) /\ (e + 1) - 1 = e
    BY <2>1, GeomOf
  <2>3. item \in rtree
    BY <2>2 DEF Indexed
  <2>4. c.dist2 <= r * r
    BY <2>1, CandidateLocated
  <2>5. c.dist2 = LinearReferencing(p, line).dist2
    BY DEF CandidateOn
  <2>6. Overlap(item.box, Square(p, r)) /\ item.edge = e
    <3> HIDE DEF line, c
    <3>1. Overlap(BoundingBox(line), Square(p, r))
      BY <2>2, <2>4, <2>5, BoxMeetsSquare
    <3> QED
      BY <3>1
  <2> HIDE DEF item, c
  <2>7. c = CandidateOn(p, item.edge)
    BY <2>6 DEF c
  <2> QED
    BY <2>3, <2>4, <2>6, <2>7 DEF WithinRadius, c
<1> QED
  BY <1>1, <1>2
-----------------------------------------------------------------------------

(***************************************************************************)
(* As many candidates as near edges.                                       *)
(***************************************************************************)
LEMMA AsManyNear ==
  ASSUME Containers, Indexed, NEW p \in Point, NEW r \in Nat
  PROVE  /\ IsFiniteSet(NearBy(p, r)) /\ IsFiniteSet(WithinRadius(p, r))
         /\ Cardinality(NearBy(p, r)) \in Nat
         /\ Cardinality(WithinRadius(p, r)) = Cardinality(NearBy(p, r))
<1> DEFINE S == NearBy(p, r)
           T == WithinRadius(p, r)
           f == [e \in S |-> CandidateOn(p, e)]
<1>1. Cardinality(rtree) \in Int
  <2>1. edges \in Seq(Edge)
    BY DEF Containers
  <2>2. Len(edges) \in Nat
    BY <2>1
  <2> QED
    BY <2>2 DEF Indexed
<1>2. IsFiniteSet(InTree)
  <2>1. Cardinality(rtree) - 1 \in Int /\ 0 \in Int
    BY <1>1
  <2> QED
    BY <2>1, FS_Interval DEF InTree
<1>3. S \in SUBSET InTree
  BY DEF NearBy
<1> HIDE DEF S
<1>4. IsFiniteSet(S) /\ Cardinality(S) \in Nat
  BY <1>2, <1>3, FS_Subset, FS_CardinalityType
<1>5. T = {CandidateOn(p, e) : e \in S}
  BY WithinIsNear DEF S
<1> HIDE DEF T
<1>6. f \in Bijection(S, T)
  <2>1. f \in [S -> T] /\ \A t \in T : \E e \in S : f[e] = t
    BY <1>5
  <2>2. ASSUME NEW a \in S, NEW b \in S, f[a] = f[b] PROVE a = b
    <3>1. CandidateOn(p, a).edge = a /\ CandidateOn(p, b).edge = b
      BY <1>3, CandidateLocated
    <3> QED
      BY <2>2, <3>1
  <2> QED
    BY <2>1, <2>2 DEF Bijection, Injection, Surjection, IsInjective
<1>7. IsFiniteSet(T) /\ Cardinality(T) = Cardinality(S)
  <2> HIDE DEF f
  <2>1. ExistsBijection(S, T)
    BY <1>6 DEF ExistsBijection
  <2> QED
    BY <1>4, <2>1, FS_Bijection
<1> QED
  BY <1>4, <1>7 DEF S, T

\* candidate_compare is a strict order.
LEMMA CompareOrders ==
  ASSUME NEW a \in Candidate, NEW b \in Candidate, NEW c \in Candidate
  PROVE  /\ ~ CandidateCompare(a, a)
         /\ CandidateCompare(a, b) /\ CandidateCompare(b, c) => CandidateCompare(a, c)
<1>1. /\ a.dist2 \in Nat /\ b.dist2 \in Nat /\ c.dist2 \in Nat
      /\ a.edge \in Nat /\ b.edge \in Nat /\ c.edge \in Nat
  BY DEF Candidate
<1> QED
  BY <1>1 DEF CandidateCompare

(***************************************************************************)
(* What is chosen: the k first of the candidates, or all.                  *)
(***************************************************************************)
LEMMA ChosenAre ==
  ASSUME NEW pcs \in SUBSET Candidate, IsFiniteSet(pcs), NEW k \in Nat \ {0},
         NEW cs \in Chosen(pcs, k)
  PROVE  /\ Len(cs) = (IF Cardinality(pcs) <= k THEN Cardinality(pcs) ELSE k)
         /\ Len(cs) \in Nat /\ DOMAIN cs = 1 .. Len(cs) /\ cs \in [1 .. Len(cs) -> pcs]
         /\ \A m, n \in 1 .. Len(cs) : cs[m] = cs[n] => m = n
         /\ \A c \in pcs : (\A m \in 1 .. Len(cs) : cs[m] # c) =>
              \A m \in 1 .. Len(cs) : CandidateCompare(cs[m], c)
<1>1. Cardinality(pcs) \in Nat
  BY FS_CardinalityType
<1>2. CASE Cardinality(pcs) <= k
  <2> DEFINE n == Cardinality(pcs)
  <2>1. cs \in [1 .. n -> pcs] /\ \A i, j \in 1 .. n : i # j => cs[i] # cs[j]
    BY <1>2 DEF Chosen, SetToSeqs
  <2>2. Len(cs) = n /\ DOMAIN cs = 1 .. n
    <3> HIDE DEF n
    <3>1. n \in Nat
      BY <1>1 DEF n
    <3>2. cs \in Seq(pcs)
      BY <2>1, <3>1
    <3> QED
      BY <2>1, <3>1, <3>2
  <2>3. \A c \in pcs : \E m \in 1 .. n : cs[m] = c
    <3>1. cs \in Injection(1 .. n, pcs)
      BY <2>1 DEF Injection, IsInjective
    <3>2. IsFiniteSet(1 .. n) /\ Cardinality(1 .. n) = n
      <4>1. n \in Int /\ 1 \in Int /\ (IF 1 > n THEN 0 ELSE n - 1 + 1) = n
        BY <1>1
      <4> HIDE DEF n
      <4> QED
        BY <4>1, FS_Interval
    <3>3. cs \in Surjection(1 .. n, pcs)
      BY <3>1, <3>2, FS_Injection
    <3> QED
      BY <3>3 DEF Surjection
  <2> QED
    BY <1>1, <1>2, <2>1, <2>2, <2>3
<1>3. CASE ~ (Cardinality(pcs) <= k)
  <2>1. /\ cs \in [1 .. k -> pcs]
        /\ \A m, n \in 1 .. k : m < n => CandidateCompare(cs[m], cs[n])
        /\ \A c \in pcs \ ToSet(cs) : CandidateCompare(cs[k], c)
    BY <1>3 DEF Chosen
  <2>2. Len(cs) = k /\ DOMAIN cs = 1 .. k /\ k \in 1 .. k
    <3>1. cs \in Seq(pcs)
      BY <2>1
    <3> QED
      BY <2>1, <3>1
  <2>3. ASSUME NEW m \in 1 .. k, NEW n \in 1 .. k, cs[m] = cs[n] PROVE m = n
    <3>1. cs[m] \in Candidate /\ cs[n] \in Candidate
      BY <2>1
    <3>2. ~ CandidateCompare(cs[m], cs[n]) /\ ~ CandidateCompare(cs[n], cs[m])
      BY <2>3, <3>1, CompareOrders
    <3>3. ~ m < n /\ ~ n < m
      BY <2>1, <3>2
    <3> QED
      BY <3>3
  <2>4. ASSUME NEW c \in pcs, \A m \in 1 .. k : cs[m] # c, NEW m \in 1 .. k
        PROVE  CandidateCompare(cs[m], c)
    <3>1. c \notin ToSet(cs)
      BY <2>2, <2>4 DEF ToSet
    <3>2. CandidateCompare(cs[k], c)
      BY <2>1, <3>1
    <3>3. cs[m] \in Candidate /\ cs[k] \in Candidate /\ c \in Candidate
      BY <2>1, <2>2
    <3>4. m = k \/ m < k
      OBVIOUS
    <3>5. CASE m < k
      <4>1. CandidateCompare(cs[m], cs[k])
        BY <2>1, <2>2, <3>5
      <4> QED
        BY <3>2, <3>3, <4>1, CompareOrders
    <3> QED
      BY <3>2, <3>4, <3>5
  <2> QED
    BY <1>3, <2>1, <2>2, <2>3, <2>4
<1> QED
  BY <1>2, <1>3

EdgesOf(cs) == { cs[m].edge : m \in DOMAIN cs }

TheNearest(found, n, p, near, k) ==
  /\ found \subseteq near /\ Cardinality(found) = n /\ n = Least({k, Cardinality(near)})
  /\ \A e \in found, other \in near \ found : Before(p, e, other)

\* partial_sort leaves the nearest candidates, as many as there are up to k.
LEMMA NearestOfPoint ==
  ASSUME Containers, Indexed, NEW p \in Point, NEW r \in Nat, NEW k \in Nat \ {0},
         NEW cs \in Chosen(WithinRadius(p, r), k)
  PROVE  /\ Len(cs) \in Nat /\ DOMAIN cs = 1 .. Len(cs) /\ cs \in Seq(Candidate)
         /\ \A m \in DOMAIN cs : cs[m].edge \in InTree /\ cs[m] = CandidateOn(p, cs[m].edge)
         /\ WithinRadius(p, r) # {} => cs # <<>>
         /\ TheNearest(EdgesOf(cs), Len(cs), p, NearBy(p, r), k)
<1> DEFINE pcs == WithinRadius(p, r)
           near == NearBy(p, r)
           found == { cs[m].edge : m \in DOMAIN cs }
           l == Len(cs)
<1>1. /\ IsFiniteSet(pcs) /\ Cardinality(near) \in Nat /\ Cardinality(pcs) = Cardinality(near)
  BY AsManyNear
<1>2. pcs = { CandidateOn(p, e) : e \in near }
  BY WithinIsNear
<1>3. near \subseteq InTree
  BY DEF NearBy
<1>4. ASSUME NEW e \in near
      PROVE  /\ CandidateOn(p, e) \in Candidate /\ CandidateOn(p, e).edge = e
             /\ CandidateOn(p, e).dist2 = DistanceTo(p, e)
  BY <1>3, CandidateLocated
<1>5. cs \in Chosen(pcs, k)
  OBVIOUS
<1> HIDE DEF pcs, near
<1>6. pcs \in SUBSET Candidate
  BY <1>2, <1>4
<1>7. /\ l = (IF Cardinality(pcs) <= k THEN Cardinality(pcs) ELSE k)
      /\ l \in Nat /\ DOMAIN cs = 1 .. l /\ cs \in [1 .. l -> pcs]
      /\ \A m, n \in 1 .. l : cs[m] = cs[n] => m = n
      /\ \A c \in pcs : (\A m \in 1 .. l : cs[m] # c) =>
           \A m \in 1 .. l : CandidateCompare(cs[m], c)
  BY <1>1, <1>5, <1>6, ChosenAre
<1>8. ASSUME NEW m \in 1 .. l
      PROVE  cs[m].edge \in near /\ cs[m] = CandidateOn(p, cs[m].edge)
  <2>1. cs[m] \in pcs
    BY <1>7
  <2>2. PICK e \in near : cs[m] = CandidateOn(p, e)
    BY <1>2, <2>1
  <2>3. cs[m].edge = e
    BY <1>4, <2>2
  <2> QED
    BY <2>2, <2>3
<1> HIDE DEF l
<1>9. cs \in Seq(Candidate)
  <2>1. cs \in [1 .. l -> Candidate]
    BY <1>6, <1>7
  <2> QED
    BY <1>7, <2>1
<1>10. found \subseteq near
  BY <1>7, <1>8
<1>11. Cardinality(found) = l
  <2> DEFINE g == [m \in 1 .. l |-> cs[m].edge]
  <2>1. g \in [1 .. l -> found] /\ \A e \in found : \E m \in 1 .. l : g[m] = e
    BY <1>7
  <2>2. \A m, n \in 1 .. l : g[m] = g[n] => m = n
    BY <1>7, <1>8
  <2>3. g \in Bijection(1 .. l, found)
    BY <2>1, <2>2 DEF Bijection, Injection, Surjection, IsInjective
  <2> HIDE DEF g, found
  <2>4. ExistsBijection(1 .. l, found)
    BY <2>3 DEF ExistsBijection
  <2> QED
    BY <1>7, <2>4, FS_CountingElements
<1>12. l = Least({k, Cardinality(near)})
  <2> DEFINE n == Cardinality(near)
             S == {k, n}
  <2>1. n \in Nat /\ l = (IF n <= k THEN n ELSE k)
    BY <1>1, <1>7
  <2> HIDE DEF n
  <2>2. l \in S /\ S \in SUBSET Int /\ \A other \in S : l <= other
    BY <2>1
  <2> HIDE DEF S
  <2>3. Least(S) = l
    BY <2>2, LeastIs
  <2> QED
    BY <2>3 DEF S, n
<1>13. pcs # {} => cs # <<>>
  <2>1. Cardinality(pcs) = 0 <=> pcs = {}
    BY <1>1, FS_EmptySet
  <2>2. cs = <<>> => l = 0
    BY DEF l
  <2>3. Cardinality(pcs) \in Nat
    BY <1>1
  <2> QED
    BY <1>7, <2>1, <2>2, <2>3
<1>14. ASSUME NEW e \in found, NEW other \in near \ found
       PROVE  Before(p, e, other)
  <2>1. PICK m \in 1 .. l : e = cs[m].edge
    BY <1>7
  <2> DEFINE c == CandidateOn(p, other)
  <2>2. c \in pcs /\ c.edge = other /\ c.dist2 = DistanceTo(p, other)
    BY <1>2, <1>4
  <2>3. \A n \in 1 .. l : cs[n] # c
    BY <1>7, <2>2
  <2>4. CandidateCompare(cs[m], c)
    BY <1>7, <2>2, <2>3
  <2>5. cs[m].dist2 = DistanceTo(p, e)
    BY <1>4, <1>8, <2>1
  <2> HIDE DEF c
  <2> QED
    BY <2>1, <2>2, <2>4, <2>5 DEF CandidateCompare, Before
<1>15. \A m \in DOMAIN cs : cs[m].edge \in InTree /\ cs[m] = CandidateOn(p, cs[m].edge)
  BY <1>3, <1>7, <1>8
<1>16. TheNearest(EdgesOf(cs), l, p, near, k)
  BY <1>10, <1>11, <1>12, <1>14 DEF TheNearest, EdgesOf
<1> QED
  BY <1>7, <1>9, <1>13, <1>15, <1>16 DEF l, pcs, near
-----------------------------------------------------------------------------

(***************************************************************************)
(* The inductive invariant.  What a search has chosen depends on the edges *)
(* and the rtree, which do not change until it has returned; its indices   *)
(* run on to the next one, and none is less than num_vertices.             *)
(***************************************************************************)
Requests == [geom : Seq(Point) \ {<<>>}, k : Nat \ {0}, radius : Nat]

Row == Seq([index : Nat, c : Candidate])

ChosenFor(i) ==
  [m \in DOMAIN tr_cs[i] |-> tr_cs[i][m].c]
    \in Chosen(WithinRadius(request.geom[i], request.radius), request.k)

Searching ==
  /\ tr_cs \in Seq(Row)
  /\ pc \in {"read", "ready"} => tr_cs = <<>>
  /\ pc = "search" \/ tr_cs # <<>> => request \in Requests /\ Len(tr_cs) <= Len(request.geom)
  /\ \A i \in DOMAIN tr_cs : ChosenFor(i)
  /\ pc = "returned" /\ tr_cs = <<>> =>
       mgeom # NoGeometry \/ \E i \in DOMAIN request.geom : Near(request.geom[i]) = {}

Numbering ==
  /\ pc # "read" /\ added = {} => num_vertices = Len(node_id_vec)
  /\ pc = "search" =>
       next_index = IF tr_cs = <<>> THEN num_vertices
                    ELSE tr_cs[Len(tr_cs)][Len(tr_cs[Len(tr_cs)])].index + 1
  /\ CandidatesNumbered
  /\ \A i \in DOMAIN tr_cs : \A m \in DOMAIN tr_cs[i] : num_vertices <= tr_cs[i][m].index

NetworkInv == NetworkTypeOK /\ Indexed /\ Searching /\ Numbering

(***************************************************************************)
(* The items of the rtree.                                                 *)
(***************************************************************************)
LEMMA ItemsIndexed ==
  ASSUME Containers
  PROVE  /\ Cardinality(Items) = Len(edges) /\ Len(edges) \in Nat
         /\ Items = { [box |-> BoundingBox(edges[i].geom), edge |-> i - 1] : i \in 1 .. Len(edges) }
<1> DEFINE l == Len(edges)
           f == [i \in 1 .. l |-> [box |-> BoundingBox(edges[i].geom), edge |-> i - 1]]
<1>1. edges \in Seq(Edge) /\ l \in Nat /\ DOMAIN edges = 1 .. l
  <2>1. edges \in Seq(Edge)
    BY DEF Containers
  <2> QED
    BY <2>1
<1> HIDE DEF l
<1>2. Items = { [box |-> BoundingBox(edges[i].geom), edge |-> i - 1] : i \in 1 .. l }
  BY <1>1 DEF Items
<1>3. f \in [1 .. l -> Items] /\ \A t \in Items : \E i \in 1 .. l : f[i] = t
  BY <1>2
<1>4. ASSUME NEW i \in 1 .. l, NEW j \in 1 .. l, f[i] = f[j] PROVE i = j
  <2>1. f[i].edge = i - 1 /\ f[j].edge = j - 1
    OBVIOUS
  <2>2. i - 1 = j - 1
    BY <1>4, <2>1
  <2> QED
    BY <2>2
<1> HIDE DEF f
<1>5. f \in Bijection(1 .. l, Items)
  BY <1>3, <1>4 DEF Bijection, Injection, Surjection, IsInjective
<1>6. Cardinality(Items) = l
  <2>1. ExistsBijection(1 .. l, Items)
    BY <1>5 DEF ExistsBijection
  <2> QED
    BY <1>1, <2>1, FS_CountingElements
<1> QED
  BY <1>1, <1>2, <1>6 DEF l

\* An edge added after the R-tree was built changes none of its entries.
LEMMA IndexedStays ==
  ASSUME NEW f \in Feature, Containers, Indexed, Store(f), UNCHANGED rtree
  PROVE  Indexed'
<1> DEFINE n == Cardinality(rtree)
<1>1. /\ Len(edges') = Len(edges) + 1 /\ Len(edges) \in Nat
      /\ \A i \in 1 .. Len(edges) : edges'[i] = edges[i]
  BY EdgesGrow
<1>2. n \in 0 .. Len(edges)
  BY DEF Indexed
<1>3. n \in 0 .. Len(edges') /\ \A i \in 1 .. n : edges'[i] = edges[i]
  BY <1>1, <1>2
<1>4. rtree = { [box |-> BoundingBox(edges[i].geom), edge |-> i - 1] : i \in 1 .. n }
  BY DEF Indexed
<1>5. rtree' = { [box |-> BoundingBox(edges'[i].geom), edge |-> i - 1] : i \in 1 .. n }
  BY <1>3, <1>4
<1>6. Cardinality(rtree)' = n
  OBVIOUS
<1> QED
  BY <1>3, <1>5, <1>6 DEF Indexed

\* A row of candidates stays right while the store does.
LEMMA ChosenStays ==
  ASSUME NEW i, tr_cs'[i] = tr_cs[i], UNCHANGED <<edges, rtree, request>>
  PROVE  ChosenFor(i)' <=> ChosenFor(i)
BY DEF ChosenFor, WithinRadius, CandidateOn

\* What is near a point stays the same while the store does.
LEMMA NearStays ==
  ASSUME NEW p, UNCHANGED <<edges, rtree, request>>
  PROVE  Near(p)' = Near(p)
BY DEF Near, DistanceTo

\* The containers stay typed while the store is left alone.
LEMMA ContainersStay ==
  ASSUME UNCHANGED store
  PROVE  Containers' <=> Containers
BY DEF Containers, NodesSoFar, EdgesSoFar, store

\* The R-tree stays right while it and the edges are left alone.
LEMMA IndexStays ==
  ASSUME UNCHANGED <<edges, rtree>>
  PROVE  Indexed' <=> Indexed
BY DEF Indexed
-----------------------------------------------------------------------------

(***************************************************************************)
(* While no search is on, nothing is chosen and nothing numbered.          *)
(***************************************************************************)
LEMMA NothingChosen ==
  ASSUME tr_cs' = <<>>, pc' \in {"read", "ready"}, pc' # "read" /\ added' = {} => num_vertices' = Len(node_id_vec')
  PROVE  Searching' /\ Numbering'
<1>1. DOMAIN tr_cs' = {} /\ tr_cs' \in Seq(Row)
  OBVIOUS
<1>2. pc' # "search" /\ pc' # "returned"
  OBVIOUS
<1>3. Searching'
  BY <1>1, <1>2 DEF Searching
<1>4. CandidatesNumbered'
  BY <1>1 DEF CandidatesNumbered
<1> QED
  BY <1>1, <1>2, <1>3, <1>4 DEF Numbering

\* Reading and adding a road have the storing in common.
LEMMA StoringStep ==
  ASSUME NetworkInv, NEW f \in Feature, Store(f), pc \in {"read", "ready"},
         UNCHANGED <<rtree, num_vertices, tr_cs, next_index, pc>>,
         features' \in Seq(Feature), added' \subseteq Extra, moved' \in BOOLEAN,
         pc # "read" => added' # {}
  PROVE  NetworkInv'
<1>1. NetworkTypeOK /\ Containers /\ Indexed /\ tr_cs = <<>>
  BY DEF NetworkInv, NetworkTypeOK, Searching
<1>2. Containers' /\ Len(node_id_vec) <= Len(node_id_vec') /\ Len(node_id_vec) \in Nat /\ Len(node_id_vec') \in Nat
  <2>1. Containers' /\ Len(node_id_vec) <= Len(node_id_vec')
    BY <1>1, StoreKeeps
  <2>2. node_id_vec \in Seq(Int) /\ node_id_vec' \in Seq(Int)
    BY <1>1, <2>1 DEF Containers
  <2> QED
    BY <2>1, <2>2
<1>3. NetworkTypeOK'
  <2>1. num_vertices' \in 0 .. Len(node_id_vec')
    BY <1>1, <1>2 DEF NetworkTypeOK
  <2>2. pc' \in {"read", "ready", "search", "returned", "crashed"} /\ next_index' \in Nat
    BY <1>1 DEF NetworkTypeOK
  <2> QED
    BY <1>2, <2>1, <2>2 DEF NetworkTypeOK
<1>4. Indexed'
  BY <1>1, IndexedStays
<1>5. Searching' /\ Numbering'
  <2>1. tr_cs' = <<>> /\ pc' \in {"read", "ready"} /\ (pc' # "read" => added' # {})
    BY <1>1
  <2> QED
    BY <2>1, NothingChosen
<1> QED
  BY <1>3, <1>4, <1>5 DEF NetworkInv

\* Reading one feature of the file.
LEMMA ReadFeatureStep ==
  ASSUME NetworkInv, ReadFeature
  PROVE  NetworkInv'
<1>1. features \in Seq(Feature) /\ added \subseteq Extra /\ moved \in BOOLEAN
  BY DEF NetworkInv, NetworkTypeOK
<1>2. /\ pc = "read" /\ features # <<>> /\ Store(Head(features)) /\ features' = Tail(features)
      /\ UNCHANGED <<num_vertices, rtree, added, moved, pc, tr_cs, next_index>>
  BY DEF ReadFeature
<1>3. Head(features) \in Feature /\ features' \in Seq(Feature)
  BY <1>1, <1>2
<1> QED
  BY <1>1, <1>2, <1>3, StoringStep

\* add_edge, which leaves the R-tree and the number of vertices behind.
LEMMA AddEdgeStep ==
  ASSUME NetworkInv, AddEdge
  PROVE  NetworkInv'
<1>1. features \in Seq(Feature) /\ added \subseteq Extra /\ moved \in BOOLEAN
  BY DEF NetworkInv, NetworkTypeOK
<1>2. /\ pc = "ready" /\ moved' \in {moved, TRUE}
      /\ UNCHANGED <<features, num_vertices, rtree, pc, tr_cs, next_index>>
      /\ \E f \in Extra \ added : Store(f) /\ added' = added \cup {f}
  BY DEF AddEdge
<1>3. PICK f \in Extra \ added : Store(f) /\ added' = added \cup {f}
  BY <1>2
<1>4. f \in Feature
  BY NetworkAssumption
<1>5. features' \in Seq(Feature) /\ added' \subseteq Extra /\ moved' \in BOOLEAN /\ added' # {}
  BY <1>1, <1>2, <1>3
<1> QED
  BY <1>2, <1>3, <1>4, <1>5, StoringStep

\* The end of the file: the number of vertices is taken and the R-tree built.
LEMMA EndReadStep ==
  ASSUME NetworkInv, EndRead
  PROVE  NetworkInv'
<1>1. /\ pc = "read" /\ num_vertices' = Len(node_id_vec) /\ rtree' = Items /\ pc' = "ready"
      /\ UNCHANGED <<features, store, added, moved, tr_cs, next_index>>
  BY DEF EndRead
<1>2. NetworkTypeOK /\ Containers /\ tr_cs = <<>>
  BY <1>1 DEF NetworkInv, NetworkTypeOK, Searching
<1>3. Containers' /\ edges' = edges /\ node_id_vec' = node_id_vec
  BY <1>1, <1>2, ContainersStay DEF store
<1>4. Len(node_id_vec) \in Nat
  BY <1>2 DEF Containers
<1>5. NetworkTypeOK'
  <2>1. num_vertices' \in 0 .. Len(node_id_vec')
    BY <1>1, <1>3, <1>4
  <2>2. pc' \in {"read", "ready", "search", "returned", "crashed"}
    BY <1>1
  <2>3. /\ features' \in Seq(Feature) /\ added' \subseteq Extra /\ moved' \in BOOLEAN
        /\ next_index' \in Nat
    BY <1>1, <1>2 DEF NetworkTypeOK
  <2> QED
    BY <1>3, <2>1, <2>2, <2>3 DEF NetworkTypeOK
<1>6. Indexed'
  <2>1. /\ Cardinality(Items) = Len(edges) /\ Len(edges) \in Nat
        /\ Items = { [box |-> BoundingBox(edges[i].geom), edge |-> i - 1] : i \in 1 .. Len(edges) }
    BY <1>2, ItemsIndexed
  <2>2. Cardinality(rtree') = Len(edges) /\ Len(edges) \in 0 .. Len(edges)
    <3>1. Cardinality(Items) = Len(edges) /\ Len(edges) \in Nat
      BY <2>1
    <3> QED
      BY <1>1, <3>1
  <2> QED
    BY <1>1, <1>3, <2>1, <2>2 DEF Indexed
<1>7. Searching' /\ Numbering'
  BY <1>1, <1>2, <1>3, NothingChosen
<1> QED
  BY <1>5, <1>6, <1>7 DEF NetworkInv

(***************************************************************************)
(* The steps that leave the network as it is.                              *)
(***************************************************************************)
NetworkStays ==
  UNCHANGED <<features, store, num_vertices, rtree, added, moved>>

\* The types outlast a step that leaves the network alone.
LEMMA TypesStay ==
  ASSUME NetworkInv, NetworkStays, next_index' \in Nat,
         pc' \in {"ready", "search", "returned", "crashed"}
  PROVE  NetworkTypeOK' /\ Indexed' /\ Containers /\ Indexed /\ UNCHANGED <<edges, rtree, node_id_vec>>
<1>1. NetworkTypeOK /\ Containers /\ Indexed
  BY DEF NetworkInv, NetworkTypeOK
<1>2. /\ UNCHANGED <<edges, rtree, node_id_vec>>
      /\ UNCHANGED <<features, num_vertices, added, moved>> /\ UNCHANGED store
  BY DEF NetworkStays, store
<1>3. Containers' /\ Indexed'
  BY <1>1, <1>2, ContainersStay, IndexStays
<1>4. NetworkTypeOK'
  BY <1>1, <1>2, <1>3 DEF NetworkTypeOK
<1> QED
  BY <1>1, <1>2, <1>3, <1>4

\* A trajectory comes in to be searched for.
LEMMA BeginSearchStep ==
  ASSUME NetworkInv, BeginSearch
  PROVE  NetworkInv'
<1>1. /\ pc = "ready" /\ pc' = "search" /\ tr_cs' = <<>> /\ next_index' = num_vertices /\ NetworkStays
      /\ \E line \in Trajs, k \in Ks, radius \in Radii :
            request' = [geom |-> line, k |-> k, radius |-> radius]
  BY DEF BeginSearch, NetworkStays
<1>2. num_vertices \in Nat
  <2>1. node_id_vec \in Seq(Int) /\ num_vertices \in 0 .. Len(node_id_vec)
    BY DEF NetworkInv, NetworkTypeOK, Containers
  <2>2. Len(node_id_vec) \in Nat
    BY <2>1
  <2> QED
    BY <2>1, <2>2
<1>3. NetworkTypeOK' /\ Indexed' /\ UNCHANGED node_id_vec
  BY <1>1, <1>2, TypesStay
<1>4. request' \in Requests
  <2>1. PICK line \in Trajs, k \in Ks, radius \in Radii :
          request' = [geom |-> line, k |-> k, radius |-> radius]
    BY <1>1
  <2>2. line \in Seq(Point) \ {<<>>} /\ k \in Nat \ {0} /\ radius \in Nat
    BY NetworkAssumption DEF Point
  <2> QED
    BY <2>1, <2>2 DEF Requests
<1>5. DOMAIN tr_cs' = {} /\ tr_cs' \in Seq(Row) /\ Len(tr_cs') = 0
  BY <1>1
<1>6. Len(tr_cs') <= Len(request'.geom)
  <2>1. request'.geom \in Seq(Point)
    BY <1>4 DEF Requests
  <2>2. Len(request'.geom) \in Nat
    BY <2>1
  <2> QED
    BY <1>5, <2>2
<1>7. Searching'
  BY <1>1, <1>4, <1>5, <1>6 DEF Searching
<1>8. CandidatesNumbered'
  BY <1>5 DEF CandidatesNumbered
<1>9. pc' # "read" /\ added' = {} => num_vertices' = Len(node_id_vec')
  BY <1>1, <1>3 DEF NetworkInv, Numbering, NetworkStays
<1>10. next_index' = num_vertices'
  BY <1>1 DEF NetworkStays
<1>11. Numbering'
  BY <1>1, <1>5, <1>8, <1>9, <1>10 DEF Numbering
<1> QED
  BY <1>3, <1>7, <1>11 DEF NetworkInv
-----------------------------------------------------------------------------

(***************************************************************************)
(* The candidates of one point, numbered.                                  *)
(***************************************************************************)
LEMMA RowNumbered ==
  ASSUME NEW cs \in Seq(Candidate), cs # <<>>, next_index \in Nat, NEW row, row = Numbered(cs)
  PROVE  /\ row \in Row /\ row # <<>> /\ Len(row) = Len(cs) /\ Len(row) \in Nat /\ Len(row) >= 1
         /\ DOMAIN row = 1 .. Len(row) /\ DOMAIN cs = 1 .. Len(row)
         /\ \A m \in 1 .. Len(row) : row[m].index = next_index + m - 1 /\ row[m].c = cs[m]
<1> DEFINE l == Len(cs)
           N == [index : Nat, c : Candidate]
<1>1. l \in Nat /\ l >= 1 /\ DOMAIN cs = 1 .. l
  OBVIOUS
<1>2. row = [m \in 1 .. l |-> [index |-> next_index + m - 1, c |-> cs[m]]]
  BY <1>1 DEF Numbered
<1>3. ASSUME NEW m \in 1 .. l
      PROVE  /\ row[m] \in N
             /\ row[m].index = next_index + m - 1 /\ row[m].c = cs[m]
  <2>1. row[m] = [index |-> next_index + m - 1, c |-> cs[m]]
    BY <1>2
  <2>2. next_index + m - 1 \in Nat /\ cs[m] \in Candidate
    BY <1>1
  <2> QED
    BY <2>1, <2>2
<1> HIDE DEF l, N
<1>4. row \in [1 .. l -> N]
  BY <1>2, <1>3
<1>5. row \in Seq(N) /\ Len(row) = l /\ DOMAIN row = 1 .. l
  BY <1>1, <1>4
<1>6. row # <<>>
  BY <1>1, <1>5
<1> QED
  BY <1>1, <1>3, <1>5, <1>6 DEF Row, N, l

\* The points and bounds of a request are typed.
LEMMA PointOfRequest ==
  ASSUME request \in Requests, NEW i \in 1 .. Len(request.geom)
  PROVE  /\ request.geom[i] \in Point /\ request.radius \in Nat /\ request.k \in Nat \ {0}
         /\ i \in DOMAIN request.geom /\ Len(request.geom) \in Nat
<1>1. request.geom \in Seq(Point) /\ request.radius \in Nat /\ request.k \in Nat \ {0}
  BY DEF Requests
<1> QED
  BY <1>1

\* What is near a point of the request.
LEMMA NearIs ==
  ASSUME NEW p
  PROVE  Near(p) = NearBy(p, request.radius)
BY DEF Near, NearBy, InTree

\* A point that nothing is near to: the search answers with no candidates at all.
LEMMA NoneFoundStep ==
  ASSUME NetworkInv, SearchPoint,
         WithinRadius(request.geom[Len(tr_cs) + 1], request.radius) = {}
  PROVE  NetworkInv'
<1>0. PICK i, p : i = Len(tr_cs) + 1 /\ p = request.geom[i]
  OBVIOUS
<1>1. /\ pc = "search" /\ Len(tr_cs) < Len(request.geom)
      /\ pc' = "returned" /\ tr_cs' = <<>> /\ next_index' = next_index
      /\ NetworkStays /\ UNCHANGED <<request, mgeom>>
  BY DEF SearchPoint, NetworkStays
<1>2. request \in Requests /\ tr_cs \in Seq(Row) /\ next_index \in Nat
  BY <1>1 DEF NetworkInv, Searching, NetworkTypeOK
<1>3. NetworkTypeOK' /\ Indexed' /\ Containers /\ Indexed /\ UNCHANGED <<edges, rtree, node_id_vec>>
  BY <1>1, <1>2, TypesStay
<1>4. i \in 1 .. Len(request.geom)
  <2>1. request.geom \in Seq(Point)
    BY <1>2 DEF Requests
  <2>2. Len(tr_cs) \in Nat /\ Len(request.geom) \in Nat
    BY <1>2, <2>1
  <2> QED
    BY <1>0, <1>1, <2>2
<1>5. p \in Point /\ request.radius \in Nat /\ i \in DOMAIN request.geom
  BY <1>0, <1>2, <1>4, PointOfRequest
<1>6. WithinRadius(p, request.radius) = {}
  BY <1>0
<1>7. Near(p) = {}
  <2>1. WithinRadius(p, request.radius) = { CandidateOn(p, e) : e \in NearBy(p, request.radius) }
    BY <1>3, <1>5, WithinIsNear
  <2> QED
    BY <1>6, <2>1, NearIs
<1>8. (\E j \in DOMAIN request.geom : Near(request.geom[j]) = {})'
  <2>1. i \in DOMAIN request'.geom /\ p = request'.geom[i]
    BY <1>0, <1>1, <1>5
  <2>2. Near(p)' = {}
    BY <1>1, <1>3, <1>7, NearStays
  <2> QED
    BY <2>1, <2>2 DEF Near, DistanceTo
<1>9. DOMAIN tr_cs' = {} /\ tr_cs' \in Seq(Row)
  BY <1>1
<1>10. Searching'
  BY <1>1, <1>8, <1>9 DEF Searching
<1>11. CandidatesNumbered'
  BY <1>9 DEF CandidatesNumbered
<1>12. pc' # "read" /\ added' = {} => num_vertices' = Len(node_id_vec')
  BY <1>1, <1>3 DEF NetworkInv, Numbering, NetworkStays
<1>13. Numbering'
  BY <1>1, <1>9, <1>11, <1>12 DEF Numbering
<1> QED
  BY <1>3, <1>10, <1>13 DEF NetworkInv

\* The rows found so far, and one more.
LEMMA OneRowMore ==
  ASSUME NEW t \in Seq(Row), NEW row \in Row, NEW u, u = Append(t, row)
  PROVE  /\ u \in Seq(Row) /\ Len(u) = Len(t) + 1 /\ Len(t) \in Nat /\ u # <<>>
         /\ DOMAIN t = 1 .. Len(t) /\ DOMAIN u = 1 .. Len(t) + 1
         /\ \A i \in 1 .. Len(t) : u[i] = t[i]
         /\ u[Len(t) + 1] = row
         /\ t = <<>> <=> Len(t) = 0
<1> DEFINE S == Row
<1>1. t \in Seq(S) /\ row \in S
  OBVIOUS
<1> HIDE DEF S
<1>2. /\ u \in Seq(S) /\ Len(u) = Len(t) + 1 /\ Len(t) \in Nat
      /\ DOMAIN t = 1 .. Len(t) /\ DOMAIN u = 1 .. Len(t) + 1
      /\ \A i \in 1 .. Len(t) : u[i] = t[i]
      /\ u[Len(t) + 1] = row
  BY <1>1
<1>3. (t = <<>> <=> Len(t) = 0) /\ u # <<>>
  BY <1>1, <1>2
<1> QED
  BY <1>2, <1>3 DEF S
-----------------------------------------------------------------------------

\* What a row of candidates is.
LEMMA RowTyped ==
  ASSUME NEW row \in Row
  PROVE  /\ Len(row) \in Nat /\ DOMAIN row = 1 .. Len(row)
         /\ row # <<>> => Len(row) \in DOMAIN row /\ 1 \in DOMAIN row
         /\ \A m \in DOMAIN row : row[m].index \in Nat /\ row[m].c \in Candidate
<1> DEFINE N == [index : Nat, c : Candidate]
<1>1. row \in Seq(N)
  BY DEF Row
<1>2. \A x \in N : x.index \in Nat /\ x.c \in Candidate
  OBVIOUS
<1> HIDE DEF N
<1>3. Len(row) \in Nat /\ DOMAIN row = 1 .. Len(row) /\ \A m \in DOMAIN row : row[m] \in N
  BY <1>1
<1>4. row # <<>> => Len(row) >= 1
  BY <1>1
<1>5. row # <<>> => Len(row) \in DOMAIN row /\ 1 \in DOMAIN row
  BY <1>3, <1>4
<1> QED
  BY <1>2, <1>3, <1>5

\* The next index of a search is above the vertices of the network.
LEMMA NextIndexAbove ==
  ASSUME NetworkInv, pc = "search"
  PROVE  /\ num_vertices \in Nat /\ next_index \in Nat /\ num_vertices <= next_index
         /\ tr_cs = <<>> => next_index = num_vertices
         /\ tr_cs # <<>> => next_index = tr_cs[Len(tr_cs)][Len(tr_cs[Len(tr_cs)])].index + 1
<1>1. /\ next_index \in Nat /\ tr_cs \in Seq(Row)
      /\ next_index = IF tr_cs = <<>> THEN num_vertices
                      ELSE tr_cs[Len(tr_cs)][Len(tr_cs[Len(tr_cs)])].index + 1
      /\ \A i \in DOMAIN tr_cs : \A m \in DOMAIN tr_cs[i] : num_vertices <= tr_cs[i][m].index
      /\ \A i \in DOMAIN tr_cs : tr_cs[i] # <<>>
  BY DEF NetworkInv, Searching, Numbering, NetworkTypeOK, CandidatesNumbered
<1>2. num_vertices \in Nat
  <2>1. node_id_vec \in Seq(Int) /\ num_vertices \in 0 .. Len(node_id_vec)
    BY DEF NetworkInv, NetworkTypeOK, Containers
  <2>2. Len(node_id_vec) \in Nat
    BY <2>1
  <2> QED
    BY <2>1, <2>2
<1>3. CASE tr_cs = <<>>
  BY <1>1, <1>2, <1>3
<1>4. CASE tr_cs # <<>>
  <2> DEFINE l == Len(tr_cs)
             row == tr_cs[l]
  <2>1. l \in DOMAIN tr_cs /\ row \in Row
    <3> DEFINE S == Row
    <3>1. tr_cs \in Seq(S)
      BY <1>1
    <3> HIDE DEF S
    <3>2. Len(tr_cs) \in Nat /\ DOMAIN tr_cs = 1 .. Len(tr_cs) /\ Len(tr_cs) # 0
      BY <1>4, <3>1
    <3>3. l \in DOMAIN tr_cs
      BY <3>2
    <3> QED
      BY <3>1, <3>3 DEF S
  <2>2. row # <<>>
    BY <1>1, <2>1
  <2>3. Len(row) \in DOMAIN row /\ row[Len(row)].index \in Nat
    BY <2>1, <2>2, RowTyped
  <2>4. num_vertices <= row[Len(row)].index /\ next_index = row[Len(row)].index + 1
    BY <1>1, <1>4, <2>1, <2>3
  <2> HIDE DEF row
  <2> QED
    BY <1>1, <1>2, <1>4, <2>3, <2>4
<1> QED
  BY <1>3, <1>4

\* Candidates are chosen where there are any.
LEMMA ChosenTyped ==
  ASSUME Containers, Indexed, NEW p \in Point, NEW r \in Nat, NEW k \in Nat \ {0},
         NEW cs \in Chosen(WithinRadius(p, r), k), WithinRadius(p, r) # {}
  PROVE  cs \in Seq(Candidate) /\ cs # <<>>
BY NearestOfPoint

\* A point with candidates: they are numbered on from where the last row ended.
LEMMA FoundStep ==
  ASSUME NetworkInv, SearchPoint,
         WithinRadius(request.geom[Len(tr_cs) + 1], request.radius) # {}
  PROVE  NetworkInv'
<1>0. PICK i, p : i = Len(tr_cs) + 1 /\ p = request.geom[i]
  OBVIOUS
<1>1. /\ pc = "search" /\ Len(tr_cs) < Len(request.geom) /\ pc' = pc
      /\ NetworkStays /\ UNCHANGED <<request, mgeom>>
      /\ \E cs \in Chosen(WithinRadius(p, request.radius), request.k) :
            tr_cs' = Append(tr_cs, Numbered(cs)) /\ next_index' = NextIndex(Len(cs))
  BY <1>0 DEF SearchPoint, NetworkStays
<1>2. PICK cs \in Chosen(WithinRadius(p, request.radius), request.k) :
        tr_cs' = Append(tr_cs, Numbered(cs)) /\ next_index' = NextIndex(Len(cs))
  BY <1>1
<1>3. request \in Requests /\ tr_cs \in Seq(Row) /\ Containers /\ Indexed
  BY <1>1 DEF NetworkInv, Searching, NetworkTypeOK
<1>4. i \in 1 .. Len(request.geom) /\ Len(tr_cs) \in Nat /\ Len(request.geom) \in Nat
  <2>1. request.geom \in Seq(Point)
    BY <1>3 DEF Requests
  <2>2. Len(tr_cs) \in Nat /\ Len(request.geom) \in Nat
    BY <1>3, <2>1
  <2> QED
    BY <1>0, <1>1, <2>2
<1>5. p \in Point /\ request.radius \in Nat /\ request.k \in Nat \ {0}
  BY <1>0, <1>3, <1>4, PointOfRequest
<1>6. cs \in Seq(Candidate) /\ cs # <<>>
  <2>1. WithinRadius(p, request.radius) # {}
    BY <1>0
  <2> QED
    BY <1>3, <1>5, <2>1, ChosenTyped
<1>7. PICK row : row = Numbered(cs)
  OBVIOUS
<1>8. /\ num_vertices \in Nat /\ next_index \in Nat /\ num_vertices <= next_index
      /\ tr_cs = <<>> => next_index = num_vertices
      /\ tr_cs # <<>> => next_index = tr_cs[Len(tr_cs)][Len(tr_cs[Len(tr_cs)])].index + 1
  BY <1>1, NextIndexAbove
<1>9. /\ row \in Row /\ row # <<>> /\ Len(row) = Len(cs) /\ Len(row) \in Nat /\ Len(row) >= 1
      /\ DOMAIN row = 1 .. Len(row) /\ DOMAIN cs = 1 .. Len(row)
      /\ \A m \in 1 .. Len(row) : row[m].index = next_index + m - 1 /\ row[m].c = cs[m]
  BY <1>6, <1>7, <1>8, RowNumbered
<1>10. /\ tr_cs' \in Seq(Row) /\ Len(tr_cs') = Len(tr_cs) + 1 /\ tr_cs' # <<>>
       /\ DOMAIN tr_cs = 1 .. Len(tr_cs) /\ DOMAIN tr_cs' = 1 .. Len(tr_cs) + 1
       /\ \A j \in 1 .. Len(tr_cs) : tr_cs'[j] = tr_cs[j]
       /\ tr_cs'[i] = row
       /\ tr_cs = <<>> <=> Len(tr_cs) = 0
  BY <1>0, <1>2, <1>3, <1>7, <1>9, OneRowMore
<1>11. next_index' = next_index + Len(row) /\ next_index' \in Nat
  BY <1>2, <1>8, <1>9 DEF NextIndex
<1>12. NetworkTypeOK' /\ Indexed' /\ UNCHANGED <<edges, rtree, node_id_vec>>
  BY <1>1, <1>11, TypesStay
<1>13. \A j \in DOMAIN tr_cs' : j \in 1 .. Len(tr_cs) \/ j = i
  BY <1>0, <1>4, <1>10
<1>14. ASSUME NEW j \in DOMAIN tr_cs' PROVE ChosenFor(j)'
  <2>1. CASE j \in 1 .. Len(tr_cs)
    <3>1. ChosenFor(j)
      BY <1>10, <2>1 DEF NetworkInv, Searching
    <3> QED
      BY <1>1, <1>10, <1>12, <2>1, <3>1, ChosenStays
  <2>2. CASE j = i
    <3>1. [m \in DOMAIN row |-> row[m].c] = cs
      <4>1. cs = [m \in DOMAIN cs |-> cs[m]]
        BY <1>6
      <4> QED
        BY <1>9, <4>1
    <3>2. tr_cs'[j] = row /\ request'.geom[j] = p /\ request' = request
      BY <1>0, <1>1, <1>10, <2>2
    <3>3. cs \in Chosen(WithinRadius(p, request.radius), request.k)
      BY <1>2
    <3>4. [m \in DOMAIN tr_cs'[j] |-> tr_cs'[j][m].c] = cs
      BY <3>1, <3>2
    <3> QED
      BY <1>12, <3>2, <3>3, <3>4 DEF ChosenFor, WithinRadius, CandidateOn
  <2> QED
    BY <1>13, <2>1, <2>2
<1>15. Searching'
  <2>1. Len(tr_cs') <= Len(request'.geom)
    BY <1>0, <1>1, <1>4, <1>10
  <2> QED
    BY <1>1, <1>3, <1>10, <1>14, <2>1 DEF Searching
<1>16. pc' # "read" /\ added' = {} => num_vertices' = Len(node_id_vec')
  BY <1>1, <1>12 DEF NetworkInv, Numbering, NetworkStays
<1>17. \A j \in DOMAIN tr_cs' : \A m \in DOMAIN tr_cs'[j] : num_vertices' <= tr_cs'[j][m].index
  <2> SUFFICES ASSUME NEW j \in DOMAIN tr_cs', NEW m \in DOMAIN tr_cs'[j]
               PROVE  num_vertices <= tr_cs'[j][m].index
    BY <1>1 DEF NetworkStays
  <2>1. CASE j \in 1 .. Len(tr_cs)
    BY <1>10, <2>1 DEF NetworkInv, Numbering
  <2>2. CASE j = i
    <3>1. m \in 1 .. Len(row) /\ tr_cs'[j] = row
      BY <1>9, <1>10, <2>2
    <3>2. row[m].index = next_index + m - 1 /\ m >= 1 /\ m \in Nat
      BY <1>9, <3>1
    <3> QED
      BY <1>8, <3>1, <3>2
  <2> QED
    BY <1>13, <2>1, <2>2
<1>18. CandidatesNumbered'
  <2> SUFFICES ASSUME NEW j \in DOMAIN tr_cs'
               PROVE  /\ tr_cs'[j] # <<>>
                      /\ tr_cs'[j][1].index =
                           IF j = 1 THEN num_vertices' ELSE tr_cs'[j - 1][Len(tr_cs'[j - 1])].index + 1
                      /\ \A m \in 2 .. Len(tr_cs'[j]) : tr_cs'[j][m].index = tr_cs'[j][m - 1].index + 1
                      /\ added' = {} => \A m \in DOMAIN tr_cs'[j] : tr_cs'[j][m].index \notin NodesSoFar'
    BY DEF CandidatesNumbered
  <2>0. num_vertices' = num_vertices /\ added' = added
    BY <1>1 DEF NetworkStays
  <2>1. ASSUME added' = {}, NEW m \in DOMAIN tr_cs'[j] PROVE tr_cs'[j][m].index \notin NodesSoFar'
    <3>1. num_vertices <= tr_cs'[j][m].index /\ num_vertices = Len(node_id_vec')
      BY <1>1, <1>16, <1>17, <2>0, <2>1
    <3>2. tr_cs'[j][m].index \in Nat
      <4>1. tr_cs'[j] \in Row
        <5> DEFINE S == Row
        <5>1. tr_cs' \in Seq(S)
          BY <1>10
        <5> HIDE DEF S
        <5>2. tr_cs'[j] \in S
          BY <5>1
        <5> QED
          BY <5>2 DEF S
      <4> QED
        BY <2>1, <4>1, RowTyped
    <3> QED
      BY <1>8, <3>1, <3>2 DEF NodesSoFar
  <2>2. CASE j \in 1 .. Len(tr_cs)
    <3>1. /\ tr_cs[j] # <<>>
          /\ tr_cs[j][1].index = IF j = 1 THEN num_vertices ELSE tr_cs[j - 1][Len(tr_cs[j - 1])].index + 1
          /\ \A m \in 2 .. Len(tr_cs[j]) : tr_cs[j][m].index = tr_cs[j][m - 1].index + 1
      BY <1>10, <2>2 DEF NetworkInv, Numbering, CandidatesNumbered
    <3>2. tr_cs'[j] = tr_cs[j] /\ (j # 1 => tr_cs'[j - 1] = tr_cs[j - 1])
      <4>1. j # 1 => j - 1 \in 1 .. Len(tr_cs)
        BY <1>4, <2>2
      <4> QED
        BY <1>10, <2>2, <4>1
    <3> QED
      BY <2>0, <2>1, <3>1, <3>2
  <2>3. CASE j = i
    <3>1. tr_cs'[j] = row /\ 1 \in 1 .. Len(row)
      BY <1>9, <1>10, <2>3
    <3>2. row[1].index = next_index
      <4>1. row[1].index = next_index + 1 - 1
        BY <1>9, <3>1
      <4> QED
        BY <1>8, <4>1
    <3>3. row[1].index = IF j = 1 THEN num_vertices ELSE tr_cs'[j - 1][Len(tr_cs'[j - 1])].index + 1
      <4>1. CASE tr_cs = <<>>
        BY <1>0, <1>4, <1>8, <1>10, <2>3, <3>2, <4>1
      <4>2. CASE tr_cs # <<>>
        <5>1. j - 1 = Len(tr_cs) /\ j - 1 \in 1 .. Len(tr_cs) /\ j # 1
          BY <1>0, <1>4, <1>10, <2>3, <4>2
        <5>2. tr_cs'[j - 1] = tr_cs[Len(tr_cs)]
          BY <1>10, <5>1
        <5> QED
          BY <1>8, <3>2, <4>2, <5>1, <5>2
      <4> QED
        BY <4>1, <4>2
    <3>4. ASSUME NEW m \in 2 .. Len(row) PROVE row[m].index = row[m - 1].index + 1
      <4>1. m \in 1 .. Len(row) /\ m - 1 \in 1 .. Len(row) /\ m \in Nat
        BY <1>9
      <4>2. row[m].index = next_index + m - 1 /\ row[m - 1].index = next_index + (m - 1) - 1
        BY <1>9, <4>1
      <4> QED
        BY <1>8, <4>1, <4>2
    <3> QED
      BY <1>9, <2>0, <2>1, <3>1, <3>3, <3>4
  <2> QED
    BY <1>13, <2>2, <2>3
<1>19. next_index' = tr_cs'[Len(tr_cs')][Len(tr_cs'[Len(tr_cs')])].index + 1
  <2>1. Len(tr_cs') = i /\ tr_cs'[Len(tr_cs')] = row
    BY <1>0, <1>10
  <2>2. Len(row) \in 1 .. Len(row)
    BY <1>9
  <2>3. row[Len(row)].index = next_index + Len(row) - 1
    BY <1>9, <2>2
  <2>4. row[Len(row)].index + 1 = next_index + Len(row)
    BY <1>8, <1>9, <2>3
  <2> QED
    BY <1>11, <2>1, <2>4
<1>20. Numbering'
  BY <1>10, <1>16, <1>17, <1>18, <1>19 DEF Numbering
<1> QED
  BY <1>12, <1>15, <1>20 DEF NetworkInv
-----------------------------------------------------------------------------

\* The numbering outlasts a step that leaves the candidates alone.
LEMMA NumbersStay ==
  ASSUME NetworkInv, NetworkStays, UNCHANGED tr_cs, pc # "read", pc' # "search"
  PROVE  Numbering'
<1>1. UNCHANGED <<node_id_vec, num_vertices, added, tr_cs>>
  BY DEF NetworkStays, store
<1>2. CandidatesNumbered'
  BY <1>1 DEF NetworkInv, Numbering, CandidatesNumbered, NodesSoFar
<1> QED
  BY <1>1, <1>2 DEF NetworkInv, Numbering

\* A search that ends leaves its candidates as they are.
LEMMA SearchOver ==
  ASSUME NetworkInv, NetworkStays, UNCHANGED <<request, tr_cs, next_index>>,
         pc \in {"search", "returned", "crashed"}, pc' \in {"returned", "crashed"},
         pc' = "returned" => tr_cs # <<>>
  PROVE  NetworkInv'
<1>1. next_index' \in Nat
  BY DEF NetworkInv, NetworkTypeOK
<1>2. NetworkTypeOK' /\ Indexed' /\ UNCHANGED <<edges, rtree, node_id_vec>>
  BY <1>1, TypesStay
<1>3. ASSUME NEW i \in DOMAIN tr_cs' PROVE ChosenFor(i)'
  <2>1. ChosenFor(i)
    BY DEF NetworkInv, Searching
  <2> QED
    BY <1>2, <2>1, ChosenStays
<1>4. /\ tr_cs \in Seq(Row)
      /\ pc = "search" \/ tr_cs # <<>> => request \in Requests /\ Len(tr_cs) <= Len(request.geom)
  BY DEF NetworkInv, Searching
<1>5. Searching'
  BY <1>3, <1>4 DEF Searching
<1>6. Numbering'
  BY NumbersStay
<1> QED
  BY <1>2, <1>5, <1>6 DEF NetworkInv

\* The last point of the trajectory has been searched for.
LEMMA EndSearchStep ==
  ASSUME NetworkInv, EndSearch
  PROVE  NetworkInv'
<1>1. /\ pc = "search" /\ Len(tr_cs) = Len(request.geom) /\ pc' = "returned" /\ NetworkStays
      /\ UNCHANGED <<request, tr_cs, next_index>>
  BY DEF EndSearch, NetworkStays
<1>2. request \in Requests
  BY <1>1 DEF NetworkInv, Searching
<1>3. request.geom \in Seq(Point) /\ request.geom # <<>>
  BY <1>2 DEF Requests
<1>4. Len(request.geom) # 0
  BY <1>3
<1>5. tr_cs # <<>>
  BY <1>1, <1>4
<1> QED
  BY <1>1, <1>5, SearchOver

\* A search in a network that was moved from.
LEMMA SearchMovedStep ==
  ASSUME NetworkInv, SearchMoved
  PROVE  NetworkInv'
<1>1. /\ pc = "search" /\ pc' = "crashed" /\ NetworkStays
      /\ UNCHANGED <<request, tr_cs, next_index>>
  BY DEF SearchMoved, NetworkStays
<1> QED
  BY <1>1, SearchOver

\* Drawing a path leaves the network and the candidates alone.
LEMMA ToGeometryStep ==
  ASSUME NetworkInv, ToGeometry
  PROVE  NetworkInv'
<1>1. /\ pc = "ready" /\ pc' = "returned" /\ NetworkStays
      /\ UNCHANGED <<request, tr_cs, next_index>>
      /\ \E line \in Trajs, n \in 1 .. MaxPath : \E path \in [1 .. n -> 0 .. Len(edges) - 1] :
           /\ IsPath(path)
           /\ LET ids == [i \in 1 .. n |-> edges[path[i] + 1].id] IN
              mgeom' = [path |-> path, traj |-> line, line |-> CompletePathToGeometry(line, ids)]
  BY DEF ToGeometry, NetworkStays
<1>2. PICK line \in Trajs, n \in 1 .. MaxPath : \E path \in [1 .. n -> 0 .. Len(edges) - 1] : \E drawn :
        mgeom' = [path |-> path, traj |-> line, line |-> drawn]
  BY <1>1
<1>3. mgeom' # NoGeometry
  <2>1. MaxPath \in Nat
    BY NetworkAssumption
  <2>2. n >= 1
    BY <1>2, <2>1
  <2>3. DOMAIN mgeom'.path = 1 .. n
    <3>1. PICK path \in [1 .. n -> 0 .. Len(edges) - 1] : \E drawn :
            mgeom' = [path |-> path, traj |-> line, line |-> drawn]
      BY <1>2
    <3> QED
      BY <3>1
  <2>4. 1 \in DOMAIN mgeom'.path
    BY <2>1, <2>2, <2>3
  <2>5. NoGeometry.path = <<>> /\ 1 \notin DOMAIN <<>>
    BY DEF NoGeometry
  <2> QED
    BY <2>4, <2>5
<1>4. tr_cs = <<>> /\ next_index' \in Nat
  BY <1>1 DEF NetworkInv, Searching, NetworkTypeOK
<1>5. NetworkTypeOK' /\ Indexed'
  BY <1>1, <1>4, TypesStay
<1>6. DOMAIN tr_cs' = {} /\ tr_cs' \in Seq(Row)
  BY <1>1, <1>4
<1>7. Searching'
  BY <1>1, <1>3, <1>4, <1>6 DEF Searching
<1>8. Numbering'
  BY <1>1, NumbersStay
<1> QED
  BY <1>5, <1>7, <1>8 DEF NetworkInv

\* The caller has taken the result.
LEMMA ReturnedStep ==
  ASSUME NetworkInv, Returned
  PROVE  NetworkInv'
<1>1. pc = "returned" /\ pc' = "ready" /\ tr_cs' = <<>> /\ next_index' = 0 /\ NetworkStays
  BY DEF Returned, NetworkStays
<1>2. NetworkTypeOK' /\ Indexed' /\ UNCHANGED node_id_vec
  BY <1>1, TypesStay
<1>3. pc' # "read" /\ added' = {} => num_vertices' = Len(node_id_vec')
  BY <1>1, <1>2 DEF NetworkInv, Numbering, NetworkStays
<1>4. Searching' /\ Numbering'
  BY <1>1, <1>3, NothingChosen
<1> QED
  BY <1>2, <1>4 DEF NetworkInv

\* A stuttering step.
LEMMA NothingHappens ==
  ASSUME NetworkInv, UNCHANGED network_vars
  PROVE  NetworkInv'
<1>1. /\ NetworkStays /\ UNCHANGED <<request, tr_cs, next_index, mgeom, pc>>
      /\ UNCHANGED <<edges, rtree, node_id_vec, num_vertices, added, features, moved>> /\ UNCHANGED store
  BY DEF network_vars, NetworkStays, store
<1>2. NetworkTypeOK'
  <2>1. Containers'
    BY <1>1, ContainersStay DEF NetworkInv, NetworkTypeOK
  <2> QED
    BY <1>1, <2>1 DEF NetworkInv, NetworkTypeOK
<1>3. Indexed'
  BY <1>1, IndexStays DEF NetworkInv
<1>4. Searching'
  <2>1. ASSUME NEW i \in DOMAIN tr_cs' PROVE ChosenFor(i)'
    <3>1. ChosenFor(i)
      BY <1>1 DEF NetworkInv, Searching
    <3> QED
      BY <1>1, <3>1, ChosenStays
  <2>2. pc' = "returned" /\ tr_cs' = <<>> =>
          mgeom' # NoGeometry \/ (\E i \in DOMAIN request.geom : Near(request.geom[i]) = {})'
    <3>1. pc = "returned" /\ tr_cs = <<>> =>
            mgeom # NoGeometry \/ \E i \in DOMAIN request.geom : Near(request.geom[i]) = {}
      BY DEF NetworkInv, Searching
    <3>2. ASSUME \E i \in DOMAIN request.geom : Near(request.geom[i]) = {}
          PROVE  (\E i \in DOMAIN request.geom : Near(request.geom[i]) = {})'
      BY <1>1, <3>2 DEF Near, DistanceTo
    <3>3. NoGeometry' = NoGeometry
      BY DEF NoGeometry
    <3> QED
      BY <1>1, <3>1, <3>2, <3>3
  <2>3. /\ tr_cs' \in Seq(Row)
        /\ pc' \in {"read", "ready"} => tr_cs' = <<>>
        /\ pc' = "search" \/ tr_cs' # <<>> => request' \in Requests /\ Len(tr_cs') <= Len(request'.geom)
    BY <1>1 DEF NetworkInv, Searching
  <2> QED
    BY <2>1, <2>2, <2>3 DEF Searching
<1>5. Numbering'
  <2>1. CandidatesNumbered'
    BY <1>1 DEF NetworkInv, Numbering, CandidatesNumbered, NodesSoFar
  <2> QED
    BY <1>1, <2>1 DEF NetworkInv, Numbering
<1> QED
  BY <1>2, <1>3, <1>4, <1>5 DEF NetworkInv

\* The invariant holds of a network that is about to be read.
LEMMA NetworkStart ==
  ASSUME NetworkInit
  PROVE  NetworkInv
<1>1. /\ features \in Files /\ edges = <<>> /\ node_id_vec = <<>> /\ vertex_points = <<>>
      /\ node_map = <<>> /\ edge_map = <<>> /\ num_vertices = 0 /\ rtree = {} /\ added = {}
      /\ moved = FALSE /\ pc = "read" /\ tr_cs = <<>> /\ next_index = 0
  BY DEF NetworkInit
<1>2. features \in Seq(Feature)
  BY <1>1, NetworkAssumption
<1>3. NodesSoFar = {} /\ EdgesSoFar = {}
  BY <1>1 DEF NodesSoFar, EdgesSoFar
<1>4. Containers
  <2>1. /\ edges \in Seq(Edge) /\ node_id_vec \in Seq(Int) /\ vertex_points \in Seq(Int \X Int)
        /\ DOMAIN edges = {} /\ DOMAIN node_map = {} /\ DOMAIN edge_map = {}
        /\ DOMAIN vertex_points = {} /\ DOMAIN node_id_vec = {}
    BY <1>1
  <2>2. ToSet(node_id_vec) = {}
    BY <2>1 DEF ToSet
  <2> QED
    BY <1>3, <2>1, <2>2 DEF Containers
<1>5. NetworkTypeOK
  <2>1. num_vertices \in 0 .. Len(node_id_vec) /\ next_index \in Nat
    BY <1>1
  <2> QED
    BY <1>1, <1>2, <1>4, <2>1 DEF NetworkTypeOK
<1>6. Indexed
  <2>1. Cardinality(rtree) = 0 /\ Len(edges) = 0
    BY <1>1, FS_EmptySet
  <2>2. 1 .. Cardinality(rtree) = {}
    BY <2>1
  <2> QED
    BY <1>1, <2>1, <2>2 DEF Indexed
<1>7. DOMAIN tr_cs = {} /\ tr_cs \in Seq(Row)
  BY <1>1
<1>8. Searching
  BY <1>1, <1>7 DEF Searching
<1>9. Numbering
  BY <1>1, <1>7 DEF Numbering, CandidatesNumbered
<1> QED
  BY <1>5, <1>6, <1>8, <1>9 DEF NetworkInv

\* Every step keeps the invariant.
LEMMA NetworkStep ==
  ASSUME NetworkInv, [NetworkNext]_network_vars
  PROVE  NetworkInv'
<1>1. CASE ReadFeature
  BY <1>1, ReadFeatureStep
<1>2. CASE EndRead
  BY <1>2, EndReadStep
<1>3. CASE AddEdge
  BY <1>3, AddEdgeStep
<1>4. CASE BeginSearch
  BY <1>4, BeginSearchStep
<1>5. CASE SearchPoint
  BY <1>5, NoneFoundStep, FoundStep
<1>6. CASE SearchMoved
  BY <1>6, SearchMovedStep
<1>7. CASE EndSearch
  BY <1>7, EndSearchStep
<1>8. CASE ToGeometry
  BY <1>8, ToGeometryStep
<1>9. CASE Returned
  BY <1>9, ReturnedStep
<1>10. CASE Crashed
  BY <1>10, NothingHappens DEF Crashed
<1>11. CASE UNCHANGED network_vars
  BY <1>11, NothingHappens
<1> QED
  BY <1>1, <1>2, <1>3, <1>4, <1>5, <1>6, <1>7, <1>8, <1>9, <1>10, <1>11 DEF NetworkNext

(***************************************************************************)
(* What the candidates are follows from where the search takes them.       *)
(***************************************************************************)
LEMMA CandidatesNearest ==
  ASSUME NetworkInv
  PROVE  NearestChosen
<1>1. Containers /\ Indexed /\ tr_cs \in Seq(Row) /\ \A i \in DOMAIN tr_cs : ChosenFor(i)
  BY DEF NetworkInv, NetworkTypeOK, Searching
<1>2. tr_cs # <<>> => request \in Requests /\ Len(tr_cs) <= Len(request.geom)
  BY DEF NetworkInv, Searching
<1>3. ASSUME NEW i \in DOMAIN tr_cs
      PROVE  /\ \A m \in DOMAIN tr_cs[i] : LocatedOn(tr_cs[i][m].c, request.geom[i], tr_cs[i][m].c.edge)
             /\ TheNearest({ tr_cs[i][m].c.edge : m \in DOMAIN tr_cs[i] }, Len(tr_cs[i]),
                           request.geom[i], Near(request.geom[i]), request.k)
  <2> DEFINE row == tr_cs[i]
             p == request.geom[i]
             r == request.radius
             k == request.k
             cs == [m \in DOMAIN row |-> row[m].c]
  <2>1. i \in 1 .. Len(tr_cs) /\ row \in Row /\ tr_cs # <<>> /\ Len(tr_cs) \in Nat
    <3> DEFINE S == Row
    <3>1. tr_cs \in Seq(S)
      BY <1>1
    <3> HIDE DEF S
    <3>2. i \in 1 .. Len(tr_cs) /\ tr_cs[i] \in S /\ tr_cs # <<>> /\ Len(tr_cs) \in Nat
      BY <3>1
    <3> QED
      BY <3>2 DEF S
  <2>2. p \in Point /\ r \in Nat /\ k \in Nat \ {0}
    <3>1. request \in Requests /\ Len(tr_cs) <= Len(request.geom)
      BY <1>2, <2>1
    <3>2. Len(request.geom) \in Nat
      <4>1. request.geom \in Seq(Point)
        BY <3>1 DEF Requests
      <4> QED
        BY <4>1
    <3>3. i \in 1 .. Len(request.geom)
      BY <2>1, <3>1, <3>2
    <3> QED
      BY <3>1, <3>3, PointOfRequest
  <2>3. cs \in Chosen(WithinRadius(p, r), k)
    BY <1>1 DEF ChosenFor
  <2>4. DOMAIN cs = DOMAIN row /\ \A m \in DOMAIN row : cs[m] = row[m].c
    OBVIOUS
  <2>5. Near(p) = NearBy(p, r)
    BY NearIs
  <2> HIDE DEF cs, p, r, k
  <2>6. /\ Len(cs) \in Nat /\ DOMAIN cs = 1 .. Len(cs)
        /\ \A m \in DOMAIN cs : cs[m].edge \in InTree /\ cs[m] = CandidateOn(p, cs[m].edge)
        /\ TheNearest(EdgesOf(cs), Len(cs), p, NearBy(p, r), k)
    BY <1>1, <2>2, <2>3, NearestOfPoint
  <2> HIDE DEF row
  <2>7. Len(row) = Len(cs)
    <3>1. Len(row) \in Nat /\ DOMAIN row = 1 .. Len(row)
      BY <2>1, RowTyped
    <3>2. \A a, b \in Nat : 1 .. a = 1 .. b => a = b
      <4> SUFFICES ASSUME NEW a \in Nat, NEW b \in Nat, 1 .. a = 1 .. b PROVE a = b
        OBVIOUS
      <4>1. (a # 0 => a \in 1 .. b) /\ (b # 0 => b \in 1 .. a)
        OBVIOUS
      <4> QED
        BY <4>1
    <3>3. 1 .. Len(row) = 1 .. Len(cs) /\ Len(cs) \in Nat
      BY <2>4, <2>6, <3>1
    <3> QED
      BY <3>1, <3>2, <3>3
  <2>8. EdgesOf(cs) = { row[m].c.edge : m \in DOMAIN row }
    BY <2>4 DEF EdgesOf
  <2>9. ASSUME NEW m \in DOMAIN row PROVE LocatedOn(row[m].c, p, row[m].c.edge)
    <3>1. row[m].c.edge \in InTree /\ row[m].c = CandidateOn(p, row[m].c.edge)
      BY <2>4, <2>6
    <3> DEFINE c == row[m].c
               e == c.edge
    <3>2. e \in InTree /\ c = CandidateOn(p, e)
      BY <3>1
    <3> HIDE DEF c, e
    <3>3. LocatedOn(c, p, e)
      BY <1>1, <2>2, <3>2, CandidateLocated
    <3> QED
      BY <3>3 DEF c, e
  <2>10. TheNearest({ row[m].c.edge : m \in DOMAIN row }, Len(row), p, Near(p), k)
    BY <2>5, <2>6, <2>7, <2>8
  <2> QED
    BY <2>9, <2>10 DEF row, p, k
<1>4. OffsetsLocate
  BY <1>3 DEF OffsetsLocate, LocatedOn, Closest
<1>5. pc = "returned" /\ tr_cs = <<>> =>
        mgeom # NoGeometry \/ \E i \in DOMAIN request.geom : Near(request.geom[i]) = {}
  BY DEF NetworkInv, Searching
<1> QED
  BY <1>3, <1>4, <1>5 DEF NearestChosen, TheNearest

(***************************************************************************)
(* The road network's containers agree with each other, its R-tree holds   *)
(* the edges that were read, each row of candidates is a choice of the     *)
(* nearest, and candidates are numbered on from the vertices, at every     *)
(* step of reading, adding, searching and drawing.                         *)
(***************************************************************************)
THEOREM NetworkInvariance == NetworkSpec => []NetworkInv
<1>1. NetworkInit => NetworkInv
  BY NetworkStart
<1>2. NetworkInv /\ [NetworkNext]_network_vars => NetworkInv'
  BY NetworkStep
<1> QED
  BY <1>1, <1>2, PTL DEF NetworkSpec

(***************************************************************************)
(* The containers of the network are typed, and in step: a node id has one *)
(* index, an edge id the first edge that bears it, an edge nodes that      *)
(* exist.                                                                  *)
(***************************************************************************)
THEOREM NetworkTypes == NetworkSpec => []NetworkTypeOK
<1>1. NetworkInv => NetworkTypeOK
  BY DEF NetworkInv
<1> QED
  BY <1>1, NetworkInvariance, PTL

(***************************************************************************)
(* search_tr_cs_knn numbers the candidates of a trajectory apart from each *)
(* other and, in a network as read, from the nodes: the composite graph of *)
(* STMATCH tells them by their numbers alone.                              *)
(***************************************************************************)
THEOREM NumberedApart == NetworkSpec => []CandidatesNumbered
<1>1. NetworkInv => CandidatesNumbered
  BY DEF NetworkInv, Numbering
<1> QED
  BY <1>1, NetworkInvariance, PTL

(***************************************************************************)
(* search_tr_cs_knn answers with the k nearest edges within the radius of  *)
(* each point, each located at its closest point, or with nothing if some  *)
(* point has none: neither boxes, nor the order of ties, nor the cut at k  *)
(* loses one.                                                              *)
(***************************************************************************)
THEOREM NearestFound == NetworkSpec => []NearestChosen
<1>1. NetworkInv => NearestChosen
  BY CandidatesNearest
<1> QED
  BY <1>1, NetworkInvariance, PTL
-----------------------------------------------------------------------------

(***************************************************************************)
(* A line that runs from a to b and is so long.                            *)
(***************************************************************************)
RunsTo(l, a, b, long) ==
  /\ l \in Seq(Point) /\ l # <<>> /\ IsLine(l)
  /\ l[1] = a /\ l[Len(l)] = b /\ LineLength(l) = long

\* What it is for a line to run from a to b over a length.
LEMMA RunTyped ==
  ASSUME NEW l, NEW a, NEW b, NEW n, RunsTo(l, a, b, n)
  PROVE  /\ l \in Seq(Point) /\ Len(l) \in Nat /\ Len(l) >= 1 /\ DOMAIN l = 1 .. Len(l)
         /\ a \in Point /\ b \in Point /\ n \in Nat
         /\ l[1] = a /\ l[Len(l)] = b /\ LengthTo(l, Len(l)) = n
         /\ \A i \in 1 .. Len(l) : l[i] \in Point
         /\ \A i \in 1 .. Len(l) - 1 : Parallel(l[i], l[i + 1])
<1>1. l \in Seq(Point) /\ l # <<>> /\ IsLine(l) /\ l[1] = a /\ l[Len(l)] = b /\ LengthTo(l, Len(l)) = n
  BY DEF RunsTo, LineLength
<1>2. /\ Len(l) \in Nat /\ Len(l) >= 1 /\ DOMAIN l = 1 .. Len(l)
      /\ \A i \in 1 .. Len(l) : l[i] \in Point
  BY <1>1
<1>3. Len(l) \in 1 .. Len(l) /\ 1 \in 1 .. Len(l)
  BY <1>2
<1>4. n \in Nat
  BY <1>1, <1>2, <1>3, LengthsAdd
<1>5. \A i \in 1 .. Len(l) - 1 : Parallel(l[i], l[i + 1])
  BY <1>1 DEF IsLine, Parallel
<1> QED
  BY <1>1, <1>2, <1>3, <1>4, <1>5

\* A single point runs nowhere.
LEMMA PointRuns ==
  ASSUME NEW a \in Point
  PROVE  RunsTo(<< a >>, a, a, 0)
<1> DEFINE l == << a >>
<1>1. l \in Seq(Point) /\ Len(l) = 1 /\ l[1] = a /\ l # <<>>
  OBVIOUS
<1> HIDE DEF l
<1>2. LineLength(l) = 0
  BY <1>1, LengthsAdd DEF LineLength
<1>3. IsLine(l)
  BY <1>1 DEF IsLine
<1> QED
  BY <1>1, <1>2, <1>3 DEF RunsTo, l

\* A segment runs over its own length.
LEMMA PairRuns ==
  ASSUME NEW a \in Point, NEW b \in Point, Parallel(a, b)
  PROVE  RunsTo(<< a, b >>, a, b, Distance(a, b))
<1> DEFINE l == << a, b >>
<1>1. l \in Seq(Point) /\ Len(l) = 2 /\ l[1] = a /\ l[2] = b /\ l # <<>>
  OBVIOUS
<1> HIDE DEF l
<1>2. 1 \in Segments(l) /\ 1 + 1 = 2
  BY <1>1 DEF Segments
<1>3. LengthTo(l, 1) = 0 /\ LengthTo(l, 1 + 1) = LengthTo(l, 1) + Distance(l[1], l[1 + 1])
  BY <1>1, <1>2, LengthsAdd
<1>4. Distance(a, b) \in Nat
  BY DistanceTyped
<1>5. LineLength(l) = Distance(a, b)
  BY <1>1, <1>3, <1>4 DEF LineLength
<1>6. IsLine(l)
  <2>1. \A i \in 1 .. Len(l) - 1 : i = 1
    BY <1>1
  <2> QED
    BY <1>1, <2>1 DEF IsLine, Parallel
<1> QED
  BY <1>1, <1>5, <1>6 DEF RunsTo, l

(***************************************************************************)
(* A line with another behind it, the point where they meet once: what     *)
(* append_segs_to_line makes of them.                                      *)
(***************************************************************************)
LEMMA TailOf ==
  ASSUME NEW l \in Seq(Point), NEW k \in Seq(Point), Len(l) >= 1, Len(k) >= 1,
         l[Len(l)] = k[1], NEW u, u = l \o Tail(k)
  PROVE  /\ u \in Seq(Point) /\ Len(u) = Len(l) + Len(k) - 1 /\ Len(l) \in Nat /\ Len(k) \in Nat
         /\ \A i \in 1 .. Len(l) : u[i] = l[i]
         /\ \A i \in 1 .. Len(k) : u[Len(l) - 1 + i] = k[i]
<1> DEFINE P == Point
<1>1. l \in Seq(P) /\ k \in Seq(P)
  OBVIOUS
<1> HIDE DEF P
<1> DEFINE t == Tail(k)
<1>2. t \in Seq(P) /\ Len(t) = Len(k) - 1 /\ Len(k) \in Nat /\ Len(l) \in Nat /\ \A i \in 1 .. Len(t) : t[i] = k[i + 1]
  <2>1. k # <<>>
    BY <1>1
  <2> QED
    BY <1>1, <2>1
<1> HIDE DEF t
<1>3. /\ u \in Seq(P) /\ Len(u) = Len(l) + Len(t)
      /\ \A n \in 1 .. Len(l) : u[n] = l[n]
      /\ \A n \in 1 .. Len(u) : n \notin 1 .. Len(l) =>
           n - Len(l) \in 1 .. Len(t) /\ u[n] = t[n - Len(l)]
  <2>1. u = l \o t
    BY DEF t
  <2> QED
    BY <1>1, <1>2, <2>1, Appended
<1>4. ASSUME NEW i \in 1 .. Len(k) PROVE u[Len(l) - 1 + i] = k[i]
  <2>1. CASE i = 1
    <3>1. Len(l) - 1 + i = Len(l) /\ Len(l) \in 1 .. Len(l)
      BY <1>2, <2>1
    <3> QED
      BY <1>3, <2>1, <3>1
  <2>2. CASE i # 1
    <3> DEFINE n == Len(l) - 1 + i
    <3>1. n \in 1 .. Len(u) /\ n \notin 1 .. Len(l) /\ n - Len(l) = i - 1 /\ (i - 1) + 1 = i
      BY <1>2, <1>3, <2>2
    <3> HIDE DEF n
    <3>2. i - 1 \in 1 .. Len(t) /\ u[n] = t[i - 1]
      BY <1>3, <3>1
    <3> QED
      BY <1>2, <3>1, <3>2 DEF n
  <2> QED
    BY <2>1, <2>2
<1>5. Len(u) = Len(l) + Len(k) - 1
  BY <1>2, <1>3
<1> QED
  BY <1>2, <1>3, <1>4, <1>5 DEF P

\* Lines that meet, joined as append_segs_to_line joins them.
LEMMA RunsJoin ==
  ASSUME NEW l, NEW k, NEW a, NEW b, NEW c, NEW m, NEW n, RunsTo(l, a, b, m), RunsTo(k, b, c, n)
  PROVE  RunsTo(l \o Tail(k), a, c, m + n)
<1> DEFINE u == l \o Tail(k)
           L == Len(l)
           K == Len(k)
<1>1. /\ l \in Seq(Point) /\ L \in Nat /\ L >= 1 /\ l[1] = a /\ l[L] = b
      /\ LengthTo(l, L) = m /\ m \in Nat
      /\ \A i \in 1 .. L - 1 : Parallel(l[i], l[i + 1])
  BY RunTyped
<1>2. /\ k \in Seq(Point) /\ K \in Nat /\ K >= 1 /\ k[1] = b /\ k[K] = c
      /\ LengthTo(k, K) = n /\ n \in Nat
      /\ \A i \in 1 .. K - 1 : Parallel(k[i], k[i + 1])
  BY RunTyped
<1>3. /\ u \in Seq(Point) /\ Len(u) = L + K - 1
      /\ \A i \in 1 .. L : u[i] = l[i]
      /\ \A i \in 1 .. K : u[L - 1 + i] = k[i]
  BY <1>1, <1>2, TailOf
<1> HIDE DEF u, L, K
<1>4. u[1] = a /\ u[Len(u)] = c /\ u # <<>> /\ Len(u) >= 1
  <2>1. 1 \in 1 .. L /\ K \in 1 .. K /\ Len(u) = L - 1 + K /\ Len(u) >= 1
    BY <1>1, <1>2, <1>3
  <2>2. u[1] = a /\ u[Len(u)] = c
    BY <1>1, <1>2, <1>3, <2>1
  <2> QED
    BY <2>1, <2>2
<1>5. IsLine(u)
  <2> SUFFICES ASSUME NEW i \in 1 .. Len(u) - 1 PROVE Parallel(u[i], u[i + 1])
    BY DEF IsLine, Parallel
  <2>1. CASE i < L
    <3>1. i \in 1 .. L - 1 /\ i \in 1 .. L /\ i + 1 \in 1 .. L
      BY <1>1, <1>2, <1>3, <2>1
    <3> QED
      BY <1>1, <1>3, <3>1
  <2>2. CASE ~ i < L
    <3> DEFINE j == i - L + 1
    <3>1. /\ j \in 1 .. K - 1 /\ j \in 1 .. K /\ j + 1 \in 1 .. K
          /\ L - 1 + j = i /\ L - 1 + (j + 1) = i + 1
      BY <1>1, <1>2, <1>3, <2>2
    <3> HIDE DEF j
    <3>2. u[i] = k[j] /\ u[i + 1] = k[j + 1]
      BY <1>3, <3>1
    <3> QED
      BY <1>2, <3>1, <3>2
  <2> QED
    BY <2>1, <2>2
<1>6. /\ \A i \in 1 .. Len(u) : LengthTo(u, i) \in Nat
      /\ LengthTo(u, 1) = 0
      /\ \A i \in 1 .. Len(u) - 1 : LengthTo(u, i + 1) = LengthTo(u, i) + Distance(u[i], u[i + 1])
  BY <1>3, <1>4, LengthsAdd DEF Segments
<1>7. /\ LengthTo(l, 1) = 0
      /\ \A i \in 1 .. L - 1 : LengthTo(l, i + 1) = LengthTo(l, i) + Distance(l[i], l[i + 1])
  BY <1>1, LengthsAdd DEF Segments, L
<1>8. /\ LengthTo(k, 1) = 0 /\ \A i \in 1 .. K : LengthTo(k, i) \in Nat
      /\ \A i \in 1 .. K - 1 : LengthTo(k, i + 1) = LengthTo(k, i) + Distance(k[i], k[i + 1])
  BY <1>2, LengthsAdd DEF Segments, K
<1>9. LengthTo(u, L) = m
  <2> DEFINE N == L - 1
             T == {i \in 0 .. N : LengthTo(u, i + 1) = LengthTo(l, i + 1)}
  <2>1. N \in Nat /\ N + 1 = L /\ N \in 0 .. N
    BY <1>1
  <2>2. 0 \in T
    BY <1>6, <1>7, <2>1
  <2>3. ASSUME NEW i \in 1 .. N, i - 1 \in T PROVE i \in T
    <3>0. /\ i \in Int /\ 1 <= i /\ i <= N
          /\ N \in Nat /\ N + 1 = L /\ K \in Nat /\ K >= 1 /\ Len(u) = N + K
      <4>1. i \in Int /\ 1 <= i /\ i <= N
        BY <2>1
      <4>2. Len(u) = N + K
        BY <1>1, <1>2, <1>3, <2>1
      <4> QED
        BY <1>2, <2>1, <4>1, <4>2
    <3>1. /\ (i - 1) + 1 = i /\ i \in 0 .. N /\ i \in 1 .. L - 1 /\ i \in 1 .. Len(u) - 1
          /\ i \in 1 .. L /\ i + 1 \in 1 .. L
      <4> HIDE DEF N
      <4> QED
        BY <3>0
    <3>2. LengthTo(u, i) = LengthTo(l, i)
      BY <2>3, <3>1
    <3>3. u[i] = l[i] /\ u[i + 1] = l[i + 1]
      BY <1>3, <3>1
    <3>4. LengthTo(u, i + 1) = LengthTo(l, i + 1)
      BY <1>6, <1>7, <3>1, <3>2, <3>3
    <3> QED
      BY <3>1, <3>4
  <2> HIDE DEF N, T
  <2>4. \A i \in 0 .. N : i \in T
    BY <2>1, <2>2, <2>3, InductionUpTo
  <2>5. N \in T
    BY <2>1, <2>4
  <2>6. LengthTo(u, N + 1) = LengthTo(l, N + 1)
    BY <2>5 DEF T
  <2> QED
    BY <1>1, <2>1, <2>6
<1>10. LengthTo(u, Len(u)) = m + n
  <2> DEFINE N == K - 1
             T == {i \in 0 .. N : LengthTo(u, L + i) = m + LengthTo(k, i + 1)}
  <2>1. N \in Nat /\ N + 1 = K /\ N \in 0 .. N /\ L + N = Len(u)
    <3>1. K \in Nat /\ K >= 1
      BY <1>2
    <3>2. L \in Nat /\ Len(u) = L + K - 1
      BY <1>1, <1>3, <3>1
    <3> QED
      BY ONLY <3>1, <3>2
  <2>2. 0 \in T
    <3>1. L + 0 = L /\ 0 + 1 = 1 /\ m + 0 = m /\ 0 \in 0 .. N
      BY <1>1, <2>1
    <3> QED
      BY <1>8, <1>9, <3>1
  <2>3. ASSUME NEW i \in 1 .. N, i - 1 \in T PROVE i \in T
    <3> DEFINE j == L + i - 1
    <3>0. /\ i \in Int /\ 1 <= i /\ i <= N /\ N \in Nat /\ N + 1 = K
          /\ L \in Nat /\ L >= 1 /\ Len(u) = L + N /\ j = L + i - 1
      <4>1. i \in Int /\ 1 <= i /\ i <= N
        BY <2>1
      <4>2. L \in Nat /\ L >= 1
        BY <1>1
      <4>3. N \in Nat /\ N + 1 = K /\ Len(u) = L + N
        BY ONLY <2>1
      <4> QED
        BY <4>1, <4>2, <4>3
    <3> HIDE DEF j
    <3>1. /\ L + (i - 1) = j /\ (i - 1) + 1 = i /\ i \in 0 .. N /\ j + 1 = L + i
          /\ j \in 1 .. Len(u) - 1 /\ L - 1 + i = j /\ L - 1 + (i + 1) = j + 1
          /\ i \in 1 .. K /\ i + 1 \in 1 .. K /\ i \in 1 .. K - 1
      BY ONLY <3>0
    <3>2. LengthTo(u, j) = m + LengthTo(k, i)
      BY <2>3, <3>1
    <3>3. u[j] = k[i] /\ u[j + 1] = k[i + 1]
      BY <1>3, <3>1
    <3>4. LengthTo(u, j + 1) = LengthTo(u, j) + Distance(k[i], k[i + 1])
      BY <1>6, <3>1, <3>3
    <3>5. LengthTo(k, i + 1) = LengthTo(k, i) + Distance(k[i], k[i + 1])
      BY <1>8, <3>1
    <3>6. Distance(k[i], k[i + 1]) \in Nat
      <4>1. k[i] \in Point /\ k[i + 1] \in Point
        BY <3>1, RunTyped DEF K
      <4> QED
        BY <4>1, DistanceTyped
    <3>7. LengthTo(k, i) \in Nat
      BY <1>8, <3>1
    <3>8. LengthTo(u, j + 1) = m + LengthTo(k, i + 1)
      BY <1>1, <3>2, <3>4, <3>5, <3>6, <3>7
    <3> QED
      BY <3>1, <3>8
  <2> HIDE DEF N, T
  <2>4. \A i \in 0 .. N : i \in T
    BY <2>1, <2>2, <2>3, InductionUpTo
  <2>5. N \in T
    BY <2>1, <2>4
  <2>6. LengthTo(u, L + N) = m + LengthTo(k, N + 1)
    BY <2>5 DEF T
  <2> QED
    BY <1>2, <2>1, <2>6
<1> QED
  BY <1>3, <1>4, <1>5, <1>10 DEF RunsTo, LineLength, u

\* One point more.
LEMMA RunsOn ==
  ASSUME NEW l, NEW a, NEW b, NEW n, RunsTo(l, a, b, n), NEW q \in Point, Parallel(b, q)
  PROVE  RunsTo(l \o << q >>, a, q, n + Distance(b, q))
<1>1. b \in Point
  BY RunTyped
<1>2. RunsTo(<< b, q >>, b, q, Distance(b, q))
  BY <1>1, PairRuns
<1>3. Tail(<< b, q >>) = << q >>
  OBVIOUS
<1>4. RunsTo(l \o Tail(<< b, q >>), a, q, n + Distance(b, q))
  BY <1>2, RunsJoin
<1> QED
  BY <1>3, <1>4
-----------------------------------------------------------------------------

(***************************************************************************)
(* At one offset lies one point: between vertices at one offset the line   *)
(* does not go anywhere.                                                   *)
(***************************************************************************)
LEMMA StandsStill ==
  ASSUME NEW line \in Line, NEW i \in 1 .. Len(line), NEW j \in 1 .. Len(line), i <= j,
         LengthTo(line, i) = LengthTo(line, j)
  PROVE  line[i] = line[j]
<1> DEFINE n == Len(line) - 1
           T == {k \in 0 .. n : i <= k + 1 /\ k + 1 <= j => line[k + 1] = line[i]}
<1>1. /\ n \in Nat /\ Len(line) = n + 1 /\ i \in 1 .. n + 1 /\ j \in 1 .. n + 1
      /\ line \in Seq(Point) /\ \A k \in 1 .. n : k \in Segments(line)
  <2>1. Len(line) \in Nat /\ Len(line) >= 2 /\ line \in Seq(Point)
    BY RoadTyped
  <2> QED
    BY <2>1 DEF Segments
<1> HIDE DEF n
<1>2. 0 \in T
  BY <1>1
<1>3. ASSUME NEW k \in 1 .. n, k - 1 \in T PROVE k \in T
  <2>1. (k - 1) + 1 = k /\ k \in 0 .. n /\ k \in 1 .. n + 1 /\ k + 1 \in 1 .. n + 1 /\ k \in Segments(line)
    BY <1>1
  <2> SUFFICES ASSUME i <= k + 1, k + 1 <= j PROVE line[k + 1] = line[i]
    BY <2>1
  <2>2. CASE i = k + 1
    BY <2>2
  <2>3. CASE i # k + 1
    <3>1. i <= k /\ k <= j
      BY <1>1, <2>1, <2>3
    <3>2. line[k] = line[i]
      BY <1>3, <2>1, <3>1
    <3>3. LengthTo(line, i) <= LengthTo(line, k) /\ LengthTo(line, k + 1) <= LengthTo(line, j)
      BY <1>1, <2>1, <3>1, LengthsGrow
    <3>4. /\ Distance(line[k], line[k + 1]) \in Nat
          /\ (Distance(line[k], line[k + 1]) = 0 <=> line[k] = line[k + 1])
          /\ LengthTo(line, k) \in Nat
          /\ LengthTo(line, k + 1) = LengthTo(line, k) + Distance(line[k], line[k + 1])
      BY <2>1, EndsOfSegment
    <3>5. LengthTo(line, i) \in Nat
      BY <1>1, LengthsAdd
    <3>6. Distance(line[k], line[k + 1]) = 0
      BY <3>3, <3>4, <3>5
    <3> QED
      BY <3>2, <3>4, <3>6
  <2> QED
    BY <2>2, <2>3
<1>4. \A k \in 0 .. n : k \in T
  <2> HIDE DEF T
  <2> QED
    BY <1>1, <1>2, <1>3, InductionUpTo
<1>5. j - 1 \in 0 .. n /\ (j - 1) + 1 = j
  BY <1>1
<1> QED
  BY <1>4, <1>5

\* One point of a line at each offset.
LEMMA OneEach ==
  ASSUME NEW line \in Line, NEW q \in PointsOf(line), NEW r \in PointsOf(line), q.offset = r.offset
  PROVE  q.point = r.point
<1>1. \A s \in PointsOf(line) :
        \E i \in Segments(line), o \in Nat :
          /\ o <= Distance(line[i], line[i + 1]) /\ line[i] # line[i + 1]
          /\ s.point = OnSegment(line[i], line[i + 1], o)
          /\ s.offset = LengthTo(line, i) + o
  <2> TAKE s \in PointsOf(line)
  <2>1. PICK i \in Segments(line) :
          /\ line[i] # line[i + 1]
          /\ \E o \in 0 .. Distance(line[i], line[i + 1]) : s = At(line, i, o)
    BY PointOfLine
  <2>2. PICK o \in 0 .. Distance(line[i], line[i + 1]) : s = At(line, i, o)
    BY <2>1
  <2>3. Distance(line[i], line[i + 1]) \in Nat
    BY EndsOfSegment
  <2>4. o \in Nat /\ o <= Distance(line[i], line[i + 1])
    BY <2>3
  <2>5. s.point = OnSegment(line[i], line[i + 1], o) /\ s.offset = LengthTo(line, i) + o
    BY <2>2 DEF At
  <2> QED
    BY <2>1, <2>4, <2>5
<1>2. ASSUME NEW i \in Segments(line), NEW j \in Segments(line), NEW o \in Nat, NEW u \in Nat, i <= j,
             o <= Distance(line[i], line[i + 1]), line[i] # line[i + 1], line[j] # line[j + 1],
             LengthTo(line, i) + o = LengthTo(line, j) + u
      PROVE  OnSegment(line[i], line[i + 1], o) = OnSegment(line[j], line[j + 1], u)
  <2>1. /\ i \in Int /\ j \in Int /\ i + 1 \in 1 .. Len(line) /\ j \in 1 .. Len(line)
        /\ line \in Seq(Point)
    BY RoadTyped DEF Segments
  <2>2. LengthTo(line, i) \in Nat /\ LengthTo(line, j) \in Nat
    BY EndsOfSegment
  <2>3. CASE i = j
    <3>1. o = u
      BY <1>2, <2>2, <2>3
    <3> QED
      BY <2>3, <3>1
  <2>4. CASE i # j
    <3>1. i + 1 <= j
      BY <1>2, <2>1, <2>4
    <3>2. LengthTo(line, i + 1) <= LengthTo(line, j)
      BY <2>1, <3>1, LengthsGrow
    <3>3. /\ Distance(line[i], line[i + 1]) \in Nat
          /\ LengthTo(line, i + 1) = LengthTo(line, i) + Distance(line[i], line[i + 1])
      BY EndsOfSegment
    <3>4. o = Distance(line[i], line[i + 1]) /\ u = 0 /\ LengthTo(line, i + 1) = LengthTo(line, j)
      BY <1>2, <2>2, <3>2, <3>3
    <3>5. line[i + 1] = line[j]
      BY <2>1, <3>1, <3>4, StandsStill
    <3>6. /\ OnSegment(line[i], line[i + 1], Distance(line[i], line[i + 1])) = line[i + 1]
          /\ OnSegment(line[j], line[j + 1], 0) = line[j]
      BY <1>2, EndsOfSegment
    <3> QED
      BY <3>4, <3>5, <3>6
  <2> QED
    BY <2>3, <2>4
<1>3. PICK i \in Segments(line), o \in Nat :
        /\ o <= Distance(line[i], line[i + 1]) /\ line[i] # line[i + 1]
        /\ q.point = OnSegment(line[i], line[i + 1], o)
        /\ q.offset = LengthTo(line, i) + o
  BY <1>1
<1>4. PICK j \in Segments(line), u \in Nat :
        /\ u <= Distance(line[j], line[j + 1]) /\ line[j] # line[j + 1]
        /\ r.point = OnSegment(line[j], line[j + 1], u)
        /\ r.offset = LengthTo(line, j) + u
  BY <1>1
<1>5. i \in Int /\ j \in Int
  BY RoadTyped DEF Segments
<1>6. LengthTo(line, i) + o = LengthTo(line, j) + u
  BY <1>3, <1>4
<1>7. CASE i <= j
  <2>1. OnSegment(line[i], line[i + 1], o) = OnSegment(line[j], line[j + 1], u)
    BY <1>2, <1>3, <1>4, <1>6, <1>7
  <2> QED
    BY <1>3, <1>4, <2>1
<1>8. CASE j <= i
  <2>1. OnSegment(line[j], line[j + 1], u) = OnSegment(line[i], line[i + 1], o)
    BY <1>2, <1>3, <1>4, <1>6, <1>8
  <2> QED
    BY <1>3, <1>4, <2>1
<1> QED
  BY <1>5, <1>7, <1>8

(***************************************************************************)
(* The point of a line at an offset.                                       *)
(***************************************************************************)
PointAt(line, o) == CHOOSE q : [point |-> q, offset |-> o] \in PointsOf(line)

\* The point at an offset is the one that is there.
LEMMA IsPointAt ==
  ASSUME NEW line \in Line, NEW q, NEW o, [point |-> q, offset |-> o] \in PointsOf(line)
  PROVE  PointAt(line, o) = q
<1>1. [point |-> PointAt(line, o), offset |-> o] \in PointsOf(line)
  BY DEF PointAt
<1> QED
  BY <1>1, OneEach

\* Two points in a direction from a third.
LEMMA AwayApart ==
  ASSUME NEW a \in Point, NEW d \in Directions, NEW s \in Int, NEW t \in Int, s <= t
  PROVE  /\ Away(a, d, s) \in Point /\ Away(a, d, t) \in Point
         /\ Parallel(Away(a, d, s), Away(a, d, t))
         /\ Distance(Away(a, d, s), Away(a, d, t)) = t - s
<1> DEFINE x == a[1]
           y == a[2]
<1>1. x \in Int /\ y \in Int
  BY DEF Point
<1>2. \A p, q, u, v \in Int :
        /\ <<p, q>> \in Point
        /\ Distance(<<p, q>>, <<u, v>>) = Abs(p - u) + Abs(q - v)
        /\ p = u \/ q = v => Parallel(<<p, q>>, <<u, v>>)
  BY DEF Distance, Parallel, Point
<1>3. /\ x + s \in Int /\ x - s \in Int /\ y + s \in Int /\ y - s \in Int
      /\ x + t \in Int /\ x - t \in Int /\ y + t \in Int /\ y - t \in Int
  BY <1>1
<1>4. /\ Away(a, <<1, 0>>, s) = <<x + s, y>> /\ Away(a, <<-1, 0>>, s) = <<x - s, y>>
      /\ Away(a, <<0, 1>>, s) = <<x, y + s>> /\ Away(a, <<0, -1>>, s) = <<x, y - s>>
      /\ Away(a, <<1, 0>>, t) = <<x + t, y>> /\ Away(a, <<-1, 0>>, t) = <<x - t, y>>
      /\ Away(a, <<0, 1>>, t) = <<x, y + t>> /\ Away(a, <<0, -1>>, t) = <<x, y - t>>
  BY AwayFrom
<1> HIDE DEF x, y
<1>5. /\ Abs((x + s) - (x + t)) = t - s /\ Abs((x - s) - (x - t)) = t - s /\ Abs(x - x) = 0
      /\ Abs((y + s) - (y + t)) = t - s /\ Abs((y - s) - (y - t)) = t - s /\ Abs(y - y) = 0
      /\ (t - s) + 0 = t - s /\ 0 + (t - s) = t - s
  BY <1>1 DEF Abs
<1>6. CASE d = <<1, 0>>
  <2>1. Distance(<<x + s, y>>, <<x + t, y>>) = Abs((x + s) - (x + t)) + Abs(y - y)
    BY <1>1, <1>2, <1>3
  <2> QED
    BY <1>1, <1>2, <1>3, <1>4, <1>5, <1>6, <2>1
<1>7. CASE d = <<-1, 0>>
  <2>1. Distance(<<x - s, y>>, <<x - t, y>>) = Abs((x - s) - (x - t)) + Abs(y - y)
    BY <1>1, <1>2, <1>3
  <2> QED
    BY <1>1, <1>2, <1>3, <1>4, <1>5, <1>7, <2>1
<1>8. CASE d = <<0, 1>>
  <2>1. Distance(<<x, y + s>>, <<x, y + t>>) = Abs(x - x) + Abs((y + s) - (y + t))
    BY <1>1, <1>2, <1>3
  <2> QED
    BY <1>1, <1>2, <1>3, <1>4, <1>5, <1>8, <2>1
<1>9. CASE d = <<0, -1>>
  <2>1. Distance(<<x, y - s>>, <<x, y - t>>) = Abs(x - x) + Abs((y - s) - (y - t))
    BY <1>1, <1>2, <1>3
  <2> QED
    BY <1>1, <1>2, <1>3, <1>4, <1>5, <1>9, <2>1
<1> QED
  BY <1>6, <1>7, <1>8, <1>9 DEF Directions

\* A line passes its vertices, and runs straight between them.
LEMMA VertexAt ==
  ASSUME NEW line \in Line, NEW i \in 1 .. Len(line)
  PROVE  PointAt(line, LengthTo(line, i)) = line[i]
BY VerticesOn, IsPointAt DEF Vertex

\* Between two offsets on one segment a line runs straight.
LEMMA RunsStraight ==
  ASSUME NEW line \in Line, NEW i \in Segments(line), NEW x \in Nat, NEW y \in Nat,
         LengthTo(line, i) <= x, x <= y, y <= LengthTo(line, i + 1)
  PROVE  /\ PointAt(line, x) \in Point /\ PointAt(line, y) \in Point
         /\ Parallel(PointAt(line, x), PointAt(line, y))
         /\ Distance(PointAt(line, x), PointAt(line, y)) = y - x
         /\ line[i] # line[i + 1] =>
              PointAt(line, x) = OnSegment(line[i], line[i + 1], x - LengthTo(line, i))
<1> DEFINE a == line[i]
           b == line[i + 1]
           l == LengthTo(line, i)
           D == Distance(a, b)
<1>1. /\ a \in Point /\ b \in Point /\ Parallel(a, b) /\ i \in 1 .. Len(line) /\ i + 1 \in 1 .. Len(line)
  BY RoadTyped
<1>2. /\ D \in Nat /\ (D = 0 <=> a = b) /\ l \in Nat /\ LengthTo(line, i + 1) = l + D
  BY EndsOfSegment
<1>3. CASE a = b
  <2>1. x = l /\ y = l
    <3> HIDE DEF l, D
    <3> QED
      BY <1>2, <1>3 DEF l
  <2>2. PointAt(line, l) = a
    BY <1>1, VertexAt
  <2>3. Distance(a, a) = 0 /\ Parallel(a, a) /\ y - x = 0
    BY <1>1, <1>2, <2>1, DistanceTyped DEF Parallel
  <2> QED
    BY <1>1, <1>3, <2>1, <2>2, <2>3
<1>4. CASE a # b
  <2>1. ASSUME NEW z \in Nat, l <= z, z <= l + D
        PROVE  PointAt(line, z) = OnSegment(a, b, z - l) /\ z - l \in Nat
    <3>1. z - l \in 0 .. D /\ l + (z - l) = z /\ z - l \in Nat
      <4> HIDE DEF l, D
      <4> QED
        BY <1>2, <2>1
    <3>2. At(line, i, z - l) \in PointsOf(line)
      BY <1>4, <3>1, PointOfLine
    <3>3. At(line, i, z - l) = [point |-> OnSegment(a, b, z - l), offset |-> z]
      BY <3>1 DEF At
    <3> QED
      BY <3>1, <3>2, <3>3, IsPointAt
  <2> HIDE DEF a, b, l, D
  <2>2. /\ PointAt(line, x) = OnSegment(a, b, x - l) /\ x - l \in Nat
        /\ PointAt(line, y) = OnSegment(a, b, y - l) /\ y - l \in Nat
    <3>1. l <= x /\ x <= y /\ y <= l + D
      BY <1>2 DEF l
    <3>2. l <= y /\ x <= l + D
      BY <1>2, <3>1
    <3> QED
      BY <2>1, <3>1, <3>2
  <2>3. PICK d \in Directions : \A o \in Int : OnSegment(a, b, o) = Away(a, d, o)
    BY <1>1, <1>4, SegmentRuns
  <2> DEFINE s == x - l
             t == y - l
  <2>4. s \in Int /\ t \in Int /\ s <= t /\ t - s = y - x
    BY <1>2, <2>2
  <2>5. PointAt(line, x) = Away(a, d, s) /\ PointAt(line, y) = Away(a, d, t)
    BY <2>2, <2>3
  <2> HIDE DEF s, t
  <2>6. /\ Away(a, d, s) \in Point /\ Away(a, d, t) \in Point
        /\ Parallel(Away(a, d, s), Away(a, d, t))
        /\ Distance(Away(a, d, s), Away(a, d, t)) = t - s
    BY <1>1, <2>4, AwayApart
  <2> QED
    BY <2>2, <2>4, <2>5, <2>6 DEF a, b, l
<1> QED
  BY <1>3, <1>4
-----------------------------------------------------------------------------

(***************************************************************************)
(* cutoffseg_unique: segment by segment the part cut off grows from the    *)
(* point at the first offset towards the point at the second.              *)
(***************************************************************************)
Maybe(cond, q) == IF cond THEN << q >> ELSE <<>>

\* Appending no point, or one.
LEMMA OnePointMore ==
  ASSUME NEW S, NEW s \in Seq(S), NEW q \in S
  PROVE  /\ s \o <<>> = s /\ <<>> \o <<>> = <<>>
         /\ (<<>> \o << q >>) \o <<>> = << q >> /\ (<<>> \o <<>>) \o << q >> = << q >>
         /\ (s \o << q >>) \o <<>> = s \o << q >>
<1>1. << q >> \in Seq(S) /\ <<>> \in Seq(S) /\ s \o << q >> \in Seq(S)
  OBVIOUS
<1>2. \A t \in Seq(S) : t \o <<>> = t /\ <<>> \o t = t
  OBVIOUS
<1> QED
  BY <1>1, <1>2

StartOf(line, i, o1, o2) ==
  Maybe(o1 <= LengthTo(line, i) /\ LengthTo(line, i) <= o2, PointAt(line, LengthTo(line, i)))
WithinIt(line, i, o) ==
  Maybe(Inside(o, LengthTo(line, i), LengthTo(line, i + 1)), PointAt(line, o))
EndOf(line, i, o2) ==
  Maybe(i = Len(line) - 1 /\ o2 >= LengthTo(line, i + 1), PointAt(line, LengthTo(line, i + 1)))

\* What cutoffseg_unique appends for a segment, in four parts.
LEMMA SegmentCut ==
  ASSUME NEW line \in Line, NEW i \in Segments(line), NEW o1 \in Nat, NEW o2 \in Nat
  PROVE  CutSegment(line, i, o1, o2) =
           StartOf(line, i, o1, o2) \o WithinIt(line, i, o1) \o WithinIt(line, i, o2) \o EndOf(line, i, o2)
<1> DEFINE l1 == LengthTo(line, i)
           l2 == LengthTo(line, i + 1)
<1>1. i \in 1 .. Len(line) /\ i + 1 \in 1 .. Len(line)
  BY RoadTyped
<1>2. PointAt(line, l1) = line[i] /\ PointAt(line, l2) = line[i + 1]
  BY <1>1, VertexAt
<1>3. ASSUME NEW o \in Nat, Inside(o, l1, l2)
      PROVE  OnSegment(line[i], line[i + 1], o - l1) = PointAt(line, o)
  <2>1. l1 < o /\ o < l2
    BY <1>3 DEF Inside
  <2>2. /\ l1 \in Nat /\ l2 = l1 + Distance(line[i], line[i + 1])
        /\ Distance(line[i], line[i + 1]) \in Nat
        /\ (Distance(line[i], line[i + 1]) = 0 <=> line[i] = line[i + 1])
    BY EndsOfSegment
  <2>3. line[i] # line[i + 1] /\ l1 <= o /\ o <= o /\ o <= l2
    BY <2>1, <2>2
  <2> QED
    BY <2>3, RunsStraight
<1> QED
  BY <1>2, <1>3 DEF CutSegment, Maybe, StartOf, WithinIt, EndOf

\* A piece drawn as far as e is drawn on to y by one point.
LEMMA RunsFurther ==
  ASSUME NEW line \in Line, NEW i \in Segments(line), NEW o \in Nat, NEW e \in Nat, NEW y \in Nat,
         LengthTo(line, i) <= e, o <= e, e <= y, y <= LengthTo(line, i + 1),
         NEW s, RunsTo(s, PointAt(line, o), PointAt(line, e), e - o)
  PROVE  RunsTo(s \o << PointAt(line, y) >>, PointAt(line, o), PointAt(line, y), y - o)
<1>1. /\ PointAt(line, y) \in Point /\ Parallel(PointAt(line, e), PointAt(line, y))
      /\ Distance(PointAt(line, e), PointAt(line, y)) = y - e
  BY RunsStraight
<1>2. (e - o) + (y - e) = y - o
  OBVIOUS
<1>3. RunsTo(s \o << PointAt(line, y) >>, PointAt(line, o), PointAt(line, y),
             (e - o) + Distance(PointAt(line, e), PointAt(line, y)))
  BY <1>1, RunsOn
<1> QED
  BY <1>1, <1>2, <1>3

\* What is cut off after i segments: nothing before the first offset.
CutUpTo(line, o1, o2, i, s) ==
  \/ s = <<>> /\ LengthTo(line, i + 1) <= o1
  \/ /\ i \in Segments(line)
     /\ \E e \in Nat :
          /\ o1 <= e /\ e <= o2 /\ e <= LengthTo(line, i + 1)
          /\ e = o2 \/ LengthTo(line, i) <= e
          /\ o2 < LengthTo(line, i + 1) => e = o2
          /\ RunsTo(s, PointAt(line, o1), PointAt(line, e), e - o1)

\* The piece ends where the second offset is within the segment.
LEMMA CutAtSecond ==
  ASSUME NEW line \in Line, NEW i \in Segments(line), NEW o1 \in Nat, NEW o2 \in Nat, NEW e \in Nat,
         NEW l1, l1 = LengthTo(line, i), NEW l2, l2 = LengthTo(line, i + 1),
         o1 <= e, e <= o2, l1 <= e, e <= l2,
         NEW s, RunsTo(s, PointAt(line, o1), PointAt(line, e), e - o1)
  PROVE  CutUpTo(line, o1, o2, i, s \o Maybe(Inside(o2, l1, l2), PointAt(line, o2)))
<1>1. l1 \in Nat /\ l2 \in Nat
  BY EndsOfSegment
<1>2. CASE Inside(o2, l1, l2)
  <2>1. o2 <= l2
    BY <1>1, <1>2 DEF Inside
  <2>2. RunsTo(s \o << PointAt(line, o2) >>, PointAt(line, o1), PointAt(line, o2), o2 - o1)
    BY <2>1, RunsFurther
  <2>3. o1 <= o2 /\ o2 <= o2
    OBVIOUS
  <2> QED
    BY <1>2, <2>1, <2>2, <2>3 DEF CutUpTo, Maybe
<1>3. CASE ~ Inside(o2, l1, l2)
  <2>1. o2 < l2 => e = o2
    BY <1>1, <1>3 DEF Inside
  <2>2. s \o <<>> = s
    BY DEF RunsTo
  <2> QED
    BY <1>3, <2>1, <2>2 DEF CutUpTo, Maybe
<1> QED
  BY <1>2, <1>3

\* After the first three parts of a segment the piece runs as far as it should.
LEMMA CutOneMore ==
  ASSUME NEW line \in Line, NEW i \in Segments(line), NEW o1 \in Nat, NEW o2 \in Nat, o1 <= o2,
         NEW s, CutUpTo(line, o1, o2, i - 1, s)
  PROVE  CutUpTo(line, o1, o2, i,
           ((s \o StartOf(line, i, o1, o2)) \o WithinIt(line, i, o1)) \o WithinIt(line, i, o2))
<1> SUFFICES ASSUME NEW l1, l1 = LengthTo(line, i), NEW l2, l2 = LengthTo(line, i + 1)
             PROVE  CutUpTo(line, o1, o2, i,
                      ((s \o Maybe(o1 <= l1 /\ l1 <= o2, PointAt(line, l1)))
                       \o Maybe(Inside(o1, l1, l2), PointAt(line, o1)))
                      \o Maybe(Inside(o2, l1, l2), PointAt(line, o2)))
  BY DEF StartOf, WithinIt
<1> DEFINE V == Maybe(o1 <= l1 /\ l1 <= o2, PointAt(line, l1))
           A == Maybe(Inside(o1, l1, l2), PointAt(line, o1))
           B == Maybe(Inside(o2, l1, l2), PointAt(line, o2))
<1> SUFFICES CutUpTo(line, o1, o2, i, ((s \o V) \o A) \o B)
  OBVIOUS
<1>1. /\ l1 \in Nat /\ l2 \in Nat /\ l1 <= l2 /\ (i - 1) + 1 = i /\ i \in Int
  <2>1. l1 \in Nat /\ l2 = l1 + Distance(line[i], line[i + 1]) /\ Distance(line[i], line[i + 1]) \in Nat
    BY EndsOfSegment
  <2>2. i \in Int
    BY RoadTyped DEF Segments
  <2> QED
    BY <2>1, <2>2
<1>2. CASE s = <<>> /\ l1 <= o1
  <2>1. CASE o1 = l1
    <3>1. V = << PointAt(line, l1) >> /\ A = <<>>
      BY <1>1, <2>1 DEF Maybe, Inside
    <3>2. PointAt(line, l1) \in Point
      BY <1>1, RunsStraight
    <3>3. (s \o V) \o A = << PointAt(line, l1) >>
      <4> HIDE DEF V, A
      <4>1. <<>> \in Seq(Point)
        OBVIOUS
      <4> QED
        BY <1>2, <3>1, <3>2, <4>1, OnePointMore
    <3>4. RunsTo((s \o V) \o A, PointAt(line, o1), PointAt(line, l1), l1 - o1)
      <4>1. l1 - o1 = 0
        BY <1>1, <2>1
      <4> HIDE DEF V, A
      <4> QED
        BY <2>1, <3>2, <3>3, <4>1, PointRuns
    <3>5. o1 <= l1 /\ l1 <= o2 /\ l1 <= l1
      BY <1>1, <2>1
    <3> HIDE DEF V, A
    <3> QED
      BY <1>1, <3>4, <3>5, CutAtSecond
  <2>2. CASE Inside(o1, l1, l2)
    <3>0. l1 < o1 /\ o1 < l2
      BY <2>2 DEF Inside
    <3>1. V = <<>> /\ A = << PointAt(line, o1) >>
      BY <1>1, <2>2, <3>0 DEF Maybe
    <3>2. (s \o V) \o A = << PointAt(line, o1) >>
      <4>1. PointAt(line, o1) \in Point /\ <<>> \in Seq(Point)
        BY <1>1, <3>0, RunsStraight
      <4> HIDE DEF V, A
      <4> QED
        BY <1>2, <3>1, <4>1, OnePointMore
    <3>3. PointAt(line, o1) \in Point /\ l1 <= o1 /\ o1 <= l2 /\ o1 - o1 = 0
      BY <1>1, <3>0, RunsStraight
    <3>4. RunsTo((s \o V) \o A, PointAt(line, o1), PointAt(line, o1), o1 - o1)
      BY <3>2, <3>3, PointRuns
    <3> QED
      BY <3>3, <3>4, CutAtSecond
  <2>3. CASE o1 # l1 /\ ~ Inside(o1, l1, l2)
    <3>1. l1 < o1 /\ l2 <= o1
      BY <1>1, <1>2, <2>3 DEF Inside
    <3>2. V = <<>> /\ A = <<>> /\ B = <<>>
      BY <1>1, <3>1 DEF Maybe, Inside
    <3>3. ((s \o V) \o A) \o B = <<>>
      BY <1>2, <3>2
    <3> QED
      BY <3>1, <3>3 DEF CutUpTo
  <2> QED
    BY <2>1, <2>2, <2>3
<1>3. ASSUME i - 1 \in Segments(line), NEW e \in Nat,
             o1 <= e, e <= o2, e <= l1, e = o2 \/ LengthTo(line, i - 1) <= e, o2 < l1 => e = o2,
             RunsTo(s, PointAt(line, o1), PointAt(line, e), e - o1)
      PROVE  CutUpTo(line, o1, o2, i, ((s \o V) \o A) \o B)
  <2>0. A = <<>> /\ s \o <<>> = s /\ s \in Seq(Point)
    <3>1. ~ Inside(o1, l1, l2)
      BY <1>1, <1>3 DEF Inside
    <3>2. s \in Seq(Point)
      BY <1>3 DEF RunsTo
    <3> QED
      BY <3>1, <3>2 DEF Maybe
  <2>1. CASE l1 <= o2
    <3>1. V = << PointAt(line, l1) >>
      BY <1>1, <1>3, <2>1 DEF Maybe
    <3>2. LengthTo(line, i - 1) <= e
      <4>1. LengthTo(line, i - 1) <= LengthTo(line, (i - 1) + 1)
        <5>1. /\ Distance(line[i - 1], line[(i - 1) + 1]) \in Nat /\ LengthTo(line, i - 1) \in Nat
              /\ LengthTo(line, (i - 1) + 1) = LengthTo(line, i - 1) + Distance(line[i - 1], line[(i - 1) + 1])
          BY <1>3, EndsOfSegment
        <5> QED
          BY <5>1
      <4>2. e = o2 => e = l1
        BY <1>1, <1>3, <2>1
      <4> QED
        BY <1>1, <1>3, <4>1, <4>2
    <3>3. l1 <= LengthTo(line, (i - 1) + 1)
      BY <1>1
    <3>4. RunsTo(s \o << PointAt(line, l1) >>, PointAt(line, o1), PointAt(line, l1), l1 - o1)
      BY <1>1, <1>3, <3>2, <3>3, RunsFurther
    <3>5. PointAt(line, l1) \in Point
      BY <1>1, RunsStraight
    <3>6. (s \o V) \o A = s \o << PointAt(line, l1) >>
      <4> HIDE DEF V, A
      <4> QED
        BY <2>0, <3>1, <3>5, OnePointMore
    <3> HIDE DEF V, A
    <3>7. RunsTo((s \o V) \o A, PointAt(line, o1), PointAt(line, l1), l1 - o1)
      BY <3>4, <3>6
    <3>8. l1 \in Nat /\ o1 <= l1 /\ l1 <= l1
      BY <1>1, <1>3
    <3> QED
      BY <1>1, <2>1, <3>7, <3>8, CutAtSecond
  <2>2. CASE o2 < l1
    <3>1. V = <<>> /\ B = <<>> /\ e = o2 /\ e <= l2 /\ o1 <= o2
      BY <1>1, <1>3, <2>2 DEF Maybe, Inside
    <3>2. ((s \o V) \o A) \o B = s
      BY <2>0, <3>1
    <3> QED
      BY <1>1, <1>3, <3>1, <3>2 DEF CutUpTo
  <2> QED
    BY <1>1, <1>3, <2>1, <2>2
<1>4. \/ s = <<>> /\ l1 <= o1
      \/ /\ i - 1 \in Segments(line)
         /\ \E e \in Nat :
              /\ o1 <= e /\ e <= o2 /\ e <= l1
              /\ e = o2 \/ LengthTo(line, i - 1) <= e
              /\ o2 < l1 => e = o2
              /\ RunsTo(s, PointAt(line, o1), PointAt(line, e), e - o1)
  BY <1>1 DEF CutUpTo
<1> HIDE DEF V, A, B
<1> QED
  BY <1>2, <1>3, <1>4
-----------------------------------------------------------------------------

\* The pieces cut off one segment after the other.
Pieces(line, o1, o2, cut) ==
  /\ cut[0] = <<>>
  /\ \A i \in Segments(line) :
       cut[i - 1] \in Seq(Point) =>
         cut[i] \in Seq(Point) /\ cut[i] = cut[i - 1] \o CutSegment(line, i, o1, o2)

\* What is appended for a segment is points.
LEMMA SegmentCutTyped ==
  ASSUME NEW line \in Line, NEW i \in Segments(line), NEW o1 \in Nat, NEW o2 \in Nat
  PROVE  CutSegment(line, i, o1, o2) \in Seq(Point)
<1> DEFINE l1 == LengthTo(line, i)
           l2 == LengthTo(line, i + 1)
<1>1. l1 \in Nat /\ l2 \in Nat
  BY EndsOfSegment
<1>2. line[i] \in Point /\ line[i + 1] \in Point
  BY RoadTyped
<1>3. ASSUME NEW o \in Nat, Inside(o, l1, l2)
      PROVE  OnSegment(line[i], line[i + 1], o - l1) \in Point
  <2>1. l1 < o /\ o < l2 /\ o - l1 \in Int
    BY <1>1, <1>3 DEF Inside
  <2>2. /\ l2 = l1 + Distance(line[i], line[i + 1])
        /\ (Distance(line[i], line[i + 1]) = 0 <=> line[i] = line[i + 1])
        /\ line[i] # line[i + 1] => \A z \in Int : OnSegment(line[i], line[i + 1], z) \in Point
    BY EndsOfSegment
  <2>3. line[i] # line[i + 1]
    <3>1. l2 # l1 + 0
      BY <1>1, <2>1
    <3> QED
      BY <2>2, <3>1
  <2> QED
    BY <2>1, <2>2, <2>3
<1> DEFINE V == IF o1 <= l1 /\ l1 <= o2 THEN << line[i] >> ELSE <<>>
           A == IF Inside(o1, l1, l2) THEN << OnSegment(line[i], line[i + 1], o1 - l1) >> ELSE <<>>
           B == IF Inside(o2, l1, l2) THEN << OnSegment(line[i], line[i + 1], o2 - l1) >> ELSE <<>>
           E == IF i = Len(line) - 1 /\ o2 >= l2 THEN << line[i + 1] >> ELSE <<>>
<1>4. CutSegment(line, i, o1, o2) = V \o A \o B \o E
  BY DEF CutSegment
<1> HIDE DEF l1, l2
<1>5. V \in Seq(Point) /\ A \in Seq(Point) /\ B \in Seq(Point) /\ E \in Seq(Point)
  BY <1>2, <1>3
<1> HIDE DEF V, A, B, E
<1> QED
  BY <1>4, <1>5

\* The recursion over the segments has a value.
LEMMA PiecesExist ==
  ASSUME NEW line \in Line, Len(line) # 2, NEW o1 \in Nat, NEW o2 \in Nat
  PROVE  \E cut : /\ Pieces(line, o1, o2, cut)
                  /\ CutoffsegUnique(line, o1, o2) = cut[Len(line) - 1]
<1> DEFINE n == Len(line) - 1
           S == Seq(Point)
           C == [k \in 1 .. n |-> CutSegment(line, k, o1, o2)]
           Body(f) == [i \in 0 .. Len(line) - 1 |->
                         IF i = 0 THEN <<>> ELSE f[i - 1] \o CutSegment(line, i, o1, o2)]
           cut == CHOOSE f : f = Body(f)
           step == [k \in 1 .. n |-> [x \in S |-> x \o C[k]]]
<1>1. n \in Nat /\ Len(line) = n + 1 /\ Segments(line) = 1 .. n /\ <<>> \in S
  <2>1. Len(line) \in Nat /\ Len(line) >= 2
    BY RoadTyped
  <2> QED
    BY <2>1 DEF Segments
<1>2. C \in [1 .. n -> S] /\ \A k \in 1 .. n : C[k] = CutSegment(line, k, o1, o2)
  BY <1>1, SegmentCutTyped
<1>3. \A x, y \in S : x \o y \in S
  OBVIOUS
<1> HIDE DEF C, n, S
<1>4. step \in [1 .. n -> [S -> S]]
  BY <1>2, <1>3
<1>5. PICK f : Recurs(f, n, S, <<>>, step)
  <2> HIDE DEF step
  <2> QED
    BY <1>1, <1>4, RecursionExists DEF StepsWithin
<1>6. f \in [0 .. n -> S] /\ f[0] = <<>> /\ \A k \in 1 .. n : f[k] = step[k][f[k - 1]]
  BY <1>5 DEF Recurs
<1>7. f = Body(f)
  <2>1. \A k \in 0 .. n : k # 0 => k \in 1 .. n /\ k - 1 \in 0 .. n /\ f[k - 1] \in S
    BY <1>1, <1>6
  <2>2. \A k \in 1 .. n : f[k] = f[k - 1] \o CutSegment(line, k, o1, o2)
    <3> SUFFICES ASSUME NEW k \in 1 .. n PROVE f[k] = f[k - 1] \o C[k]
      BY <1>2
    <3>1. step[k] = [x \in S |-> x \o C[k]]
      OBVIOUS
    <3> HIDE DEF step
    <3>2. f[k - 1] \in S /\ f[k] = step[k][f[k - 1]]
      <4>1. k \in 0 .. n /\ k # 0
        BY <1>1
      <4> QED
        BY <1>6, <2>1, <4>1
    <3> QED
      BY <3>1, <3>2
  <2>3. 0 .. n = 0 .. Len(line) - 1
    BY <1>1
  <2>4. \A k \in 0 .. n : f[k] = Body(f)[k]
    BY <1>6, <2>1, <2>2, <2>3
  <2> QED
    BY <1>6, <2>3, <2>4
<1>8. cut = Body(cut)
  <2> HIDE DEF Body
  <2> QED
    BY <1>7
<1>9. CutoffsegUnique(line, o1, o2) = cut[Len(line) - 1]
  BY DEF CutoffsegUnique
<1>10. cut[0] = <<>> /\ \A k \in 1 .. n : cut[k] = cut[k - 1] \o CutSegment(line, k, o1, o2)
  <2> HIDE DEF cut
  <2>1. 0 \in 0 .. n /\ 0 .. n = 0 .. Len(line) - 1 /\ \A k \in 1 .. n : k \in 0 .. n /\ k # 0
    BY <1>1
  <2> QED
    BY <1>8, <2>1
<1> HIDE DEF cut, Body
<1>11. Pieces(line, o1, o2, cut)
  <2>1. ASSUME NEW i \in 1 .. n, cut[i - 1] \in S PROVE cut[i] \in S
    BY <1>2, <1>3, <1>10, <2>1
  <2> QED
    BY <1>1, <1>10, <2>1 DEF Pieces, S
<1> QED
  BY <1>9, <1>11

Sequenced(S, p) == p \in Seq(S)

\* Concatenation of sequences is associative.
LEMMA Joining ==
  ASSUME NEW S, NEW p, NEW q, NEW r, Sequenced(S, p), Sequenced(S, q), Sequenced(S, r)
  PROVE  Sequenced(S, p \o q) /\ (p \o q) \o r = p \o (q \o r)
BY ConcatAssociative DEF Sequenced

\* Four parts appended together or one after the other.
LEMMA FourMore ==
  ASSUME NEW S, NEW p, NEW q, NEW r, NEW s, NEW t, Sequenced(S, p), Sequenced(S, q),
         Sequenced(S, r), Sequenced(S, s), Sequenced(S, t)
  PROVE  /\ Sequenced(S, ((p \o q) \o r) \o s)
         /\ p \o (((q \o r) \o s) \o t) = (((p \o q) \o r) \o s) \o t
<1>1. /\ Sequenced(S, p \o q) /\ Sequenced(S, q \o r)
      /\ (p \o q) \o r = p \o (q \o r)
  BY Joining
<1>2. /\ Sequenced(S, (p \o q) \o r) /\ Sequenced(S, (q \o r) \o s)
      /\ (p \o (q \o r)) \o s = p \o ((q \o r) \o s)
  BY <1>1, Joining
<1>3. /\ Sequenced(S, ((p \o q) \o r) \o s)
      /\ (p \o ((q \o r) \o s)) \o t = p \o (((q \o r) \o s) \o t)
  BY <1>2, Joining
<1> QED
  BY <1>1, <1>2, <1>3

(***************************************************************************)
(* The part of a line between two offsets runs from the point at the one   *)
(* to the point at the other.                                              *)
(***************************************************************************)
LEMMA CutRuns ==
  ASSUME NEW line \in Line, NEW o1 \in Nat, NEW o2 \in Nat, o1 <= o2, o2 <= LineLength(line)
  PROVE  RunsTo(CutoffsegUnique(line, o1, o2), PointAt(line, o1), PointAt(line, o2), o2 - o1)
<1>1. Len(line) \in Nat /\ Len(line) >= 2 /\ line \in Seq(Point) /\ LineLength(line) > 0
  BY RoadTyped
<1>2. LengthTo(line, 1) = 0 /\ LengthTo(line, Len(line)) = LineLength(line)
  BY <1>1, LengthsAdd DEF LineLength
<1>3. CASE Len(line) = 2
  <2>1. 1 \in Segments(line) /\ 1 + 1 = 2
    BY <1>1 DEF Segments
  <2>2. /\ 0 <= o1 /\ 0 <= o2 /\ o2 <= o2 /\ o1 - 0 = o1 /\ o2 - 0 = o2 /\ o2 <= LengthTo(line, 1 + 1)
    BY <1>2, <1>3, <2>1
  <2>3. line[1] # line[1 + 1]
    <3>1. /\ (Distance(line[1], line[1 + 1]) = 0 <=> line[1] = line[1 + 1])
          /\ LengthTo(line, 1 + 1) = LengthTo(line, 1) + Distance(line[1], line[1 + 1])
      BY <2>1, EndsOfSegment
    <3>2. LengthTo(line, 1 + 1) > 0
      BY <1>1, <1>2, <1>3, <2>1
    <3> QED
      BY <1>2, <3>1, <3>2
  <2>4. /\ PointAt(line, o1) \in Point /\ PointAt(line, o2) \in Point
        /\ Parallel(PointAt(line, o1), PointAt(line, o2))
        /\ Distance(PointAt(line, o1), PointAt(line, o2)) = o2 - o1
        /\ PointAt(line, o1) = OnSegment(line[1], line[1 + 1], o1 - LengthTo(line, 1))
    BY <1>2, <2>1, <2>2, <2>3, RunsStraight
  <2>5. PointAt(line, o2) = OnSegment(line[1], line[1 + 1], o2 - LengthTo(line, 1))
    BY <1>2, <2>1, <2>2, <2>3, RunsStraight
  <2>6. CutoffsegUnique(line, o1, o2) = << PointAt(line, o1), PointAt(line, o2) >>
    BY <1>2, <1>3, <2>1, <2>2, <2>4, <2>5 DEF CutoffsegUnique
  <2> QED
    BY <2>4, <2>6, PairRuns
<1>4. CASE Len(line) # 2
  <2>1. PICK cut : /\ Pieces(line, o1, o2, cut)
                   /\ CutoffsegUnique(line, o1, o2) = cut[Len(line) - 1]
    BY <1>4, PiecesExist
  <2> DEFINE n == Len(line) - 1
             v(i) == StartOf(line, i, o1, o2)
             a(i) == WithinIt(line, i, o1)
             b(i) == WithinIt(line, i, o2)
             e(i) == EndOf(line, i, o2)
             w(i) == ((cut[i - 1] \o v(i)) \o a(i)) \o b(i)
  <2>2. n \in Nat /\ n >= 1 /\ Len(line) = n + 1 /\ Segments(line) = 1 .. n
    BY <1>1 DEF Segments
  <2>3. ASSUME NEW i \in 1 .. n, cut[i - 1] \in Seq(Point), CutUpTo(line, o1, o2, i - 1, cut[i - 1])
        PROVE  /\ CutUpTo(line, o1, o2, i, w(i)) /\ w(i) \in Seq(Point)
               /\ cut[i] \in Seq(Point) /\ cut[i] = w(i) \o e(i)
    <3>1. i \in Segments(line) /\ LengthTo(line, i) \in Nat /\ LengthTo(line, i + 1) \in Nat
      BY <2>2, EndsOfSegment
    <3>2. CutUpTo(line, o1, o2, i, w(i))
      BY <2>3, <3>1, CutOneMore
    <3>3. /\ cut[i] \in Seq(Point)
          /\ cut[i] = cut[i - 1] \o CutSegment(line, i, o1, o2)
      BY <2>1, <2>3, <3>1 DEF Pieces
    <3>4. CutSegment(line, i, o1, o2) = v(i) \o a(i) \o b(i) \o e(i)
      BY <3>1, SegmentCut
    <3>5. v(i) \in Seq(Point) /\ a(i) \in Seq(Point) /\ b(i) \in Seq(Point) /\ e(i) \in Seq(Point)
      <4>1. LengthTo(line, i) <= LengthTo(line, i + 1)
        <5>1. /\ Distance(line[i], line[i + 1]) \in Nat
              /\ LengthTo(line, i + 1) = LengthTo(line, i) + Distance(line[i], line[i + 1])
          BY <3>1, EndsOfSegment
        <5> QED
          BY <3>1, <5>1
      <4>2. \A x \in Nat : LengthTo(line, i) <= x /\ x <= LengthTo(line, i + 1) => PointAt(line, x) \in Point
        <5> TAKE x \in Nat
        <5> HAVE LengthTo(line, i) <= x /\ x <= LengthTo(line, i + 1)
        <5>1. x <= x
          OBVIOUS
        <5> QED
          BY <3>1, <5>1, RunsStraight
      <4>3. PointAt(line, LengthTo(line, i)) \in Point /\ PointAt(line, LengthTo(line, i + 1)) \in Point
        BY <3>1, <4>1, <4>2
      <4>4. \A x \in Nat : Inside(x, LengthTo(line, i), LengthTo(line, i + 1)) => PointAt(line, x) \in Point
        BY <3>1, <4>2 DEF Inside
      <4>5. \A cond, q : (cond => q \in Point) => Maybe(cond, q) \in Seq(Point)
        BY DEF Maybe
      <4> QED
        BY <4>3, <4>4, <4>5 DEF StartOf, WithinIt, EndOf
    <3> HIDE DEF v, a, b, e, n
    <3>6. w(i) \in Seq(Point) /\ cut[i] = w(i) \o e(i)
      <4> QED
        <5> DEFINE c == cut[i - 1]
        <5>1. /\ Sequenced(Point, c) /\ Sequenced(Point, v(i)) /\ Sequenced(Point, a(i))
              /\ Sequenced(Point, b(i)) /\ Sequenced(Point, e(i))
          BY <2>3, <3>5 DEF Sequenced
        <5> HIDE DEF c
        <5>2. /\ Sequenced(Point, ((c \o v(i)) \o a(i)) \o b(i))
              /\ c \o (((v(i) \o a(i)) \o b(i)) \o e(i)) = (((c \o v(i)) \o a(i)) \o b(i)) \o e(i)
          BY <5>1, FourMore
        <5>3. cut[i] = c \o (((v(i) \o a(i)) \o b(i)) \o e(i))
          BY <3>3, <3>4 DEF c
        <5>4. w(i) = ((c \o v(i)) \o a(i)) \o b(i)
          BY DEF c
        <5> HIDE DEF w
        <5>5. Sequenced(Point, w(i)) /\ cut[i] = w(i) \o e(i)
          BY <5>2, <5>3, <5>4
        <5> QED
          BY <5>5 DEF Sequenced
    <3> QED
      BY <3>2, <3>3, <3>6
  <2> DEFINE T == {i \in 0 .. n : i < n => cut[i] \in Seq(Point) /\ CutUpTo(line, o1, o2, i, cut[i])}
  <2>4. 0 \in T
    <3>1. cut[0] = <<>> /\ 0 + 1 = 1
      BY <2>1 DEF Pieces
    <3>2. cut[0] \in Seq(Point) /\ CutUpTo(line, o1, o2, 0, cut[0])
      BY <1>2, <3>1 DEF CutUpTo
    <3> QED
      BY <2>2, <3>2
  <2>5. ASSUME NEW i \in 1 .. n, i - 1 \in T PROVE i \in T
    <3> HIDE DEF w, e
    <3>1. CASE i < n
      <4>1. cut[i - 1] \in Seq(Point) /\ CutUpTo(line, o1, o2, i - 1, cut[i - 1])
        <5> HIDE DEF n
        <5> QED
          BY <2>2, <2>5, <3>1
      <4>2. /\ CutUpTo(line, o1, o2, i, w(i)) /\ w(i) \in Seq(Point)
            /\ cut[i] \in Seq(Point) /\ cut[i] = w(i) \o e(i)
        <5> HIDE DEF n, T
        <5> QED
          BY <2>3, <4>1
      <4>3. e(i) = <<>>
        <5>1. i # n
          <6> HIDE DEF n
          <6> QED
            BY <2>2, <3>1
        <5> QED
          BY <5>1 DEF e, n, EndOf, Maybe
      <4>4. cut[i] = w(i)
        BY <4>2, <4>3
      <4> HIDE DEF n
      <4> QED
        BY <2>2, <4>2, <4>4
    <3>2. CASE ~ i < n
      <4> HIDE DEF n
      <4> QED
        BY <2>2, <3>2
    <3> QED
      BY <3>1, <3>2
  <2> HIDE DEF w, e, n
  <2>6. \A i \in 0 .. n : i \in T
    <3> HIDE DEF T
    <3> QED
      BY <2>2, <2>4, <2>5, InductionUpTo
  <2>7. n - 1 \in 0 .. n /\ n - 1 < n /\ n \in 1 .. n
    BY <2>2
  <2>8. cut[n - 1] \in Seq(Point) /\ CutUpTo(line, o1, o2, n - 1, cut[n - 1])
    BY <2>6, <2>7
  <2>9. /\ CutUpTo(line, o1, o2, n, w(n)) /\ w(n) \in Seq(Point) /\ cut[n] = w(n) \o e(n)
    BY <2>3, <2>7, <2>8
  <2> DEFINE L == LineLength(line)
             l == LengthTo(line, n)
  <2>10. LengthTo(line, n + 1) = L /\ n \in Segments(line) /\ l \in Nat /\ L \in Nat /\ l <= L
    <3>1. n \in Segments(line)
      BY <2>2, <2>7
    <3>2. /\ l \in Nat /\ LengthTo(line, n + 1) \in Nat /\ Distance(line[n], line[n + 1]) \in Nat
          /\ LengthTo(line, n + 1) = l + Distance(line[n], line[n + 1])
      BY <3>1, EndsOfSegment
    <3> QED
      BY <1>2, <2>2, <3>1, <3>2
  <2> HIDE DEF L, l
  <2>11. /\ o2 < L => e(n) = <<>>
         /\ o2 >= L => e(n) = << PointAt(line, L) >> /\ o2 = L
    <3>1. o2 <= L
      BY DEF L
    <3>2. o2 < L => ~ (o2 >= L)
      BY <2>10
    <3>3. e(n) = Maybe(n = n /\ o2 >= L, PointAt(line, L))
      BY <2>10 DEF e, n, EndOf
    <3> QED
      BY <2>10, <3>1, <3>2, <3>3 DEF Maybe
  <2>12. \/ w(n) = <<>> /\ L <= o1
         \/ \E x \in Nat :
              /\ o1 <= x /\ x <= o2 /\ x <= L /\ (x = o2 \/ l <= x) /\ (o2 < L => x = o2)
              /\ RunsTo(w(n), PointAt(line, o1), PointAt(line, x), x - o1)
    BY <2>9, <2>10 DEF CutUpTo, l
  <2>13. CASE w(n) = <<>> /\ L <= o1
    <3>1. o2 >= L /\ o1 = o2 /\ o2 - o1 = 0 /\ o1 = L
      BY <2>10, <2>13 DEF L
    <3>2. PointAt(line, L) \in Point
      <4>1. L <= L /\ l <= L /\ L <= LengthTo(line, n + 1)
        BY <2>10
      <4> QED
        BY <2>10, <4>1, RunsStraight DEF l
    <3>3. cut[n] = << PointAt(line, L) >>
      <4>1. cut[n] = <<>> \o << PointAt(line, L) >>
        BY <2>9, <2>11, <2>13, <3>1
      <4> QED
        BY <3>2, <4>1
    <3> QED
      BY <2>1, <3>1, <3>2, <3>3, PointRuns DEF n
  <2>14. ASSUME NEW x \in Nat, o1 <= x, x <= o2, x <= L, x = o2 \/ l <= x, o2 < L => x = o2,
                RunsTo(w(n), PointAt(line, o1), PointAt(line, x), x - o1)
         PROVE  RunsTo(cut[n], PointAt(line, o1), PointAt(line, o2), o2 - o1)
    <3>1. CASE o2 < L
      <4>1. cut[n] = w(n)
        BY <2>9, <2>11, <3>1
      <4> QED
        BY <2>14, <3>1, <4>1
    <3>2. CASE o2 >= L
      <4>1. l <= x /\ x <= L /\ L <= LengthTo(line, n + 1)
        BY <2>10, <2>11, <2>14, <3>2
      <4>2. RunsTo(w(n) \o << PointAt(line, L) >>, PointAt(line, o1), PointAt(line, L), L - o1)
        BY <2>10, <2>14, <4>1, RunsFurther DEF l
      <4> QED
        BY <2>9, <2>11, <3>2, <4>2
    <3> QED
      BY <2>10, <3>1, <3>2
  <2> QED
    BY <2>1, <2>12, <2>13, <2>14 DEF n
<1> QED
  BY <1>3, <1>4
-----------------------------------------------------------------------------

(***************************************************************************)
(* A line as a whole, and its parts up to a point and from a point on.     *)
(***************************************************************************)
LEMMA WholeRuns ==
  ASSUME NEW line \in Line
  PROVE  /\ RunsTo(line, line[1], line[Len(line)], LineLength(line))
         /\ LineLength(line) \in Nat
         /\ PointAt(line, 0) = line[1] /\ PointAt(line, LineLength(line)) = line[Len(line)]
<1>1. /\ line \in Seq(Point) /\ Len(line) \in Nat /\ Len(line) >= 2
      /\ 1 \in 1 .. Len(line) /\ Len(line) \in 1 .. Len(line)
  <2>1. line \in Seq(Point) /\ Len(line) \in Nat /\ Len(line) >= 2
    BY RoadTyped
  <2> QED
    BY <2>1
<1>2. IsLine(line) /\ line # <<>>
  BY <1>1 DEF Line
<1>3. LengthTo(line, 1) = 0 /\ LengthTo(line, Len(line)) \in Nat
  BY <1>1, LengthsAdd
<1> QED
  BY <1>1, <1>2, <1>3, VertexAt DEF RunsTo, LineLength

\* The parts of a line before and after an offset.
LEMMA PartsRun ==
  ASSUME NEW line \in Line, NEW o \in Nat, o <= LineLength(line)
  PROVE  /\ RunsTo(CutFrom(line, o), PointAt(line, o), line[Len(line)], LineLength(line) - o)
         /\ RunsTo(CutTo(line, o), line[1], PointAt(line, o), o)
<1>1. /\ LineLength(line) \in Nat
      /\ PointAt(line, 0) = line[1] /\ PointAt(line, LineLength(line)) = line[Len(line)]
  BY WholeRuns
<1>2. RunsTo(CutoffsegUnique(line, o, LineLength(line)), PointAt(line, o),
             PointAt(line, LineLength(line)), LineLength(line) - o)
  <2>1. LineLength(line) <= LineLength(line)
    BY <1>1
  <2> QED
    BY <1>1, <2>1, CutRuns
<1>3. RunsTo(CutoffsegUnique(line, 0, o), PointAt(line, 0), PointAt(line, o), o - 0)
  BY CutRuns
<1>4. o - 0 = o
  OBVIOUS
<1> QED
  BY <1>1, <1>2, <1>3, <1>4 DEF CutFrom, CutTo

\* Where linear referencing puts a point.
LEMMA ReferencedAt ==
  ASSUME NEW line \in Line, NEW p \in Point, NEW f, f = LinearReferencing(p, line)
  PROVE  /\ f.offset \in Nat /\ f.offset <= LineLength(line)
         /\ PointAt(line, f.offset) = f.point
<1>1. f \in Found /\ [point |-> f.point, offset |-> f.offset] \in PointsOf(line)
  BY Located
<1>2. f.offset \in Nat
  BY <1>1 DEF Found
<1>3. PointAt(line, f.offset) = f.point
  BY <1>1, IsPointAt
<1>4. PICK i \in Segments(line) :
        \E o \in 0 .. Distance(line[i], line[i + 1]) :
          [point |-> f.point, offset |-> f.offset] = At(line, i, o)
  BY <1>1, PointOfLine
<1>5. PICK o \in 0 .. Distance(line[i], line[i + 1]) :
        [point |-> f.point, offset |-> f.offset] = At(line, i, o)
  BY <1>4
<1>6. f.offset = LengthTo(line, i) + o
  BY <1>5 DEF At
<1>7. /\ LengthTo(line, i) \in Nat /\ LengthTo(line, i + 1) \in Nat
      /\ Distance(line[i], line[i + 1]) \in Nat
      /\ LengthTo(line, i + 1) = LengthTo(line, i) + Distance(line[i], line[i + 1])
  BY EndsOfSegment
<1>8. LengthTo(line, i + 1) <= LineLength(line)
  <2>1. line \in Seq(Point) /\ i + 1 \in 1 .. Len(line) /\ Len(line) \in 1 .. Len(line) /\ i + 1 <= Len(line)
    <3>1. line \in Seq(Point) /\ i + 1 \in 1 .. Len(line) /\ Len(line) \in Nat /\ Len(line) >= 2
      BY RoadTyped
    <3> QED
      BY <3>1
  <2> QED
    BY <2>1, LengthsGrow DEF LineLength
<1>9. LineLength(line) \in Nat
  BY WholeRuns
<1>10. f.offset <= LengthTo(line, i + 1)
  BY <1>6, <1>7
<1>11. f.offset <= LineLength(line)
  BY <1>2, <1>7, <1>8, <1>9, <1>10
<1> QED
  BY <1>2, <1>3, <1>11

(***************************************************************************)
(* Lines that meet, one behind the other.                                  *)
(***************************************************************************)
EndOfLine(line) == line[Len(line)]

Meet(n, G) ==
  /\ \A i \in 1 .. n : G[i] \in Line
  /\ \A i \in 1 .. n - 1 : EndOfLine(G[i]) = G[i + 1][1]

AddUp(n, G, upTo) ==
  upTo[0] = 0 /\ \A k \in 1 .. n - 1 : upTo[k] = upTo[k - 1] + LineLength(G[k])

JoinUp(n, G, from, through) ==
  /\ through[0] = CutFrom(G[1], from)
  /\ \A k \in 1 .. n - 2 : through[k] = AppendSegs(through[k - 1], G[k + 1])

\* The roads of a path but the last, joined one by one.
LEMMA ThroughRuns ==
  ASSUME NEW n \in Nat, n >= 2, NEW G, Meet(n, G), NEW from \in Nat, from <= LineLength(G[1]),
         NEW through, JoinUp(n, G, from, through), NEW upTo, AddUp(n, G, upTo)
  PROVE  /\ upTo[n - 1] \in Nat
         /\ RunsTo(through[n - 2], PointAt(G[1], from), EndOfLine(G[n - 1]), upTo[n - 1] - from)
<1> DEFINE N == n - 2
           a == PointAt(G[1], from)
           T == {k \in 0 .. N : /\ upTo[k + 1] \in Nat
                                /\ RunsTo(through[k], a, EndOfLine(G[k + 1]), upTo[k + 1] - from)}
<1>1. N \in Nat /\ n = N + 2 /\ N + 1 = n - 1 /\ n - 2 = N
  OBVIOUS
<1>2. /\ \A k \in 1 .. N : through[k] = AppendSegs(through[k - 1], G[k + 1])
      /\ \A k \in 1 .. N + 1 : upTo[k] = upTo[k - 1] + LineLength(G[k])
      /\ \A k \in 1 .. N + 1 : G[k] \in Line /\ EndOfLine(G[k]) = G[k + 1][1]
  BY <1>1 DEF Meet, AddUp, JoinUp
<1>0. upTo[0] = 0 /\ through[0] = CutFrom(G[1], from)
  BY DEF AddUp, JoinUp
<1> HIDE DEF N
<1>3. 0 \in T
  <2>1. 1 \in 1 .. N + 1 /\ 0 \in 0 .. N /\ 1 - 1 = 0 /\ 0 + 1 = 1
    BY <1>1
  <2>2. G[1] \in Line /\ LineLength(G[1]) \in Nat
    BY <1>2, <2>1, WholeRuns
  <2>3. upTo[1] = LineLength(G[1])
    BY <1>0, <1>2, <2>1, <2>2
  <2>4. RunsTo(through[0], a, EndOfLine(G[1]), LineLength(G[1]) - from)
    BY <1>0, <2>2, PartsRun DEF EndOfLine
  <2> QED
    BY <2>1, <2>2, <2>3, <2>4
<1>4. ASSUME NEW k \in 1 .. N, k - 1 \in T PROVE k \in T
  <2>1. /\ k \in 0 .. N /\ k \in 1 .. N + 1 /\ k + 1 \in 1 .. N + 1
        /\ (k - 1) + 1 = k /\ (k + 1) - 1 = k
    BY <1>1
  <2>2. upTo[k] \in Nat /\ RunsTo(through[k - 1], a, EndOfLine(G[k]), upTo[k] - from)
    BY <1>4, <2>1
  <2>3. G[k + 1] \in Line /\ EndOfLine(G[k]) = G[k + 1][1] /\ LineLength(G[k + 1]) \in Nat
    BY <1>2, <2>1, WholeRuns
  <2>4. RunsTo(G[k + 1], EndOfLine(G[k]), EndOfLine(G[k + 1]), LineLength(G[k + 1]))
    BY <2>3, WholeRuns DEF EndOfLine
  <2>5. RunsTo(through[k - 1] \o Tail(G[k + 1]), a, EndOfLine(G[k + 1]),
               (upTo[k] - from) + LineLength(G[k + 1]))
    BY <2>2, <2>4, RunsJoin
  <2>6. through[k] = through[k - 1] \o Tail(G[k + 1])
    BY <1>2 DEF AppendSegs
  <2>7. upTo[k + 1] = upTo[k] + LineLength(G[k + 1])
    BY <1>2, <2>1
  <2>8. upTo[k + 1] \in Nat /\ (upTo[k] - from) + LineLength(G[k + 1]) = upTo[k + 1] - from
    BY <2>2, <2>3, <2>7
  <2> QED
    BY <2>1, <2>5, <2>6, <2>8
<1>5. \A k \in 0 .. N : k \in T
  <2> HIDE DEF T
  <2> QED
    BY <1>1, <1>3, <1>4, InductionUpTo
<1>6. N \in 0 .. N
  BY <1>1
<1>7. N \in T
  BY <1>5, <1>6
<1> QED
  BY <1>1, <1>7
-----------------------------------------------------------------------------

(***************************************************************************)
(* complete_path_to_geometry joins the parts and the roads between them.   *)
(***************************************************************************)
LEMMA PathJoins ==
  ASSUME NEW traj, NEW path, NEW n \in Nat, n >= 2, Len(path) = n,
         NEW G, \A i \in 1 .. n : GetEdgeGeom(path[i]) = G[i] /\ G[i] \in Line,
         NEW from \in Nat, from = LinearReferencing(traj[1], G[1]).offset, from <= LineLength(G[1]),
         NEW to, to = LinearReferencing(traj[Len(traj)], G[n]).offset
  PROVE  \E through :
           /\ JoinUp(n, G, from, through)
           /\ CompletePathToGeometry(traj, path) = AppendSegs(through[n - 2], CutTo(G[n], to))
<1> DEFINE N == n - 2
           S == Seq(Point)
           a == CutFrom(G[1], from)
           C == [k \in 1 .. N |-> Tail(G[k + 1])]
           Body(f) == [i \in 0 .. Len(path) - 2 |->
                         IF i = 0 THEN CutFrom(GetEdgeGeom(path[1]), from)
                         ELSE AppendSegs(f[i - 1], GetEdgeGeom(path[i + 1]))]
           through == CHOOSE f : f = Body(f)
           step == [k \in 1 .. N |-> [x \in S |-> x \o C[k]]]
<1>1. /\ N \in Nat /\ Len(path) - 2 = N /\ n - 2 = N /\ Len(path) # 1
      /\ 1 \in 1 .. n /\ n \in 1 .. n /\ \A k \in 1 .. N : k + 1 \in 1 .. n
  OBVIOUS
<1>2. a \in S
  <2>1. G[1] \in Line
    BY <1>1
  <2>2. RunsTo(a, PointAt(G[1], from), G[1][Len(G[1])], LineLength(G[1]) - from)
    BY <2>1, PartsRun
  <2> QED
    BY <2>2, RunTyped
<1>3. \A k \in 1 .. N : Tail(G[k + 1]) \in S /\ GetEdgeGeom(path[k + 1]) = G[k + 1]
  <2> TAKE k \in 1 .. N
  <2>1. GetEdgeGeom(path[k + 1]) = G[k + 1] /\ G[k + 1] \in Line
    BY <1>1
  <2> DEFINE l == G[k + 1]
  <2>2. l \in Seq(Point) /\ Len(l) >= 2
    BY <2>1, RoadTyped
  <2> HIDE DEF l
  <2>3. Tail(l) \in Seq(Point)
    <3>1. l # <<>>
      BY <2>2
    <3> QED
      BY <2>2, <3>1
  <2> QED
    BY <2>1, <2>3 DEF l
<1>4. \A x, y \in S : x \o y \in S
  OBVIOUS
<1> HIDE DEF N, S
<1>5. C \in [1 .. N -> S] /\ \A k \in 1 .. N : C[k] = Tail(G[k + 1])
  BY <1>3
<1> HIDE DEF C
<1>6. step \in [1 .. N -> [S -> S]]
  BY <1>4, <1>5
<1>7. PICK f : Recurs(f, N, S, a, step)
  <2> HIDE DEF step, a
  <2> QED
    BY <1>1, <1>2, <1>6, RecursionExists DEF StepsWithin
<1>8. f \in [0 .. N -> S] /\ f[0] = a /\ \A k \in 1 .. N : f[k] = step[k][f[k - 1]]
  BY <1>7 DEF Recurs
<1>9. f = Body(f)
  <2>1. \A k \in 0 .. N : k # 0 => k \in 1 .. N /\ k - 1 \in 0 .. N /\ f[k - 1] \in S
    BY <1>1, <1>8
  <2>2. \A k \in 1 .. N : f[k] = AppendSegs(f[k - 1], GetEdgeGeom(path[k + 1]))
    <3> SUFFICES ASSUME NEW k \in 1 .. N PROVE f[k] = f[k - 1] \o C[k]
      BY <1>3, <1>5 DEF AppendSegs
    <3>1. step[k] = [x \in S |-> x \o C[k]]
      OBVIOUS
    <3> HIDE DEF step
    <3>2. f[k - 1] \in S /\ f[k] = step[k][f[k - 1]]
      <4>1. k \in 0 .. N /\ k # 0
        BY <1>1
      <4> QED
        BY <1>8, <2>1, <4>1
    <3> QED
      BY <3>1, <3>2
  <2>3. 0 .. N = 0 .. Len(path) - 2
    BY <1>1
  <2>4. GetEdgeGeom(path[1]) = G[1]
    BY <1>1
  <2>5. \A k \in 0 .. N : f[k] = Body(f)[k]
    BY <1>8, <2>1, <2>2, <2>3, <2>4
  <2> QED
    BY <1>8, <2>3, <2>5
<1>10. through = Body(through)
  <2> HIDE DEF Body
  <2> QED
    BY <1>9
<1>11. /\ through[0] = a
       /\ \A k \in 1 .. N : through[k] = AppendSegs(through[k - 1], G[k + 1])
  <2> HIDE DEF through
  <2>1. 0 \in 0 .. N /\ 0 .. N = 0 .. Len(path) - 2 /\ \A k \in 1 .. N : k \in 0 .. N /\ k # 0
    BY <1>1
  <2>2. GetEdgeGeom(path[1]) = G[1]
    BY <1>1
  <2>3. through[0] = a
    BY <1>10, <2>1, <2>2
  <2>4. \A k \in 1 .. N : through[k] = AppendSegs(through[k - 1], GetEdgeGeom(path[k + 1]))
    BY <1>10, <2>1
  <2> QED
    BY <1>3, <2>3, <2>4
<1>12. CompletePathToGeometry(traj, path) = AppendSegs(through[Len(path) - 2], CutTo(GetEdgeGeom(path[Len(path)]), to))
  <2>1. GetEdgeGeom(path[1]) = G[1] /\ GetEdgeGeom(path[Len(path)]) = G[n]
    BY <1>1
  <2>2. /\ from = LinearReferencing(traj[1], GetEdgeGeom(path[1])).offset
        /\ to = LinearReferencing(traj[Len(traj)], GetEdgeGeom(path[Len(path)])).offset
    BY <2>1
  <2> QED
    BY <1>1, <2>2 DEF CompletePathToGeometry
<1> HIDE DEF through, Body
<1>13. GetEdgeGeom(path[Len(path)]) = G[n]
  BY <1>1
<1>14. CompletePathToGeometry(traj, path) = AppendSegs(through[N], CutTo(G[n], to))
  BY <1>1, <1>12, <1>13
<1> QED
  BY <1>1, <1>11, <1>14 DEF JoinUp

\* A path of several roads is drawn from the one offset to the other.
LEMMA SeveralRoads ==
  ASSUME NEW traj, NEW path, NEW n \in Nat, n >= 2, Len(path) = n,
         NEW G, Meet(n, G), \A i \in 1 .. n : GetEdgeGeom(path[i]) = G[i],
         NEW from \in Nat, from = LinearReferencing(traj[1], G[1]).offset, from <= LineLength(G[1]),
         NEW to \in Nat, to = LinearReferencing(traj[Len(traj)], G[n]).offset, to <= LineLength(G[n]),
         NEW upTo, AddUp(n, G, upTo)
  PROVE  /\ upTo[n - 1] \in Nat
         /\ RunsTo(CompletePathToGeometry(traj, path), PointAt(G[1], from), PointAt(G[n], to),
                   upTo[n - 1] + to - from)
<1>1. \A i \in 1 .. n : GetEdgeGeom(path[i]) = G[i] /\ G[i] \in Line
  BY DEF Meet
<1>2. PICK through :
        /\ JoinUp(n, G, from, through)
        /\ CompletePathToGeometry(traj, path) = AppendSegs(through[n - 2], CutTo(G[n], to))
  BY <1>1, PathJoins
<1>3. /\ upTo[n - 1] \in Nat
      /\ RunsTo(through[n - 2], PointAt(G[1], from), EndOfLine(G[n - 1]), upTo[n - 1] - from)
  BY <1>2, ThroughRuns
<1>4. G[n] \in Line /\ EndOfLine(G[n - 1]) = G[n][1]
  <2>1. n \in 1 .. n /\ n - 1 \in 1 .. n - 1 /\ (n - 1) + 1 = n
    OBVIOUS
  <2>2. EndOfLine(G[n - 1]) = G[(n - 1) + 1][1]
    BY <2>1 DEF Meet
  <2> QED
    BY <1>1, <2>1, <2>2
<1>5. RunsTo(CutTo(G[n], to), EndOfLine(G[n - 1]), PointAt(G[n], to), to)
  BY <1>4, PartsRun
<1>6. RunsTo(through[n - 2] \o Tail(CutTo(G[n], to)), PointAt(G[1], from), PointAt(G[n], to),
             (upTo[n - 1] - from) + to)
  BY <1>3, <1>5, RunsJoin
<1>7. (upTo[n - 1] - from) + to = upTo[n - 1] + to - from
  BY <1>3
<1> QED
  BY <1>2, <1>3, <1>6, <1>7 DEF AppendSegs

\* A path of one road is cut out of it.
LEMMA OneRoad ==
  ASSUME NEW traj, NEW path, Len(path) = 1, NEW line \in Line, GetEdgeGeom(path[1]) = line,
         NEW from \in Nat, from = LinearReferencing(traj[1], line).offset,
         NEW to \in Nat, to = LinearReferencing(traj[Len(traj)], line).offset,
         from <= to, to <= LineLength(line)
  PROVE  RunsTo(CompletePathToGeometry(traj, path), PointAt(line, from), PointAt(line, to), to - from)
<1>1. CompletePathToGeometry(traj, path) = CutoffsegUnique(line, from, to)
  BY DEF CompletePathToGeometry
<1> QED
  BY <1>1, CutRuns

\* The lengths of the roads of a path add up.
LengthsUpTo(n, upTo) ==
  upTo = CHOOSE f : f = [i \in 0 .. n - 1 |-> IF i = 0 THEN 0 ELSE f[i - 1] + LineLength(Geom(i))]

\* The lengths of the roads before each one.
LEMMA LengthsAlong ==
  ASSUME NEW n \in Nat, n >= 1, \A i \in 1 .. n : Geom(i) \in Line,
         NEW upTo, LengthsUpTo(n, upTo)
  PROVE  upTo[0] = 0 /\ \A k \in 1 .. n - 1 : upTo[k] = upTo[k - 1] + LineLength(Geom(k))
<1> DEFINE N == n - 1
           Body(f) == [i \in 0 .. n - 1 |-> IF i = 0 THEN 0 ELSE f[i - 1] + LineLength(Geom(i))]
           w == [k \in 1 .. N |-> LineLength(Geom(k))]
<1>1. N \in Nat /\ \A k \in 1 .. N : k \in 1 .. n
  OBVIOUS
<1>2. w \in [1 .. N -> Nat]
  BY <1>1, WholeRuns
<1>3. PICK f \in [0 .. N -> Nat] : f[0] = 0 /\ \A k \in 1 .. N : f[k] = f[k - 1] + w[k]
  <2> HIDE DEF N, w
  <2> QED
    BY <1>1, <1>2, TotalsExist
<1>4. f = Body(f)
  <2>1. \A k \in 0 .. N : f[k] = Body(f)[k]
    BY <1>3
  <2> QED
    BY <2>1
<1>5. upTo = Body(upTo)
  <2>1. upTo = CHOOSE g : g = Body(g)
    BY DEF LengthsUpTo
  <2> HIDE DEF Body
  <2> QED
    BY <1>4, <2>1
<1>6. 0 \in 0 .. n - 1 /\ \A k \in 1 .. n - 1 : k \in 0 .. n - 1 /\ k # 0
  OBVIOUS
<1>7. upTo[0] = 0
  BY <1>5, <1>6
<1>8. ASSUME NEW k \in 1 .. n - 1 PROVE upTo[k] = upTo[k - 1] + LineLength(Geom(k))
  BY <1>5, <1>6
<1> QED
  BY <1>7, <1>8
-----------------------------------------------------------------------------

(***************************************************************************)
(* A geometry given was drawn from the edges there are.                    *)
(***************************************************************************)
IdsOf(path) == [i \in 1 .. Len(path) |-> edges[path[i] + 1].id]

GeometryGiven ==
  mgeom # NoGeometry =>
    /\ pc = "returned"
    /\ mgeom.path \in Seq(EdgesSoFar) /\ mgeom.path # <<>> /\ mgeom.traj \in Trajs
    /\ mgeom.line = CompletePathToGeometry(mgeom.traj, IdsOf(mgeom.path))

\* The same edges draw the same line.
LEMMA SameDrawing ==
  ASSUME UNCHANGED <<edges, edge_map>>, NEW traj, NEW path
  PROVE  CompletePathToGeometry(traj, path)' = CompletePathToGeometry(traj, path)
  BY DEF CompletePathToGeometry, GetEdgeGeom

\* A geometry given stays while the edges do.
LEMMA DrawnStays ==
  ASSUME GeometryGiven, UNCHANGED <<store, pc, mgeom>>
  PROVE  GeometryGiven'
<1>1. UNCHANGED <<edges, edge_map, pc, mgeom>>
  BY DEF store
<1>2. ASSUME NEW traj, NEW path
      PROVE  CompletePathToGeometry(traj, path)' = CompletePathToGeometry(traj, path)
  BY <1>1, SameDrawing
<1>3. ASSUME NEW path PROVE IdsOf(path)' = IdsOf(path)
  BY <1>1 DEF IdsOf
<1>4. EdgesSoFar' = EdgesSoFar
  BY <1>1 DEF EdgesSoFar
<1>5. CompletePathToGeometry(mgeom.traj, IdsOf(mgeom.path))' =
        CompletePathToGeometry(mgeom.traj, IdsOf(mgeom.path))
  <2>1. PICK g, p : g = mgeom /\ p = IdsOf(mgeom.path)
    OBVIOUS
  <2>2. mgeom' = g /\ IdsOf(mgeom.path)' = p
    BY <1>1, <1>3, <2>1
  <2> QED
    BY <1>2, <2>1, <2>2
<1> QED
  BY <1>1, <1>4, <1>5 DEF GeometryGiven

\* complete_path_to_geometry, from the ids of the edges of the path.
LEMMA DrawnStep ==
  ASSUME ToGeometry
  PROVE  GeometryGiven'
<1>1. /\ pc' = "returned" /\ UNCHANGED <<edges, edge_map>>
      /\ \E line \in Trajs, n \in 1 .. MaxPath : \E path \in [1 .. n -> 0 .. Len(edges) - 1] :
           mgeom' = [path |-> path, traj |-> line,
                     line |-> CompletePathToGeometry(line, [i \in 1 .. n |-> edges[path[i] + 1].id])]
  BY DEF ToGeometry, store
<1>2. PICK line \in Trajs, n \in 1 .. MaxPath : \E path \in [1 .. n -> 0 .. Len(edges) - 1] :
           mgeom' = [path |-> path, traj |-> line,
                     line |-> CompletePathToGeometry(line, [i \in 1 .. n |-> edges[path[i] + 1].id])]
  BY <1>1
<1>3. PICK path \in [1 .. n -> 0 .. Len(edges) - 1] : \E ids :
           /\ ids = [i \in 1 .. n |-> edges[path[i] + 1].id]
           /\ mgeom' = [path |-> path, traj |-> line, line |-> CompletePathToGeometry(line, ids)]
  BY <1>2
<1>4. n \in Nat /\ n >= 1
  <2>1. MaxPath \in Nat
    BY NetworkAssumption
  <2> QED
    BY <2>1
<1>5. path \in Seq(EdgesSoFar) /\ Len(path) = n /\ path # <<>>
  <2> DEFINE S == 0 .. Len(edges) - 1
  <2>1. path \in [1 .. n -> S]
    OBVIOUS
  <2> HIDE DEF S
  <2>2. path \in Seq(S) /\ Len(path) = n /\ path # <<>>
    BY <1>4, <2>1
  <2> QED
    BY <2>2 DEF S, EdgesSoFar
<1>6. mgeom'.path = path /\ mgeom'.traj = line /\ mgeom'.line = CompletePathToGeometry(line, IdsOf(path))
  <2>1. PICK ids :
           /\ ids = [i \in 1 .. n |-> edges[path[i] + 1].id]
           /\ mgeom' = [path |-> path, traj |-> line, line |-> CompletePathToGeometry(line, ids)]
    BY <1>3
  <2>2. ids = IdsOf(path)
    BY <1>5, <2>1 DEF IdsOf
  <2>3. PICK geometry : geometry = CompletePathToGeometry(line, ids)
    OBVIOUS
  <2>4. mgeom' = [path |-> path, traj |-> line, line |-> geometry]
    BY <2>1, <2>3
  <2>5. mgeom'.path = path /\ mgeom'.traj = line /\ mgeom'.line = geometry
    BY ONLY <2>4
  <2>6. geometry = CompletePathToGeometry(line, IdsOf(path))
    BY ONLY <2>2, <2>3
  <2> QED
    BY <2>5, <2>6
<1>7. ASSUME NEW t, NEW p
      PROVE  CompletePathToGeometry(t, p)' = CompletePathToGeometry(t, p)
  BY <1>1, SameDrawing
<1>8. IdsOf(mgeom.path)' = IdsOf(path) /\ EdgesSoFar' = EdgesSoFar
  BY <1>1, <1>6 DEF IdsOf, EdgesSoFar
<1>9. CompletePathToGeometry(mgeom.traj, IdsOf(mgeom.path))' = CompletePathToGeometry(line, IdsOf(path))
  <2>1. PICK p : p = IdsOf(path)
    OBVIOUS
  <2> QED
    BY <1>6, <1>7, <1>8, <2>1
<1> QED
  BY <1>1, <1>5, <1>6, <1>8, <1>9 DEF GeometryGiven

\* Every step leaves a geometry that was drawn from the edges there are.
LEMMA GeometryStep ==
  ASSUME GeometryGiven, [NetworkNext]_network_vars
  PROVE  GeometryGiven'
<1>1. CASE ReadFeature \/ EndRead \/ AddEdge \/ BeginSearch \/ SearchPoint \/ SearchMoved \/ EndSearch
  <2>1. pc # "returned" /\ mgeom' = mgeom
    BY <1>1 DEF ReadFeature, EndRead, AddEdge, BeginSearch, SearchPoint, SearchMoved, EndSearch
  <2>2. mgeom' = NoGeometry
    BY <2>1 DEF GeometryGiven
  <2> QED
    BY <2>2 DEF GeometryGiven, NoGeometry
<1>2. CASE ToGeometry
  BY <1>2, DrawnStep
<1>3. CASE Returned
  <2>1. mgeom' = NoGeometry
    BY <1>3 DEF Returned
  <2> QED
    BY <2>1 DEF GeometryGiven, NoGeometry
<1>4. CASE Crashed \/ UNCHANGED network_vars
  BY <1>4, DrawnStays DEF Crashed, network_vars
<1> QED
  BY <1>1, <1>2, <1>3, <1>4 DEF NetworkNext

(***************************************************************************)
(* What is drawn along a path whose edges meet.                            *)
(***************************************************************************)
LEMMA PathDrawn ==
  ASSUME Containers, GeometryGiven
  PROVE  GeometryRunsAlong
<1> SUFFICES ASSUME mgeom # NoGeometry, Joined,
                    NEW n, n = Len(mgeom.path),
                    NEW from, from = LinearReferencing(mgeom.traj[1], Geom(1)),
                    NEW to, to = LinearReferencing(mgeom.traj[Len(mgeom.traj)], Geom(n)),
                    NEW upTo, LengthsUpTo(n, upTo),
                    n > 1 \/ from.offset <= to.offset
             PROVE  RunsTo(mgeom.line, from.point, to.point, upTo[n - 1] + to.offset - from.offset)
  BY DEF GeometryRunsAlong, RunsTo, LengthsUpTo
<1> DEFINE path == mgeom.path
           traj == mgeom.traj
           ids == IdsOf(path)
           G == [i \in 1 .. n |-> Geom(i)]
<1>1. /\ path \in Seq(EdgesSoFar) /\ path # <<>> /\ traj \in Trajs
      /\ mgeom.line = CompletePathToGeometry(traj, ids)
  BY DEF GeometryGiven
<1>2. n \in Nat /\ n >= 1 /\ 1 \in 1 .. n /\ n \in 1 .. n /\ \A i \in 1 .. n : path[i] \in EdgesSoFar
  BY <1>1
<1>3. traj[1] \in Point /\ traj[Len(traj)] \in Point
  <2>1. traj \in Seq(Point) /\ traj # <<>>
    BY <1>1, NetworkAssumption DEF Point
  <2> HIDE DEF traj
  <2> QED
    BY <2>1
<1>4. \A i \in 1 .. n : Geom(i) \in Line
  <2> TAKE i \in 1 .. n
  <2>1. edges \in Seq(Edge) /\ Len(edges) \in Nat
    BY DEF Containers
  <2>2. path[i] + 1 \in 1 .. Len(edges)
    BY <1>2, <2>1 DEF EdgesSoFar
  <2>3. edges[path[i] + 1] \in Edge
    BY <2>1, <2>2
  <2> QED
    BY <2>3 DEF Geom, Edge
<1>5. Len(ids) = n /\ \A i \in 1 .. n : GetEdgeGeom(ids[i]) = Geom(i)
  <2>1. \A i \in 1 .. n : ids[i] = edges[path[i] + 1].id
    BY DEF IdsOf
  <2>2. \A i \in 1 .. n : edge_map[edges[path[i] + 1].id] = path[i]
    BY DEF Joined
  <2>3. Len(ids) = n
    <3>1. ids = [i \in 1 .. n |-> edges[path[i] + 1].id]
      BY DEF IdsOf
    <3> HIDE DEF ids
    <3> QED
      BY <1>2, <3>1
  <2> QED
    BY <2>1, <2>2, <2>3 DEF GetEdgeGeom, Geom
<1>6. \A i \in 1 .. n - 1 : Geom(i)[Len(Geom(i))] = Geom(i + 1)[1]
  BY DEF Joined
<1> HIDE DEF path, traj, ids
<1>7. /\ from.offset \in Nat /\ from.offset <= LineLength(Geom(1))
      /\ PointAt(Geom(1), from.offset) = from.point
      /\ to.offset \in Nat /\ to.offset <= LineLength(Geom(n))
      /\ PointAt(Geom(n), to.offset) = to.point
  <2>1. Geom(1) \in Line /\ Geom(n) \in Line
    BY <1>2, <1>4
  <2>2. from = LinearReferencing(traj[1], Geom(1)) /\ to = LinearReferencing(traj[Len(traj)], Geom(n))
    BY DEF traj
  <2> QED
    BY <1>3, <2>1, <2>2, ReferencedAt
<1>8. upTo[0] = 0 /\ \A k \in 1 .. n - 1 : upTo[k] = upTo[k - 1] + LineLength(Geom(k))
  BY <1>2, <1>4, LengthsAlong
<1> DEFINE x == from.offset
           y == to.offset
<1>9. x = LinearReferencing(traj[1], Geom(1)).offset /\ y = LinearReferencing(traj[Len(traj)], Geom(n)).offset
  BY DEF traj
<1>10. CASE n = 1
  <2>1. GetEdgeGeom(ids[1]) = Geom(1) /\ Geom(1) \in Line /\ Len(ids) = 1
    BY <1>2, <1>4, <1>5, <1>10
  <2>2. x \in Nat /\ y \in Nat /\ x <= y /\ y <= LineLength(Geom(1))
    BY <1>7, <1>10
  <2>3. PointAt(Geom(1), x) = from.point /\ PointAt(Geom(1), y) = to.point
    BY <1>7, <1>10
  <2>4. x = LinearReferencing(traj[1], Geom(1)).offset /\ y = LinearReferencing(traj[Len(traj)], Geom(1)).offset
    BY <1>9, <1>10
  <2>5. upTo[n - 1] = 0
    <3>1. n - 1 = 0
      BY <1>10
    <3> QED
      BY <1>8, <3>1
  <2> HIDE DEF x, y
  <2>6. RunsTo(CompletePathToGeometry(traj, ids), PointAt(Geom(1), x), PointAt(Geom(1), y), y - x)
    BY <2>1, <2>2, <2>4, OneRoad
  <2>7. upTo[n - 1] + y - x = y - x
    BY <2>2, <2>5
  <2>8. RunsTo(mgeom.line, from.point, to.point, upTo[n - 1] + y - x)
    BY <1>1, <2>3, <2>6, <2>7
  <2> QED
    BY <2>8 DEF x, y
<1>11. CASE n # 1
  <2>1. n \in Nat /\ n >= 2 /\ Len(ids) = n
    <3>1. n \in Nat /\ n >= 1
      BY <1>2
    <3>2. Len(ids) = n
      BY <1>5
    <3>3. n >= 2
      BY ONLY <1>11, <3>1
    <3> QED
      BY <3>1, <3>2, <3>3
  <2>2. G[1] = Geom(1) /\ G[n] = Geom(n) /\ \A i \in 1 .. n : GetEdgeGeom(ids[i]) = G[i]
    BY <1>2, <1>5
  <2>3. Meet(n, G) /\ AddUp(n, G, upTo)
    <3>1. \A i \in 1 .. n - 1 : i \in 1 .. n /\ i + 1 \in 1 .. n
      BY <2>1
    <3> QED
      BY <1>4, <1>6, <1>8, <3>1 DEF EndOfLine, Meet, AddUp
  <2> HIDE DEF G, x, y
  <2>4. /\ x \in Nat /\ x <= LineLength(G[1]) /\ PointAt(G[1], x) = from.point
        /\ y \in Nat /\ y <= LineLength(G[n]) /\ PointAt(G[n], y) = to.point
        /\ x = LinearReferencing(traj[1], G[1]).offset
        /\ y = LinearReferencing(traj[Len(traj)], G[n]).offset
    BY <1>7, <1>9, <2>2 DEF x, y
  <2>5. RunsTo(CompletePathToGeometry(traj, ids), PointAt(G[1], x), PointAt(G[n], y), upTo[n - 1] + y - x)
    BY <2>1, <2>2, <2>3, <2>4, SeveralRoads
  <2>6. RunsTo(mgeom.line, from.point, to.point, upTo[n - 1] + y - x)
    BY <1>1, <2>4, <2>5
  <2> QED
    BY <2>6 DEF x, y
<1> QED
  BY <1>10, <1>11

(***************************************************************************)
(* Between the points closest to the first and the last GPS point, the     *)
(* geometry of a path follows its roads without a gap, and is as long.     *)
(***************************************************************************)
THEOREM GeometryAlong == NetworkSpec => []GeometryRunsAlong
<1>1. NetworkInit => GeometryGiven
  BY DEF NetworkInit, GeometryGiven
<1>2. GeometryGiven /\ [NetworkNext]_network_vars => GeometryGiven'
  BY GeometryStep
<1>3. NetworkInv /\ GeometryGiven => GeometryRunsAlong
  BY PathDrawn DEF NetworkInv, NetworkTypeOK
<1> QED
  BY <1>1, <1>2, <1>3, NetworkInvariance, PTL DEF NetworkSpec
=============================================================================
