----------------------------- MODULE UBODTTable -----------------------------
(***************************************************************************)
(* The hash table behind the UBODT and its reader (mm/fmm/ubodt.cpp):      *)
(* read_ubodt_csv and read_ubodt_binary size the table from the bytes of   *)
(* the file, then insert one record per row; look_up walks the chain of a  *)
(* bucket.  The state between two rows is visible, so each action is one   *)
(* turn of the read loop.                                                  *)
(***************************************************************************)
EXTENDS Integers, Sequences

CONSTANTS
  NumNodes,     \* nodes of the network the table was made for
  Costs,        \* distances a row may carry
  Multiplier,   \* argument of the reader
  Primes,       \* the ladder of table sizes of find_prime_number
  LoadFactor,   \* LOAD_FACTOR
  RowSize,      \* bytes of a row of the file
  IntRange,     \* number of values of an int: 2^32 in the code
  MaxRows       \* longest file considered (bound of the model)

ASSUME TableAssumption ==
  /\ NumNodes \in Nat \ {0}
  /\ Costs \subseteq Nat
  /\ Multiplier \in Nat
  /\ Primes \in Seq(Nat \ {0}) /\ Primes # <<>>
  /\ LoadFactor \in Nat \ {0}
  /\ RowSize \in Nat \ {0}
  /\ IntRange \in Nat \ {0}
  /\ MaxRows \in Nat

NodeIndex == 0 .. NumNodes - 1
Pair == NodeIndex \X NodeIndex
Record == [source : NodeIndex, target : NodeIndex, cost : Costs]

\* nullptr, the result of look_up when no record matches.
Null == [source |-> -1, target |-> -1, cost |-> -1]

VARIABLES
  file,        \* rows not read yet
  size,        \* number of rows the file had
  buckets,     \* buckets of the table, 0 before it is constructed
  hashtable,   \* bucket index |-> chain of records, head first
  num_rows,
  delta        \* the largest cost inserted

vars == <<file, size, buckets, hashtable, num_rows, delta>>

-----------------------------------------------------------------------------
\* Truncating division, as C++ divides an int.
Quotient(a, b) == IF a >= 0 THEN a \div b ELSE -((-a) \div b)

\* The value an int holds after it is assigned n >= 0.
AsInt(n) == LET r == n % IntRange
            IN  IF 2 * r >= IntRange THEN r - IntRange ELSE r

\* estimate_ubodt_rows: the size of the file goes through an int.
EstimateRows(bytes) == Quotient(AsInt(bytes), RowSize)

\* find_prime_number(rows / LOAD_FACTOR): the first step of the ladder that
\* is large enough, or its last step.
FindPrime(rows) ==
  LET enough == {i \in DOMAIN Primes : rows <= LoadFactor * Primes[i]}
  IN  IF enough = {} THEN Primes[Len(Primes)]
      ELSE Primes[CHOOSE i \in enough : \A j \in enough : i <= j]

CalBucketIndex(b, s, t) == (s * Multiplier + t) % b

\* Fault seed: the target is not compared.
MatchesSource(r, s, t) == r.source = s

Matches(r, s, t) == r.source = s /\ r.target = t

IsFirstMatch(chain, i, s, t) ==
  /\ i \in 1 .. Len(chain)
  /\ Matches(chain[i], s, t)
  /\ \A j \in 1 .. i - 1 : ~ Matches(chain[j], s, t)

\* The walk of look_up along a chain.
Walk(chain, s, t) ==
  IF \E i \in 1 .. Len(chain) : IsFirstMatch(chain, i, s, t)
  THEN chain[CHOOSE i \in 1 .. Len(chain) : IsFirstMatch(chain, i, s, t)]
  ELSE Null

\* look_up; the table cannot be asked before it is constructed.
LookUp(s, t) ==
  IF buckets = 0 THEN Null
  ELSE Walk(hashtable[CalBucketIndex(buckets, s, t)], s, t)

\* Fault seed: the record is filed from its target to its source.
BucketBackwards(r) == CalBucketIndex(buckets, r.target, r.source)

\* The bucket insert files a record in.
BucketOf(r) == CalBucketIndex(buckets, r.source, r.target)

Link(r, chain) == <<r>> \o chain

-----------------------------------------------------------------------------
Init ==
  /\ file \in UNION {[1 .. n -> Record] : n \in 0 .. MaxRows}
  /\ size = Len(file)
  /\ buckets = 0
  /\ hashtable = <<>>
  /\ num_rows = 0
  /\ delta = 0

\* The table is constructed with the size estimated from the file.
Construct ==
  /\ buckets = 0
  /\ buckets' = FindPrime(EstimateRows(RowSize * size))
  /\ hashtable' = [h \in 0 .. buckets' - 1 |-> <<>>]
  /\ UNCHANGED <<file, size, num_rows, delta>>

\* One turn of the read loop: parse a row and insert it.
Insert ==
  /\ buckets # 0
  /\ file # <<>>
  /\ LET r == Head(file) IN
     /\ hashtable' = [hashtable EXCEPT ![BucketOf(r)] = Link(r, @)]
     /\ delta' = IF r.cost > delta THEN r.cost ELSE delta
  /\ num_rows' = num_rows + 1
  /\ file' = Tail(file)
  /\ UNCHANGED <<size, buckets>>

\* The file is read; the table serves look_up and does not change.
Serving == buckets # 0 /\ file = <<>> /\ UNCHANGED vars

Next == Construct \/ Insert \/ Serving

Spec == Init /\ [][Next]_vars

-----------------------------------------------------------------------------
TypeOK ==
  /\ file \in Seq(Record)
  /\ size \in Nat
  /\ buckets \in Nat
  /\ hashtable \in [0 .. buckets - 1 -> Seq(Record)]
  /\ num_rows \in Nat
  /\ delta \in Nat

\* Every record is in the chain of the bucket its pair hashes to, where
\* look_up will walk past it.
InItsBucket ==
  \A h \in 0 .. buckets - 1 : \A i \in 1 .. Len(hashtable[h]) :
    LET r == hashtable[h][i] IN h = CalBucketIndex(buckets, r.source, r.target)

\* What every step preserves.
IInv == TypeOK /\ InItsBucket

(***************************************************************************)
(* The table implements the map: a look_up of any pair finds the record    *)
(* inserted last for exactly that pair, whatever shares its bucket.        *)
(***************************************************************************)
Abstract == INSTANCE OriginDestinationMap
              WITH Pairs <- Pair, Values <- Record, None <- Null,
                   map <- [p \in Pair |-> LookUp(p[1], p[2])]

ImplementsMap == Abstract!Spec
=============================================================================
