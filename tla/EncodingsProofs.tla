-------------------------- MODULE EncodingsProofs --------------------------
(***************************************************************************)
(* Proofs about the algorithms that run inside one call: the retry loop,   *)
(* for all options; signHash, for every coordinate width and byte value    *)
(* for which the short DER length form is legal; and canonicalise, for all *)
(* JSON values however deeply they nest.                                   *)
(***************************************************************************)
EXTENDS Backoff, KmsSigning, Canonicalisation,
        FunctionTheorems, FiniteSetTheorems, SequenceTheorems,
        WellFoundedInduction, TLAPS

----------------------------------------------------------------------------
(* Powers of two: 2^a counts the subsets of 1..a *)

LEMMA PowerIsCount ==
  ASSUME NEW a \in Nat
  PROVE  /\ IsFiniteSet(SUBSET (1..a)) /\ Cardinality(SUBSET (1..a)) = 2^a
         /\ 2^a \in Nat
<1>1. IsFiniteSet(1..a) /\ Cardinality(1..a) = a
  BY FS_Interval
<1>2. IsFiniteSet(SUBSET (1..a)) /\ Cardinality(SUBSET (1..a)) = 2^a
  BY <1>1, FS_SUBSET
<1> QED
  BY <1>2, FS_CardinalityType

\* A subset of 1..(a + 1) is one of 1..a, or one of those with a + 1 put in.
LEMMA PowerDoubles ==
  ASSUME NEW a \in Nat
  PROVE  2^(a + 1) = 2 * 2^a
<1> DEFINE Old == SUBSET (1..a)
           With == {T \in SUBSET (1..(a + 1)) : a + 1 \in T}
           f == [T \in Old |-> T \cup {a + 1}]
<1>1. SUBSET (1..(a + 1)) = Old \cup With /\ Old \cap With = {}
  <2>1. 1..(a + 1) = (1..a) \cup {a + 1} /\ a + 1 \notin 1..a
    OBVIOUS
  <2> QED
    BY <2>1, Zenon
<1>2. f \in Bijection(Old, With)
  <2>1. 1..(a + 1) = (1..a) \cup {a + 1} /\ a + 1 \notin 1..a
    OBVIOUS
  <2>2. f \in [Old -> With]
    BY <2>1
  <2>3. ASSUME NEW S \in Old, NEW T \in Old, f[S] = f[T] PROVE S = T
    <3>1. S \cup {a + 1} = T \cup {a + 1} /\ a + 1 \notin S /\ a + 1 \notin T
      BY <2>1, <2>3
    <3> QED
      BY <3>1
  <2>4. ASSUME NEW T \in With PROVE \E S \in Old : f[S] = T
    <3>1. T \ {a + 1} \in Old
      BY <2>1
    <3>2. f[T \ {a + 1}] = T
      BY <3>1
    <3> QED
      BY <3>1, <3>2
  <2> QED
    BY <2>2, <2>3, <2>4, Fun_IsBij
<1>3. ExistsBijection(Old, With)
  BY <1>2, Fun_ExistsBij
<1>4. IsFiniteSet(Old) /\ Cardinality(Old) = 2^a /\ 2^a \in Nat
  BY PowerIsCount
<1>5. IsFiniteSet(With) /\ Cardinality(With) = 2^a
  BY <1>3, <1>4, FS_Bijection
<1>6. Cardinality(Old \cup With) = Cardinality(Old) + Cardinality(With) - Cardinality(Old \cap With)
  BY <1>4, <1>5, FS_Union
<1>7. Cardinality(Old \cap With) = 0
  BY <1>1, FS_EmptySet
<1>8. Cardinality(SUBSET (1..(a + 1))) = 2^(a + 1)
  <2>1. a + 1 \in Nat
    OBVIOUS
  <2>2. IsFiniteSet(1..(a + 1)) /\ Cardinality(1..(a + 1)) = a + 1
    BY <2>1, FS_Interval
  <2> QED
    BY <2>2, FS_SUBSET
<1>9. Cardinality(Old \cup With) = 2^(a + 1)
  BY <1>1, <1>8
<1> HIDE DEF Old, With, f
<1> QED
  BY <1>4, <1>5, <1>6, <1>7, <1>9

----------------------------------------------------------------------------
(* The retry loop *)

Settings == [maxAttempts : Nat, baseDelayMs : Nat, maxDelayMs : Nat]

\* Delay is within the cap, and the next delay is twice it or the cap.
LEMMA DelayFacts ==
  ASSUME opt \in Settings, NEW a \in Nat
  PROVE  /\ Delay(a) \in Nat /\ Delay(a) <= opt.maxDelayMs
         /\ \/ Delay(a + 1) = 2 * Delay(a)
            \/ Delay(a + 1) = opt.maxDelayMs /\ 2 * Delay(a) >= opt.maxDelayMs
<1> DEFINE b == opt.baseDelayMs
           c == opt.maxDelayMs
           p == 2^a
           x == b * p
           y == b * 2^(a + 1)
<1>1. b \in Nat /\ c \in Nat
  BY DEF Settings
<1>2. p \in Nat /\ 2^(a + 1) = 2 * p
  BY PowerIsCount, PowerDoubles
<1>3. Delay(a) = IF x < c THEN x ELSE c
  BY DEF Delay
<1>4. Delay(a + 1) = IF y < c THEN y ELSE c
  BY DEF Delay
<1>5. y = b * (2 * p)
  BY <1>2
<1> HIDE DEF b, c, p
<1>6. x \in Nat /\ b * (2 * p) = 2 * x
  BY <1>1, <1>2
<1>7. y = 2 * x
  BY <1>5, <1>6
<1> HIDE DEF x, y
<1>8. Delay(a) \in Nat /\ Delay(a) <= c
  BY <1>1, <1>3, <1>6
<1>9. Delay(a + 1) = 2 * Delay(a) \/ (Delay(a + 1) = c /\ 2 * Delay(a) >= c)
  BY <1>1, <1>3, <1>4, <1>6, <1>7
<1> QED
  BY <1>8, <1>9 DEF c

\* Every step of the loop keeps the counts, the outcome and the sleeps right.
LEMMA BackoffStep == BackoffInv /\ [BackoffNext]_backoffVars => BackoffInv'
<1> SUFFICES ASSUME BackoffInv, [BackoffNext]_backoffVars PROVE BackoffInv'
  OBVIOUS
<1> USE DEF BackoffInv, LoopCounts, EndsWithOwnOutcome, Places
<1>0. opt \in Settings
  BY DEF Settings
<1>1. ASSUME NEW o \in Options, Begin(o) PROVE BackoffInv'
  <2>1. o \in Settings
    BY BackoffAssumption DEF Settings
  <2>2. fnCalls' = 0 /\ attempt' = 0 /\ delays' = <<>> /\ opt' = o /\ loop' = "head" /\ error' = error
    BY <1>1 DEF Begin
  <2>3. Len(<<>>) = 0 /\ <<>> \in Seq(Nat)
    OBVIOUS
  <2> QED
    BY <2>1, <2>2, <2>3 DEF Settings
<1>2. CASE CallFn
  BY <1>2 DEF CallFn, Delay
<1>3. CASE FnReturns
  BY <1>3 DEF FnReturns, Delay
<1>4. ASSUME NEW e \in Errors, FnRejects(e) PROVE BackoffInv'
  <2>0. UNCHANGED <<opt, attempt, fnCalls>> /\ error' = e /\ loop = "fn"
    BY <1>4 DEF FnRejects
  <2>1. CASE IsLast \/ ~ IsRetryableError(e)
    <3>1. loop' = "thrown" /\ delays' = delays
      BY <1>4, <2>1 DEF FnRejects
    <3>2. IsRetryableError(e) => fnCalls = opt.maxAttempts
      BY <1>0, <2>0, <2>1 DEF IsLast, Settings
    <3> QED
      BY <2>0, <3>1, <3>2 DEF IsRetryableError, Delay
  <2>2. CASE ~ (IsLast \/ ~ IsRetryableError(e))
    <3>1. loop' = "sleep" /\ delays' = Append(delays, Delay(attempt))
      BY <1>4, <2>2 DEF FnRejects
    <3>2. Delay(attempt) \in Nat
      BY <1>0, DelayFacts
    <3>3. /\ delays' \in Seq(Nat) /\ Len(delays') = Len(delays) + 1
          /\ \A k \in 1..Len(delays) : delays'[k] = delays[k]
          /\ delays'[Len(delays) + 1] = Delay(attempt)
      BY <3>1, <3>2
    <3>4. attempt + 1 < opt.maxAttempts
      BY <1>0, <2>0, <2>2 DEF IsLast, Settings
    <3>5. ASSUME NEW k \in 1..Len(delays') PROVE delays'[k] = Delay(k - 1)'
      <4>1. Delay(k - 1)' = Delay(k - 1)
        BY <2>0 DEF Delay
      <4>2. Len(delays) = attempt /\ attempt \in Nat
        BY <2>0
      <4>3. CASE k \in 1..Len(delays)
        BY <3>3, <4>1, <4>3
      <4>4. CASE k = attempt + 1
        <5>1. k - 1 = attempt
          BY <4>2, <4>4
        <5>2. delays'[k] = Delay(attempt)
          BY <3>3, <4>2, <4>4
        <5> QED
          BY <4>1, <5>1, <5>2
      <4> QED
        BY <3>3, <4>2, <4>3, <4>4
    <3>6. ~ e.reverts
      BY <2>2 DEF IsRetryableError
    <3>7. LoopCounts'
      BY <1>0, <2>0, <3>1, <3>3, <3>4 DEF Settings
    <3>8. EndsWithOwnOutcome'
      BY <1>0, <2>0, <3>1, <3>6 DEF IsRetryableError, Settings
    <3> QED
      BY <1>0, <2>0, <3>1, <3>3, <3>5, <3>7, <3>8
  <2> QED
    BY <2>1, <2>2
<1>5. CASE Wake
  BY <1>5 DEF Wake, Delay
<1>6. CASE LoopLeft
  BY <1>6 DEF LoopLeft, Delay
<1>7. CASE UNCHANGED backoffVars
  BY <1>7 DEF backoffVars, Delay, IsRetryableError
<1> QED
  BY <1>1, <1>2, <1>3, <1>4, <1>5, <1>6, <1>7 DEF BackoffNext

\* The counts of the retry loop (withExponentialBackoff) agree at every place,
\* for all options and all outcomes of the wrapped function.
THEOREM BackoffInvariant == BackoffSpec => []BackoffInv
<1>1. BackoffInit => BackoffInv
  <2> SUFFICES ASSUME BackoffInit PROVE BackoffInv
    OBVIOUS
  <2>1. Len(<<>>) = 0 /\ <<>> \in Seq(Nat)
    OBVIOUS
  <2>2. error \in Errors
    BY DEF BackoffInit, NoError, Errors
  <2> QED
    BY <2>1, <2>2 DEF BackoffInit, BackoffInv, LoopCounts, EndsWithOwnOutcome, Places
<1> QED
  BY <1>1, BackoffStep, PTL DEF BackoffSpec

\* withExponentialBackoff ends with the outcome of fn, for all options: it never
\* gives up a transient error early and never repeats a reverted transaction.
THEOREM OwnOutcome == BackoffSpec => []EndsWithOwnOutcome
<1>1. BackoffInv => EndsWithOwnOutcome
  BY DEF BackoffInv
<1> QED
  BY <1>1, BackoffInvariant, PTL

\* The sleeps of withExponentialBackoff double up to the cap, for all options.
THEOREM SleepsGrow == BackoffSpec => []DelaysGrowToCap
<1>1. BackoffInv => DelaysGrowToCap
  <2> SUFFICES ASSUME BackoffInv PROVE DelaysGrowToCap
    OBVIOUS
  <2>0. opt \in Settings /\ delays \in Seq(Nat) /\ Len(delays) \in Nat
    BY DEF BackoffInv, Settings
  <2>1. \A k \in 1..Len(delays) : delays[k] = Delay(k - 1)
    BY DEF BackoffInv
  <2>2. ASSUME NEW k \in 1..Len(delays) PROVE delays[k] <= opt.maxDelayMs
    <3>1. k - 1 \in Nat
      BY <2>0
    <3> QED
      BY <2>0, <2>1, <3>1, DelayFacts
  <2>3. ASSUME NEW k \in 2..Len(delays)
        PROVE  \/ delays[k] = 2 * delays[k - 1]
               \/ delays[k] = opt.maxDelayMs /\ 2 * delays[k - 1] >= opt.maxDelayMs
    <3>1. k - 2 \in Nat /\ k - 1 \in 1..Len(delays) /\ k \in 1..Len(delays)
      BY <2>0
    <3>2. delays[k] = Delay(k - 1) /\ delays[k - 1] = Delay(k - 2)
      <4>1. (k - 1) - 1 = k - 2
        BY <2>0
      <4> QED
        BY <2>1, <3>1, <4>1
    <3>3. (k - 2) + 1 = k - 1
      BY <2>0
    <3> QED
      BY <2>0, <3>1, <3>2, <3>3, DelayFacts
  <2>4. Len(delays) < opt.maxAttempts \/ delays = <<>>
    BY DEF BackoffInv, LoopCounts
  <2> QED
    BY <2>2, <2>3, <2>4 DEF DelaysGrowToCap
<1> QED
  BY <1>1, BackoffInvariant, PTL

----------------------------------------------------------------------------
(* The DER parsers *)

\* A function from 1..n to S is a sequence of n elements of S.
LEMMA FunctionIsSeq ==
  ASSUME NEW S, NEW n \in Nat, NEW g \in [1..n -> S]
  PROVE  g \in Seq(S) /\ Len(g) = n
<1>1. g \in Seq(S)
  BY SeqDef
<1>2. DOMAIN g = 1..Len(g) /\ Len(g) \in Nat /\ DOMAIN g = 1..n
  BY <1>1, LenProperties
<1> QED
  BY <1>1, <1>2

\* A coordinate is a sequence of Width bytes.
LEMMA CoordinateIsSeq ==
  ASSUME NEW r \in Coordinates
  PROVE  /\ r \in Seq(Bytes) /\ Len(r) = Width
         /\ \A k \in 1..Width : r[k] \in Bytes
<1>1. Width \in Nat /\ r \in [1..Width -> Bytes]
  BY KmsAssumption DEF Coordinates
<1> QED
  BY <1>1, FunctionIsSeq

\* A non-empty set of natural numbers has a least element.
LEMMA LeastExists ==
  ASSUME NEW T \in SUBSET Nat, T # {}
  PROVE  \E x \in T : \A y \in T : x <= y
<1>1. PICK x \in T : \A y \in T : ~ (<<y, x>> \in OpToRel(<, Nat))
  BY NatLessThanWellFounded, WFMin
<1>2. ASSUME NEW y \in T PROVE x <= y
  <2>1. x \in Nat /\ y \in Nat /\ <<y, x>> \in Nat \X Nat
    OBVIOUS
  <2>2. ~ (y < x)
    BY <1>1, <2>1 DEF OpToRel
  <2> QED
    BY <2>1, <2>2
<1> QED
  BY <1>2

\* FirstByte is what it says, for every coordinate.
LEMMA FirstByteFacts ==
  ASSUME NEW r \in Coordinates
  PROVE  /\ FirstByte(r) \in 1..Width
         /\ \A j \in 1..(FirstByte(r) - 1) : r[j] = 0
         /\ r[FirstByte(r)] # 0 \/ FirstByte(r) = Width
<1> DEFINE T == {k \in 1..Width : r[k] # 0 \/ k = Width}
<1>0. Width \in Nat \ {0}
  BY KmsAssumption
<1>1. T \in SUBSET Nat /\ Width \in T
  BY <1>0
<1>2. PICK x \in T : \A y \in T : x <= y
  BY <1>1, LeastExists
<1>3. ASSUME NEW j \in 1..(x - 1) PROVE r[j] = 0
  <2>1. j \in 1..Width /\ ~ (x <= j)
    BY <1>0, <1>2
  <2> QED
    BY <1>2, <2>1
<1>4. \E k \in 1..Width : /\ \A j \in 1..(k - 1) : r[j] = 0
                          /\ r[k] # 0 \/ k = Width
  BY <1>2, <1>3
<1> QED
  BY <1>4 DEF FirstByte

\* The number of leading zero bytes the parser drops: at most one.
Zero(b) == IF b[1] = 0 THEN 1 ELSE 0

\* The bytes KMS writes for one number: at most a sign byte more than the width,
\* its last bytes those of the number.
LEMMA ShortestFacts ==
  ASSUME NEW r \in Coordinates
  PROVE  /\ Shortest(r) \in Seq(Bytes)
         /\ Len(Shortest(r)) \in 1..(Width + 1)
         /\ \E n \in 0..Width :
              /\ \A j \in 1..(Width - n) : r[j] = 0
              /\ Len(Shortest(r)) = n + Zero(Shortest(r))
              /\ \A k \in 1..n : Shortest(r)[Zero(Shortest(r)) + k] = r[Width - n + k]
<1> DEFINE f == FirstByte(r)
           short == SubSeq(r, f, Width)
           m == Width - f + 1
<1>0. Width \in Nat \ {0} /\ f \in 1..Width /\ m \in 1..Width /\ Width - m = f - 1
  BY KmsAssumption, FirstByteFacts
<1>1. \A k \in f..Width : r[k] \in Bytes
  BY <1>0, CoordinateIsSeq
<1>2. /\ short \in Seq(Bytes) /\ Len(short) = m
      /\ \A k \in 1..m : short[k] = r[f + k - 1]
  BY <1>0, <1>1, SubSeqProperties
<1>3. short[1] = r[f]
  BY <1>0, <1>2
<1>4. /\ \A j \in 1..(Width - m) : r[j] = 0
      /\ \A k \in 1..m : short[k] = r[Width - m + k]
  BY <1>0, <1>2, FirstByteFacts
<1>5. Shortest(r) = IF short[1] >= 128 THEN <<0>> \o short ELSE short
  BY DEF Shortest
<1>6. r[f] \in 0..255
  BY <1>0, CoordinateIsSeq DEF Bytes
<1>7. r[f] # 0 \/ f = Width
  BY FirstByteFacts
<1> HIDE DEF f, short, m
<1>8. CASE r[f] >= 128
  <2>1. Shortest(r) = <<0>> \o short
    BY <1>3, <1>5, <1>8
  <2>2. <<0>> \in Seq(Bytes) /\ Len(<<0>>) = 1 /\ <<0>>[1] = 0
    BY DEF Bytes
  <2>3. /\ Shortest(r) \in Seq(Bytes) /\ Len(Shortest(r)) = m + 1
        /\ Shortest(r)[1] = 0
        /\ \A k \in 1..m : Shortest(r)[1 + k] = short[k]
    BY <1>0, <1>2, <2>1, <2>2, ConcatProperties
  <2>4. Zero(Shortest(r)) = 1 /\ m \in 0..Width /\ m + 1 \in 1..(Width + 1)
    BY <1>0, <2>3 DEF Zero
  <2>5. \A k \in 1..m : Shortest(r)[1 + k] = r[Width - m + k]
    BY <1>4, <2>3
  <2> QED
    BY <1>4, <2>3, <2>4, <2>5
<1>9. CASE r[f] \in 1..127
  <2>1. ~ (r[f] >= 128) /\ r[f] # 0
    BY <1>9
  <2>2. Shortest(r) = short /\ Shortest(r)[1] # 0
    BY <1>3, <1>5, <2>1
  <2>3. Zero(Shortest(r)) = 0
    BY <2>2 DEF Zero
  <2>4. m \in 0..Width /\ m \in 1..(Width + 1) /\ m = m + 0 /\ \A k \in 1..m : 0 + k = k
    BY <1>0
  <2>5. \A k \in 1..m : Shortest(r)[0 + k] = r[Width - m + k]
    BY <1>4, <2>2, <2>4
  <2> QED
    BY <1>2, <1>4, <2>2, <2>3, <2>4, <2>5
<1>10. CASE r[f] = 0
  <2>1. Shortest(r) = short /\ Shortest(r)[1] = 0 /\ m = 1
    BY <1>0, <1>3, <1>5, <1>7, <1>10 DEF m
  <2>2. \A j \in 1..(Width - 0) : r[j] = 0
    BY <1>0, <1>4, <1>7, <1>10, <2>1
  <2>3. /\ Zero(Shortest(r)) = 1 /\ Len(Shortest(r)) = 0 + 1 /\ 0 \in 0..Width
        /\ 0 + 1 \in 1..(Width + 1) /\ 1..0 = {}
    BY <1>0, <1>2, <2>1 DEF Zero
  <2> QED
    BY <1>2, <2>1, <2>2, <2>3
<1>11. r[f] >= 128 \/ r[f] \in 1..127 \/ r[f] = 0
  BY <1>6
<1> QED
  BY <1>8, <1>9, <1>10, <1>11

\* padStart restores the zeros in front that DER dropped.
LEMMA PadStartRestores ==
  ASSUME NEW r \in Coordinates, NEW b \in Seq(Bytes), Len(b) <= Width,
         \A k \in 1..Len(b) : b[k] = r[Width - Len(b) + k],
         \A j \in 1..(Width - Len(b)) : r[j] = 0
  PROVE  PadStart(b) = r
<1> DEFINE n == Width - Len(b)
           pad == [k \in 1..n |-> 0]
<1>0. Width \in Nat /\ Len(b) \in Nat /\ n \in Nat /\ n + Len(b) = Width
  BY KmsAssumption
<1>1. pad \in [1..n -> Bytes]
  BY DEF Bytes
<1>2. pad \in Seq(Bytes) /\ Len(pad) = n
  BY <1>0, <1>1, FunctionIsSeq
<1>3. n + Len(b) = Width
  BY <1>0
<1>4. \A k \in 1..n : pad[k] = 0
  OBVIOUS
<1>5. PadStart(b) = pad \o b
  BY DEF PadStart
<1>6. \A j \in 1..n : r[j] = 0
  OBVIOUS
<1>7. \A k \in 1..Len(b) : b[k] = r[n + k]
  OBVIOUS
<1> HIDE DEF pad, n
<1>8. /\ pad \o b \in Seq(Bytes) /\ Len(pad \o b) = Width
      /\ \A k \in 1..Width : (pad \o b)[k] = IF k <= n THEN pad[k] ELSE b[k - n]
  BY <1>2, <1>3, ConcatProperties
<1>9. ASSUME NEW k \in 1..Width PROVE (pad \o b)[k] = r[k]
  <2>1. CASE k <= n
    BY <1>0, <1>4, <1>6, <1>8, <2>1
  <2>2. CASE k > n
    <3>1. k - n \in 1..Len(b) /\ n + (k - n) = k
      BY <1>0, <2>2
    <3> QED
      BY <1>0, <1>7, <1>8, <2>2, <3>1
  <2>3. k <= n \/ k > n
    BY <1>0
  <2> QED
    BY <2>1, <2>2, <2>3
<1> QED
  BY <1>5, <1>8, <1>9, CoordinateIsSeq, SeqEqual

\* ParseInteger reads one INTEGER back wherever it lies in the message.
LEMMA ParseIntegerReadsBack ==
  ASSUME NEW r \in Coordinates, NEW d \in Seq(Bytes), NEW at \in Nat \ {0},
         at + 1 + Len(Shortest(r)) <= Len(d),
         d[at + 1] = Len(Shortest(r)),
         \A k \in 1..Len(Shortest(r)) : d[at + 1 + k] = Shortest(r)[k]
  PROVE  /\ ParseInteger(d, at).next = at + 2 + Len(Shortest(r))
         /\ PadStart(ParseInteger(d, at).bytes) = r
<1> DEFINE body == Shortest(r)
           zero == Zero(body)
           start == at + 2 + zero
<1>0. Len(body) \in 1..(Width + 1) /\ Width \in Nat /\ Len(d) \in Nat
  BY ShortestFacts, KmsAssumption
<1>1. PICK n \in 0..Width :
        /\ \A j \in 1..(Width - n) : r[j] = 0
        /\ Len(body) = n + zero
        /\ \A k \in 1..n : body[zero + k] = r[Width - n + k]
  BY ShortestFacts
<1>2. d[at + 2] = body[1]
  BY <1>0
<1>3. \A k \in 1..Len(body) : d[at + 1 + k] = body[k]
  OBVIOUS
<1>4. d[at + 1] = Len(body) /\ at + 1 + Len(body) <= Len(d)
  OBVIOUS
<1>5. zero \in 0..1
  BY DEF Zero
<1>6. /\ ParseInteger(d, at).bytes = SubSeq(d, start, start + (Len(body) - zero) - 1)
      /\ ParseInteger(d, at).next = start + (Len(body) - zero)
  BY <1>2, <1>4 DEF ParseInteger, Zero
<1> HIDE DEF body, zero
<1> DEFINE got == SubSeq(d, start, start + n - 1)
<1>7. ParseInteger(d, at).bytes = got /\ ParseInteger(d, at).next = at + 2 + Len(body)
  <2>1. Len(body) - zero = n /\ start + (Len(body) - zero) = at + 2 + Len(body)
    BY <1>0, <1>1, <1>5
  <2>2. start + (Len(body) - zero) - 1 = start + n - 1
    BY <2>1
  <2> HIDE DEF start
  <2>4. ParseInteger(d, at).next = at + 2 + Len(body)
    BY <1>6, <2>1
  <2>5. SubSeq(d, start, start + (Len(body) - zero) - 1) = got
    BY <2>2
  <2> QED
    BY <1>6, <2>4, <2>5
<1>8. start \in Nat \ {0} /\ n \in Nat /\ start + n - 1 \in Int /\ start + n - 1 <= Len(d)
  BY <1>0, <1>1, <1>4, <1>5
<1>9. \A k \in start..(start + n - 1) : d[k] \in Bytes
  BY <1>0, <1>8, ElementOfSeq
<1>10. /\ got \in Seq(Bytes) /\ Len(got) = n
       /\ \A k \in 1..n : got[k] = d[start + k - 1]
  <2> HIDE DEF start
  <2>1. \A k \in 1..((start + n - 1) - start + 1) : got[k] = d[start + k - 1]
    BY <1>8, <1>9, SubSeqProperties
  <2>2. got \in Seq(Bytes) /\ Len(got) = IF start <= start + n - 1 THEN (start + n - 1) - start + 1 ELSE 0
    BY <1>8, <1>9, SubSeqProperties
  <2>3. (start + n - 1) - start + 1 = n /\ (start <= start + n - 1 <=> n >= 1)
    BY <1>8
  <2> QED
    BY <1>8, <2>1, <2>2, <2>3
<1>11. ASSUME NEW k \in 1..n PROVE got[k] = r[Width - n + k]
  <2>1. start + k - 1 = at + 1 + (zero + k) /\ zero + k \in 1..Len(body)
    BY <1>0, <1>1, <1>5
  <2>2. got[k] = body[zero + k]
    BY <1>3, <1>10, <2>1
  <2> QED
    BY <1>1, <2>2
<1> HIDE DEF got
<1>12. PadStart(got) = r
  <2>1. Len(got) <= Width
    BY <1>0, <1>1, <1>10
  <2>2. \A k \in 1..Len(got) : got[k] = r[Width - Len(got) + k]
    BY <1>10, <1>11
  <2>3. \A j \in 1..(Width - Len(got)) : r[j] = 0
    BY <1>1, <1>10
  <2> QED
    BY <1>10, <2>1, <2>2, <2>3, PadStartRestores
<1> QED
  BY <1>7, <1>12 DEF body

LEMMA ShortestIsShort ==
  ASSUME NEW r \in Coordinates
  PROVE  Len(Shortest(r)) \in 1..61
<1>1. Len(Shortest(r)) \in 1..(Width + 1)
  BY ShortestFacts
<1>2. Width \in 1..60
  BY KmsAssumption
<1> DEFINE n == Len(Shortest(r))
<1> HIDE DEF n
<1>3. n \in 1..(Width + 1)
  BY <1>1 DEF n
<1>4. n \in 1..61
  BY <1>2, <1>3
<1> QED
  BY <1>4 DEF n

\* One DER INTEGER: tag, length, bytes.
LEMMA DerIntegerFacts ==
  ASSUME NEW r \in Coordinates
  PROVE  /\ DerInteger(r) \in Seq(Bytes)
         /\ Len(DerInteger(r)) = 2 + Len(Shortest(r))
         /\ DerInteger(r)[1] = 2 /\ DerInteger(r)[2] = Len(Shortest(r))
         /\ \A k \in 1..Len(Shortest(r)) : DerInteger(r)[2 + k] = Shortest(r)[k]
<1> DEFINE body == Shortest(r)
           tag == <<2, Len(body)>>
<1>0. Len(body) \in 1..61 /\ body \in Seq(Bytes)
  BY ShortestFacts, ShortestIsShort
<1>1. Len(body) \in Bytes /\ 2 \in Bytes
  <2>1. Len(body) \in 1..61
    BY <1>0
  <2> QED
    BY <2>1 DEF Bytes
<1>2. tag \in Seq(Bytes) /\ Len(tag) = 2 /\ tag[1] = 2 /\ tag[2] = Len(body)
  BY <1>1
<1>3. DerInteger(r) = tag \o body
  BY DEF DerInteger
<1> HIDE DEF tag, body
<1>4. /\ tag \o body \in Seq(Bytes) /\ Len(tag \o body) = 2 + Len(body)
      /\ \A i \in 1..(2 + Len(body)) : (tag \o body)[i] = IF i <= 2 THEN tag[i] ELSE body[i - 2]
  <2>1. /\ tag \o body \in Seq(Bytes) /\ Len(tag \o body) = Len(tag) + Len(body)
        /\ \A i \in 1..(Len(tag) + Len(body)) :
             (tag \o body)[i] = IF i <= Len(tag) THEN tag[i] ELSE body[i - Len(tag)]
    BY <1>0, <1>2, ConcatProperties
  <2> QED
    BY <1>2, <2>1
<1>5. (tag \o body)[1] = 2 /\ (tag \o body)[2] = Len(body)
  BY <1>0, <1>2, <1>4
<1>6. ASSUME NEW k \in 1..Len(body) PROVE (tag \o body)[2 + k] = body[k]
  <2>1. 2 + k \in 1..(2 + Len(body)) /\ ~ (2 + k <= 2) /\ (2 + k) - 2 = k
    BY <1>0
  <2> QED
    BY <1>4, <2>1
<1> QED
  BY <1>3, <1>4, <1>5, <1>6 DEF body

\* The header of the SEQUENCE, with either length form, and where it ends.
Header(long, n) == <<48>> \o (IF long THEN <<129, n>> ELSE <<n>>)

LEMMA HeaderFacts ==
  ASSUME NEW long \in BOOLEAN, NEW n \in Bytes
  PROVE  /\ Header(long, n) \in Seq(Bytes)
         /\ Len(Header(long, n)) = IF long THEN 3 ELSE 2
         /\ Header(long, n)[1] = 48
         /\ Header(long, n)[2] = IF long THEN 129 ELSE n
<1> DEFINE t == <<48>>
           u == IF long THEN <<129, n>> ELSE <<n>>
<1>1. t \in Seq(Bytes) /\ Len(t) = 1 /\ t[1] = 48
  BY DEF Bytes
<1>2. u \in Seq(Bytes) /\ Len(u) = (IF long THEN 2 ELSE 1) /\ u[1] = IF long THEN 129 ELSE n
  <2>1. CASE long
    BY <2>1 DEF Bytes
  <2>2. CASE ~ long
    BY <2>2
  <2> QED
    BY <2>1, <2>2
<1> HIDE DEF t, u
<1>3. /\ t \o u \in Seq(Bytes) /\ Len(t \o u) = Len(t) + Len(u)
      /\ \A k \in 1..(Len(t) + Len(u)) : (t \o u)[k] = IF k <= Len(t) THEN t[k] ELSE u[k - Len(t)]
  BY <1>1, <1>2, ConcatProperties
<1>4. (t \o u)[1] = 48 /\ (t \o u)[2] = u[1]
  BY <1>1, <1>2, <1>3
<1>5. Header(long, n) = t \o u
  BY DEF Header, t, u
<1> QED
  BY <1>1, <1>2, <1>3, <1>4, <1>5

\* parseDerSignature reads back every signature KMS can send, at every width:
\* the leading zeros and the sign byte of r and of s are restored or dropped.
LEMMA ParseDerSignatureReadsBack ==
  ASSUME NEW r \in Coordinates, NEW s \in Coordinates, NEW long \in BOOLEAN
  PROVE  ParseDerSignature(DerSignature(r, s, long)) = <<r, s>>
<1> DEFINE a == DerInteger(r)
           b == DerInteger(s)
           n == Len(a \o b)
           h == Header(long, n)
           d == DerSignature(r, s, long)
           p == IF long THEN 3 ELSE 2
<1>0. Len(Shortest(r)) \in 1..61 /\ Len(Shortest(s)) \in 1..61
  BY ShortestIsShort
<1>1. a \in Seq(Bytes) /\ b \in Seq(Bytes) /\ Len(a) = 2 + Len(Shortest(r)) /\ Len(b) = 2 + Len(Shortest(s))
  BY DerIntegerFacts
<1>2. a \o b \in Seq(Bytes) /\ n = Len(a) + Len(b)
  BY <1>1, ConcatProperties
<1>3. n \in 1..127 /\ n \in Bytes /\ 48 \in Bytes /\ 129 \in Bytes
  <2>1. n = (2 + Len(Shortest(r))) + (2 + Len(Shortest(s)))
    BY <1>1, <1>2
  <2> DEFINE x == Len(Shortest(r))
             y == Len(Shortest(s))
  <2>2. x \in 1..61 /\ y \in 1..61
    BY <1>0
  <2>3. n = (2 + x) + (2 + y)
    BY <2>1
  <2> HIDE DEF n, x, y
  <2>4. n \in 1..127
    BY <2>2, <2>3
  <2> QED
    BY <2>4 DEF Bytes
<1>4. /\ h \in Seq(Bytes) /\ Len(h) = p /\ h[1] = 48
      /\ h[2] = IF long THEN 129 ELSE n
  <2> HIDE DEF n
  <2> QED
    BY <1>3, HeaderFacts
<1>5. d = h \o (a \o b)
  BY DEF DerSignature, Header
<1> HIDE DEF h, n, d, p
<1>6. p \in {2, 3}
  BY DEF p
<1>7. /\ d \in Seq(Bytes) /\ Len(d) = p + n
      /\ \A k \in 1..(p + n) : d[k] = IF k <= p THEN h[k] ELSE (a \o b)[k - p]
  <2> HIDE DEF a, b
  <2> DEFINE c == a \o b
  <2>1. c \in Seq(Bytes) /\ Len(c) = n /\ d = h \o c
    BY <1>2, <1>5 DEF n
  <2> HIDE DEF c
  <2>2. /\ h \o c \in Seq(Bytes) /\ Len(h \o c) = Len(h) + Len(c)
        /\ \A k \in 1..(Len(h) + Len(c)) : (h \o c)[k] = IF k <= Len(h) THEN h[k] ELSE c[k - Len(h)]
    BY <1>4, <2>1, ConcatProperties
  <2>3. /\ d \in Seq(Bytes) /\ Len(d) = p + n
        /\ \A k \in 1..(p + n) : d[k] = IF k <= p THEN h[k] ELSE c[k - p]
    BY <1>4, <2>1, <2>2
  <2> QED
    BY <2>3 DEF c
<1>8. \A k \in 1..(Len(a) + Len(b)) : (a \o b)[k] = IF k <= Len(a) THEN a[k] ELSE b[k - Len(a)]
  BY <1>1, ConcatProperties
<1>9. \A k \in 1..Len(a) : d[p + k] = a[k]
  <2> HIDE DEF a, b
  <2>1. ASSUME NEW k \in 1..Len(a) PROVE d[p + k] = a[k]
    <3>1. p + k \in 1..(p + n) /\ ~ (p + k <= p) /\ (p + k) - p = k /\ k \in 1..(Len(a) + Len(b)) /\ k <= Len(a)
      BY <1>0, <1>1, <1>2, <1>6
    <3> QED
      BY <1>7, <1>8, <3>1
  <2> QED
    BY <2>1
<1>10. \A k \in 1..Len(b) : d[p + Len(a) + k] = b[k]
  <2> HIDE DEF a, b
  <2>1. ASSUME NEW k \in 1..Len(b) PROVE d[p + Len(a) + k] = b[k]
    <3> DEFINE i == p + Len(a) + k
    <3>1. /\ i \in 1..(p + n) /\ ~ (i <= p) /\ i - p = Len(a) + k
          /\ Len(a) + k \in 1..(Len(a) + Len(b)) /\ ~ (Len(a) + k <= Len(a)) /\ (Len(a) + k) - Len(a) = k
      BY <1>0, <1>1, <1>2, <1>6
    <3> HIDE DEF i
    <3>2. d[i] = (a \o b)[Len(a) + k]
      BY <1>7, <3>1
    <3>3. (a \o b)[Len(a) + k] = b[k]
      BY <1>8, <3>1
    <3> QED
      BY <3>2, <3>3 DEF i
  <2> QED
    BY <2>1
<1>11. AfterLength(d) = p + 1 /\ d[1] = 48
  <2>1. d[1] = h[1] /\ d[2] = h[2]
    <3>1. 1 \in 1..(p + n) /\ 2 \in 1..(p + n) /\ 1 <= p /\ 2 <= p
      BY <1>3, <1>6
    <3> QED
      BY <1>7, <3>1
  <2>2. CASE long
    <3>1. d[2] = 129 /\ p = 3
      BY <1>4, <2>1, <2>2 DEF p
    <3>2. 129 >= 128 /\ 3 + (129 % 128) = 4 /\ 3 + 1 = 4
      OBVIOUS
    <3>3. AfterLength(d) = 4
      BY <3>1, <3>2 DEF AfterLength
    <3> QED
      BY <1>4, <2>1, <3>1, <3>2, <3>3
  <2>3. CASE ~ long
    <3>1. d[2] = n /\ p = 2 /\ ~ (n >= 128)
      BY <1>3, <1>4, <2>1, <2>3 DEF p
    <3>2. AfterLength(d) = 3 /\ 2 + 1 = 3
      BY <3>1 DEF AfterLength
    <3> QED
      BY <1>4, <2>1, <3>1, <3>2
  <2> QED
    BY <2>2, <2>3
<1>12. /\ d[p + 1] = 2
       /\ ParseInteger(d, p + 1).next = p + 1 + Len(a)
       /\ PadStart(ParseInteger(d, p + 1).bytes) = r
  <2>1. d[p + 1] = a[1] /\ d[p + 2] = a[2] /\ \A k \in 1..Len(Shortest(r)) : d[p + (2 + k)] = a[2 + k]
    BY <1>0, <1>1, <1>9
  <2>2. d[p + 1] = 2 /\ d[p + 2] = Len(Shortest(r)) /\ \A k \in 1..Len(Shortest(r)) : d[p + (2 + k)] = Shortest(r)[k]
    BY <2>1, DerIntegerFacts
  <2> HIDE DEF a, b
  <2>3. /\ p + 1 \in Nat \ {0} /\ (p + 1) + 1 = p + 2 /\ (p + 1) + 1 + Len(Shortest(r)) <= Len(d)
        /\ \A k \in 1..Len(Shortest(r)) : (p + 1) + 1 + k = p + (2 + k)
        /\ (p + 1) + 2 + Len(Shortest(r)) = p + 1 + Len(a)
    BY <1>0, <1>1, <1>2, <1>6, <1>7
  <2>4. d[(p + 1) + 1] = Len(Shortest(r)) /\ \A k \in 1..Len(Shortest(r)) : d[(p + 1) + 1 + k] = Shortest(r)[k]
    BY <2>2, <2>3
  <2> QED
    BY <1>7, <2>2, <2>3, <2>4, ParseIntegerReadsBack
<1>13. /\ d[p + 1 + Len(a)] = 2
       /\ PadStart(ParseInteger(d, p + 1 + Len(a)).bytes) = s
  <2> DEFINE q == p + Len(a)
  <2>1. d[q + 1] = b[1] /\ d[q + 2] = b[2] /\ \A k \in 1..Len(Shortest(s)) : d[q + (2 + k)] = b[2 + k]
    BY <1>0, <1>1, <1>10
  <2>2. d[q + 1] = 2 /\ d[q + 2] = Len(Shortest(s)) /\ \A k \in 1..Len(Shortest(s)) : d[q + (2 + k)] = Shortest(s)[k]
    BY <2>1, DerIntegerFacts
  <2> HIDE DEF a, b
  <2>3. /\ q + 1 \in Nat \ {0} /\ (q + 1) + 1 = q + 2 /\ (q + 1) + 1 + Len(Shortest(s)) <= Len(d)
        /\ \A k \in 1..Len(Shortest(s)) : (q + 1) + 1 + k = q + (2 + k)
        /\ p + 1 + Len(a) = q + 1
    BY <1>0, <1>1, <1>2, <1>6, <1>7
  <2> HIDE DEF q
  <2>4. d[(q + 1) + 1] = Len(Shortest(s)) /\ \A k \in 1..Len(Shortest(s)) : d[(q + 1) + 1 + k] = Shortest(s)[k]
    BY <2>2, <2>3
  <2>5. PadStart(ParseInteger(d, q + 1).bytes) = s
    BY <1>7, <2>2, <2>3, <2>4, ParseIntegerReadsBack
  <2> QED
    BY <2>2, <2>3, <2>5
<1> HIDE DEF a, b
<1>14. ParseDerSignature(d) = <<r, s>>
  BY <1>11, <1>12, <1>13 DEF ParseDerSignature
<1> QED
  BY <1>14 DEF d

\* parseDerPublicKey finds the point behind its 0x04 prefix.
LEMMA ParseDerPublicKeyReadsBack ==
  ASSUME NEW k \in Keys
  PROVE  /\ ParseDerPublicKey(DerPublicKey(PointOf[k])) = PointOf[k]
         /\ PointOf[k] # <<>>
<1> DEFINE pt == PointOf[k]
           h == <<48, 2 * Width + 3, 3>>
           x == <<4>>
           w == 2 * Width
           d == DerPublicKey(pt)
<1>0. Width \in 1..60 /\ pt \in Seq(Bytes) /\ Len(pt) = w
  BY KmsAssumption
<1>1. w \in 2..120 /\ w + 3 \in 0..255
  BY <1>0
<1>2. h \in Seq(Nat) /\ Len(h) = 3 /\ x \in Seq(Nat) /\ Len(x) = 1 /\ x[1] = 4
  BY <1>1
<1>3. pt \in Seq(Nat)
  <2>1. Bytes \subseteq Nat
    BY DEF Bytes
  <2> QED
    BY <1>0, <2>1, SeqMonotonic
<1>4. d = (h \o x) \o pt
  BY DEF DerPublicKey
<1>5. pt # <<>>
  BY <1>0, <1>1
<1>6. /\ ParseDerPublicKey(d) =
           IF SubSeq(d, Len(d) - w, Len(d))[1] # 4 THEN Invalid ELSE Tail(SubSeq(d, Len(d) - w, Len(d)))
  BY DEF ParseDerPublicKey
<1> HIDE DEF pt, h, x, d, w
<1>7. h \o x \in Seq(Nat) /\ Len(h \o x) = 4 /\ (h \o x)[4] = 4
  <2>1. /\ h \o x \in Seq(Nat) /\ Len(h \o x) = Len(h) + Len(x)
        /\ \A i \in 1..(Len(h) + Len(x)) : (h \o x)[i] = IF i <= Len(h) THEN h[i] ELSE x[i - Len(h)]
    BY <1>2, ConcatProperties
  <2> QED
    BY <1>2, <2>1
<1>8. /\ d \in Seq(Nat) /\ Len(d) = 4 + w /\ d[4] = 4
      /\ \A i \in 1..w : d[4 + i] = pt[i]
  <2> DEFINE y == h \o x
  <2>1. y \in Seq(Nat) /\ Len(y) = 4 /\ y[4] = 4 /\ d = y \o pt
    BY <1>4, <1>7
  <2> HIDE DEF y
  <2>2. /\ y \o pt \in Seq(Nat) /\ Len(y \o pt) = Len(y) + Len(pt)
        /\ \A i \in 1..(Len(y) + Len(pt)) : (y \o pt)[i] = IF i <= Len(y) THEN y[i] ELSE pt[i - Len(y)]
    BY <1>3, <2>1, ConcatProperties
  <2>3. \A i \in 1..(4 + w) : d[i] = IF i <= 4 THEN y[i] ELSE pt[i - 4]
    BY <1>0, <2>1, <2>2
  <2>4. ASSUME NEW i \in 1..w PROVE d[4 + i] = pt[i]
    <3>1. 4 + i \in 1..(4 + w) /\ ~ (4 + i <= 4) /\ (4 + i) - 4 = i
      BY <1>1
    <3> QED
      BY <2>3, <3>1
  <2>5. d[4] = 4
    <3>1. 4 \in 1..(4 + w) /\ 4 <= 4
      BY <1>1
    <3> QED
      BY <2>1, <2>3, <3>1
  <2> QED
    BY <1>0, <2>1, <2>2, <2>4, <2>5
<1> DEFINE point == SubSeq(d, 4, 4 + w)
<1>9. /\ point \in Seq(Nat) /\ Len(point) = w + 1
      /\ \A i \in 1..(w + 1) : point[i] = d[4 + i - 1]
  <2>1. \A i \in 4..(4 + w) : d[i] \in Nat
    BY <1>1, <1>8, ElementOfSeq
  <2>2. 4 \in Int /\ 4 + w \in Int /\ 4 <= 4 + w /\ (4 + w) - 4 + 1 = w + 1
    BY <1>1
  <2>3. /\ point \in Seq(Nat) /\ Len(point) = (IF 4 <= 4 + w THEN (4 + w) - 4 + 1 ELSE 0)
        /\ \A i \in 1..((4 + w) - 4 + 1) : point[i] = d[4 + i - 1]
    BY <2>1, <2>2, SubSeqProperties
  <2> QED
    BY <2>2, <2>3
<1>10. ParseDerPublicKey(d) = IF point[1] # 4 THEN Invalid ELSE Tail(point)
  <2>1. Len(d) - w = 4 /\ Len(d) = 4 + w
    BY <1>1, <1>8
  <2> QED
    BY <1>6, <2>1
<1> HIDE DEF point
<1>11. point[1] = 4 /\ point # <<>>
  <2>1. 1 \in 1..(w + 1) /\ 4 + 1 - 1 = 4 /\ w + 1 # 0
    BY <1>1
  <2> QED
    BY <1>8, <1>9, <2>1
<1>12. /\ Tail(point) \in Seq(Nat) /\ Len(Tail(point)) = w
       /\ \A i \in 1..w : Tail(point)[i] = point[i + 1]
  <2>1. /\ Tail(point) \in Seq(Nat) /\ Len(Tail(point)) = Len(point) - 1
        /\ \A i \in 1..Len(Tail(point)) : Tail(point)[i] = point[i + 1]
    BY <1>9, <1>11, HeadTailProperties
  <2>2. (w + 1) - 1 = w
    BY <1>1
  <2> QED
    BY <1>9, <2>1, <2>2
<1>13. ASSUME NEW i \in 1..w PROVE Tail(point)[i] = pt[i]
  <2>1. i + 1 \in 1..(w + 1) /\ 4 + (i + 1) - 1 = 4 + i
    BY <1>1
  <2> QED
    BY <1>8, <1>9, <1>12, <2>1
<1>14. Tail(point) = pt
  BY <1>0, <1>3, <1>12, <1>13, SeqEqual
<1> QED
  BY <1>5, <1>10, <1>11, <1>14 DEF pt, d

----------------------------------------------------------------------------
(* signHash *)

\* Every step of signHash, every fault and every move of the alias keeps it.
LEMMA SignStep == SignInv /\ [SignNext]_signVars => SignInv'
<1> SUFFICES ASSUME SignInv, [SignNext]_signVars PROVE SignInv'
  OBVIOUS
<1> USE DEF SignInv, Holds, SignatureRecovers, FailsOnlyWhenDisturbed, Steps
<1>1. CASE SignHash
  BY <1>1 DEF SignHash
<1>2. CASE KmsSigns
  BY <1>2 DEF KmsSigns
<1>3. CASE Parse
  <2>1. PICK r \in Coordinates, s \in Coordinates, bit \in {27, 28}, long \in BOOLEAN :
          truth = <<r, s, bit>> /\ der = DerSignature(r, s, long)
    BY <1>3 DEF Parse
  <2>2. rs' = <<r, s>>
    BY <1>3, <2>1, ParseDerSignatureReadsBack DEF Parse
  <2>3. rs' # Invalid
    BY <2>2 DEF Invalid
  <2>4. sign' = "key" /\ UNCHANGED <<key, signer, truth, der, v, disturbed>>
    BY <1>3, <2>3 DEF Parse
  <2> QED
    BY <2>1, <2>2, <2>4
<1>4. CASE GetSignerAddress
  <2>1. der' = PointOf[key] /\ der' # Invalid
    BY <1>4, ParseDerPublicKeyReadsBack DEF GetSignerAddress, Invalid
  <2>2. sign' = "recover" /\ sign = "key" /\ UNCHANGED <<key, signer, truth, rs, v, disturbed>>
    BY <1>4, <2>1 DEF GetSignerAddress
  <2> QED
    BY <2>1, <2>2
<1>5. CASE RecoverV
  <2> DEFINE fits == {w \in {27, 28} : RecoverAddress(w) = der}
  <2>0. UNCHANGED <<key, signer, truth, der, rs, disturbed>> /\ sign = "recover"
    BY <1>5 DEF RecoverV
  <2>1. PICK r \in Coordinates, s \in Coordinates, bit \in {27, 28} :
          truth = <<r, s, bit>> /\ rs = <<r, s>>
    BY <2>0
  <2>2. PICK k \in Keys : der = PointOf[k] /\ (disturbed \/ k = signer)
    BY <2>0
  <2>3. der # <<>>
    BY <2>2, ParseDerPublicKeyReadsBack
  <2>4. ASSUME NEW w \in fits PROVE w = bit /\ der = PointOf[signer]
    <3>1. RecoverAddress(w) = der
      OBVIOUS
    <3>2. truth = <<rs[1], rs[2], w>> /\ der = PointOf[signer]
      BY <2>3, <3>1 DEF RecoverAddress
    <3> QED
      BY <2>1, <3>2
  <2>5. truth = <<rs[1], rs[2], bit>>
    BY <2>1
  <2>6. RecoverAddress(bit) = PointOf[signer]
    BY <2>5 DEF RecoverAddress
  <2>7. CASE fits # {}
    <3>1. v' = (CHOOSE w \in fits : \A u \in fits : w <= u) /\ sign' = "signed"
      BY <1>5, <2>7 DEF RecoverV
    <3>2. fits = {bit} /\ bit <= bit
      BY <2>4, <2>7
    <3>3. v' = bit
      BY <3>1, <3>2
    <3>4. der = PointOf[signer]
      BY <2>4, <2>7
    <3>5. truth[1] = r /\ truth[2] = s /\ truth[3] = bit
      BY <2>1
    <3>6. SignatureRecovers'
      BY <2>0, <2>1, <3>3, <3>4, <3>5
    <3> QED
      BY <2>0, <2>1, <3>1, <3>6
  <2>8. CASE fits = {}
    <3>1. sign' = "failed"
      BY <1>5, <2>8 DEF RecoverV
    <3>2. disturbed
      BY <2>2, <2>6, <2>8
    <3> QED
      BY <2>0, <3>1, <3>2
  <2> QED
    BY <2>7, <2>8
<1>6. CASE KmsFails
  BY <1>6 DEF KmsFails
<1>7. CASE AliasMoves
  BY <1>7 DEF AliasMoves
<1>8. CASE UNCHANGED signVars
  BY <1>8 DEF signVars
<1> QED
  BY <1>1, <1>2, <1>3, <1>4, <1>5, <1>6, <1>7, <1>8 DEF SignNext

\* What signHash holds at each step, for every width up to 60 bytes, every
\* signature and every set of keys.
THEOREM SignInvariant == SignSpec => []SignInv
<1>1. SignInit => SignInv
  BY DEF SignInit, SignInv, Holds, SignatureRecovers, FailsOnlyWhenDisturbed, Steps
<1> QED
  BY <1>1, SignStep, PTL DEF SignSpec

\* A returned signature is the one KMS made and recovers its key, whatever the
\* alias does between the two KMS calls of signHash: SignatureRecovers.
THEOREM ReturnedSignaturesRecover == SignSpec => []SignatureRecovers
<1>1. SignInv => SignatureRecovers
  BY DEF SignInv
<1> QED
  BY <1>1, SignInvariant, PTL

\* Neither DER parser nor recoverV loses a signature: signHash fails only when a
\* KMS call failed or the alias was moved.
THEOREM SigningLosesNothing == SignSpec => []FailsOnlyWhenDisturbed
<1>1. SignInv => FailsOnlyWhenDisturbed
  BY DEF SignInv
<1> QED
  BY <1>1, SignInvariant, PTL

----------------------------------------------------------------------------
(* Recursive definitions.  f[x \in D] == e stands for CHOOSE f : f = [x \in D |-> e], *)
(* so what it computes follows only once some f satisfies the equation.    *)

\* f and g agree at every d as soon as they agree at everything of lower rank.
AgreeStepwise(D, Rank, f, g) ==
  \A d \in D : (\A c \in D : Rank[c] < Rank[d] => f[c] = g[c]) => f[d] = g[d]

\* What F gives at d depends only on what its argument gives at lower ranks.
LooksBelow(D, V, Rank, F) ==
  /\ Rank \in [D -> Nat] /\ [D -> V] # {} /\ F \in [[D -> V] -> [D -> V]]
  /\ \A f, g \in [D -> V] : \A d \in D :
       (\A c \in D : Rank[c] < Rank[d] => f[c] = g[c]) => F[f][d] = F[g][d]

\* F maps some function to itself.
HasFixedPoint(D, V, F) == \E f \in [D -> V] : f = F[f]

\* Functions that agree stepwise agree.
LEMMA Agree ==
  ASSUME NEW D, NEW Rank \in [D -> Nat], NEW f, NEW g, AgreeStepwise(D, Rank, f, g)
  PROVE  \A d \in D : f[d] = g[d]
<1> DEFINE T == {Rank[c] : c \in {c \in D : f[c] # g[c]}}
<1>1. SUFFICES ASSUME T # {} PROVE FALSE
  OBVIOUS
<1>2. T \in SUBSET Nat
  OBVIOUS
<1>3. PICK m \in T : \A k \in T : m <= k
  <2> HIDE DEF T
  <2> QED
    BY <1>1, <1>2, LeastExists
<1>4. PICK d \in D : Rank[d] = m /\ f[d] # g[d]
  OBVIOUS
<1>5. ASSUME NEW c \in D, Rank[c] < Rank[d] PROVE f[c] = g[c]
  <2>1. Rank[c] \in Nat /\ Rank[d] \in Nat
    OBVIOUS
  <2>2. Rank[c] \notin T
    <3> HIDE DEF T
    <3> QED
      BY <1>3, <1>4, <1>5, <2>1
  <2> QED
    BY <2>2
<1> QED
  BY <1>4, <1>5 DEF AgreeStepwise

\* A recursive definition that looks only at values of smaller rank has a
\* solution.  F maps a function to the right-hand side of the definition.
LEMMA FixedPoint ==
  ASSUME NEW D, NEW V, NEW Rank, NEW F, LooksBelow(D, V, Rank, F)
  PROVE  HasFixedPoint(D, V, F)
<1>a. Rank \in [D -> Nat] /\ [D -> V] # {} /\ F \in [[D -> V] -> [D -> V]]
  BY DEF LooksBelow
<1>b. PICK base : base \in [D -> V]
  BY <1>a
<1> USE <1>a
<1> DEFINE A(n) == {f \in [D -> V] : \A d \in D : Rank[d] < n => F[f][d] = f[d]}
<1>1. ASSUME NEW n \in Nat, NEW f \in A(n) PROVE F[f] \in A(n + 1)
  <2>1. ASSUME NEW d \in D, Rank[d] < n + 1 PROVE F[F[f]][d] = F[f][d]
    <3>1. ASSUME NEW c \in D, Rank[c] < Rank[d] PROVE F[f][c] = f[c]
      <4>1. Rank[c] < n
        BY <2>1, <3>1
      <4> QED
        BY <4>1
    <3> QED
      BY <3>1 DEF LooksBelow
  <2> QED
    BY <2>1
<1>2. ASSUME NEW n \in Nat PROVE A(n) # {}
  <2> DEFINE T == {m \in Nat : A(m) = {}}
  <2>1. SUFFICES ASSUME T # {} PROVE FALSE
    <3>1. A(n) = {} => n \in T
      <4> HIDE DEF A
      <4> QED
        OBVIOUS
    <3> QED
      BY <3>1
  <2>2. PICK m \in T : \A k \in T : m <= k
    BY <2>1, LeastExists
  <2>3. m # 0
    <3>1. base \in A(0)
      BY <1>b
    <3> QED
      BY <3>1
  <2>4. m - 1 \in Nat /\ m - 1 \notin T
    BY <2>2, <2>3
  <2>5. PICK f : f \in A(m - 1)
    BY <2>4
  <2>6. F[f] \in A((m - 1) + 1)
    BY <2>4, <2>5, <1>1
  <2> QED
    BY <2>6, <2>4
<1>3. ASSUME NEW n \in Nat, NEW f \in A(n), NEW g \in A(n), NEW d \in D, Rank[d] < n
      PROVE  f[d] = g[d]
  <2> DEFINE E == {c \in D : Rank[c] < n}
             R == [c \in E |-> Rank[c]]
  <2>1. R \in [E -> Nat]
    OBVIOUS
  <2>2. ASSUME NEW e \in E, \A c \in E : R[c] < R[e] => f[c] = g[c] PROVE f[e] = g[e]
    <3>1. ASSUME NEW c \in D, Rank[c] < Rank[e] PROVE f[c] = g[c]
      <4>1. c \in E /\ R[c] < R[e]
        BY <3>1
      <4> QED
        BY <4>1, <2>2
    <3>2. F[f][e] = F[g][e]
      BY <3>1 DEF LooksBelow
    <3> QED
      BY <3>2
  <2>3. AgreeStepwise(E, R, f, g)
    <3> HIDE DEF E, R
    <3> QED
      BY <2>2 DEF AgreeStepwise
  <2>4. \A e \in E : f[e] = g[e]
    <3> HIDE DEF E, R
    <3> QED
      BY <2>1, <2>3, Agree
  <2> QED
    BY <2>4, <1>3
<1> DEFINE pick(d) == CHOOSE f : f \in A(Rank[d] + 1)
           h       == [d \in D |-> pick(d)[d]]
<1>4. ASSUME NEW d \in D PROVE pick(d) \in A(Rank[d] + 1)
  <2>1. A(Rank[d] + 1) # {}
    BY <1>2
  <2> HIDE DEF A
  <2> QED
    BY <2>1
<1>5. h \in [D -> V]
  BY <1>4
<1>6. ASSUME NEW d \in D PROVE F[h][d] = h[d]
  <2>1. ASSUME NEW c \in D, Rank[c] < Rank[d] PROVE h[c] = pick(d)[c]
    <3>1. pick(d) \in A(Rank[c] + 1)
      <4>1. \A b \in D : Rank[b] < Rank[c] + 1 => Rank[b] < Rank[d] + 1
        BY <2>1
      <4> QED
        BY <4>1, <1>4
    <3>2. pick(c)[c] = pick(d)[c]
      <4> HIDE DEF A, pick
      <4> QED
        BY <3>1, <1>4, <1>3
    <3> QED
      BY <3>2
  <2>2. pick(d) \in [D -> V] /\ F[pick(d)][d] = pick(d)[d]
    <3>1. Rank[d] < Rank[d] + 1
      OBVIOUS
    <3> HIDE DEF pick
    <3> QED
      BY <1>4, <3>1
  <2>3. F[h][d] = F[pick(d)][d]
    <3> HIDE DEF pick, h
    <3> QED
      BY <2>1, <2>2, <1>5 DEF LooksBelow
  <2> QED
    BY <2>2, <2>3
<1>7. F[h] \in [D -> V]
  BY <1>5
<1>8. h = F[h]
  <2> HIDE DEF h
  <2> QED
    BY <1>5, <1>6, <1>7
<1> HIDE DEF h
<1> QED
  BY <1>5, <1>8 DEF HasFixedPoint

\* Induction on the natural numbers, with the induction hypothesis as a set.
LEMMA SetInduction ==
  ASSUME NEW P \in SUBSET Nat, 0 \in P, \A m \in P : m + 1 \in P
  PROVE  P = Nat
<1>1. SUFFICES ASSUME Nat \ P # {} PROVE FALSE
  OBVIOUS
<1>2. PICK m \in Nat \ P : \A k \in Nat \ P : m <= k
  BY <1>1, LeastExists
<1>3. m - 1 \in Nat /\ m - 1 \in P
  BY <1>2
<1>4. (m - 1) + 1 \in P
  BY <1>3
<1> QED
  BY <1>3, <1>4

\* s stands in t after the first p positions.
Occurs(s, t, p) == \A j \in 1..Len(s) : t[p + j] = s[j]

\* Where the parts of a concatenation stand in it.
LEMMA OccursConcat ==
  ASSUME NEW S, NEW u \in Seq(S), NEW z \in Seq(S), NEW t, NEW p \in Nat
  PROVE  Occurs(u \o z, t, p) <=> Occurs(u, t, p) /\ Occurs(z, t, p + Len(u))
<1> DEFINE m == Len(u)  n == Len(z)  w == u \o z
<1>1. m \in Nat /\ n \in Nat
  BY LenProperties
<1>2. /\ Len(w) = m + n
      /\ \A j \in 1..(m + n) : w[j] = IF j <= m THEN u[j] ELSE z[j - m]
  BY ConcatProperties
<1>3. ASSUME NEW j \in 1..n
      PROVE  m + j \in 1..(m + n) /\ w[m + j] = z[j] /\ p + (m + j) = (p + m) + j
  <2>1. m + j \in 1..(m + n) /\ ~ (m + j <= m) /\ (m + j) - m = j /\ p + (m + j) = (p + m) + j
    BY <1>1
  <2> HIDE DEF m, n, w
  <2> QED
    BY <1>2, <2>1
<1>4. ASSUME NEW j \in 1..m PROVE j \in 1..(m + n) /\ w[j] = u[j]
  <2> HIDE DEF m, n, w
  <2> QED
    BY <1>1, <1>2
<1>5. ASSUME NEW j \in 1..(m + n), j \notin 1..m PROVE j - m \in 1..n /\ m + (j - m) = j
  <2> HIDE DEF m, n, w
  <2> QED
    BY <1>1, <1>5
<1>6. Occurs(w, t, p) <=> \A j \in 1..(m + n) : t[p + j] = w[j]
  BY <1>2 DEF Occurs
<1>7. Occurs(u, t, p) <=> \A j \in 1..m : t[p + j] = u[j]
  BY DEF Occurs
<1>8. Occurs(z, t, p + m) <=> \A j \in 1..n : t[(p + m) + j] = z[j]
  BY DEF Occurs
<1> HIDE DEF m, n, w
<1>9. Occurs(w, t, p) => Occurs(u, t, p)
  BY <1>4, <1>6, <1>7
<1>10. Occurs(w, t, p) => Occurs(z, t, p + m)
  BY <1>3, <1>6, <1>8
<1>11. ASSUME Occurs(u, t, p), Occurs(z, t, p + m) PROVE Occurs(w, t, p)
  <2>1. SUFFICES ASSUME NEW j \in 1..(m + n) PROVE t[p + j] = w[j]
    BY <1>6
  <2>2. CASE j \in 1..m
    BY <2>2, <1>4, <1>7, <1>11
  <2>3. CASE j \notin 1..m
    <3>1. PICK i \in 1..n : m + i = j
      BY <2>3, <1>5
    <3> QED
      BY <3>1, <1>3, <1>8, <1>11
  <2> QED
    BY <2>2, <2>3
<1> QED
  BY <1>9, <1>10, <1>11 DEF w, m

\* FlattenSeq concatenates from the left.
LEMMA FlattenEquation ==
  ASSUME NEW S, NEW ss \in Seq(Seq(S)), Len(ss) # 0
  PROVE  \E g \in [1..Len(ss) -> Seq(S)] :
           /\ FlattenSeq(ss) = g[Len(ss)]
           /\ \A i \in 1..Len(ss) : g[i] = IF i = 1 THEN ss[i] ELSE g[i - 1] \o ss[i]
<1> DEFINE n == Len(ss)
           D == 1..n
           V == Seq(S)
           rhs(f) == [i \in D |-> IF i = 1 THEN ss[i] ELSE f[i - 1] \o ss[i]]
           F == [f \in [D -> V] |-> rhs(f)]
           Rank == [i \in D |-> i]
           base == [i \in D |-> ss[i]]
<1>1. n \in Nat /\ n # 0 /\ \A i \in D : ss[i] \in V
  BY LenProperties, ElementOfSeq
<1>2. Rank \in [D -> Nat] /\ base \in [D -> V]
  BY <1>1
<1>3. ASSUME NEW f \in [D -> V] PROVE rhs(f) \in [D -> V]
  <2>1. ASSUME NEW i \in D, i # 1 PROVE f[i - 1] \o ss[i] \in V
    <3>1. i - 1 \in D
      BY <1>1, <2>1
    <3>2. f[i - 1] \in V /\ ss[i] \in V
      <4> HIDE DEF D, V
      <4> QED
        BY <1>1, <3>1
    <3> QED
      BY <3>2, ConcatProperties
  <2> QED
    BY <2>1, <1>1
<1>4. F \in [[D -> V] -> [D -> V]]
  <2> HIDE DEF rhs, D, V
  <2> QED
    BY <1>3
<1>5. ASSUME NEW f \in [D -> V], NEW g \in [D -> V], NEW d \in D,
             \A c \in D : Rank[c] < Rank[d] => f[c] = g[c]
      PROVE  F[f][d] = F[g][d]
  <2>1. F[f][d] = rhs(f)[d] /\ F[g][d] = rhs(g)[d]
    <3> HIDE DEF rhs
    <3> QED
      OBVIOUS
  <2>2. d # 1 => d - 1 \in D /\ Rank[d - 1] < Rank[d]
    BY <1>1
  <2>3. d # 1 => f[d - 1] = g[d - 1]
    BY <1>5, <2>2
  <2> QED
    BY <2>1, <2>3
<1>6. PICK f \in [D -> V] : f = rhs(f)
  <2>1. LooksBelow(D, V, Rank, F)
    <3>1. [D -> V] # {}
      BY <1>2
    <3> HIDE DEF D, V, F, Rank, base
    <3> QED
      BY <3>1, <1>2, <1>4, <1>5 DEF LooksBelow
  <2>2. \E f \in [D -> V] : f = F[f]
    <3> HIDE DEF D, V, F, Rank, base, rhs, n
    <3> QED
      BY <2>1, FixedPoint DEF HasFixedPoint
  <2> HIDE DEF rhs
  <2> QED
    BY <2>2
<1> DEFINE g == CHOOSE f1 : f1 = rhs(f1)
<1>7. g = rhs(g)
  <2> HIDE DEF rhs
  <2> QED
    BY <1>6
<1>8. FlattenSeq(ss) = g[n]
  BY DEF FlattenSeq
<1> HIDE DEF g
<1>9. ASSUME NEW d \in D, \A c \in D : Rank[c] < Rank[d] => f[c] = g[c] PROVE f[d] = g[d]
  <2>1. f[d] = rhs(f)[d] /\ g[d] = rhs(g)[d]
    BY <1>6, <1>7
  <2>2. d # 1 => d - 1 \in D /\ Rank[d - 1] < Rank[d]
    BY <1>1
  <2>3. d # 1 => f[d - 1] = g[d - 1]
    BY <1>9, <2>2
  <2> QED
    BY <2>1, <2>3
<1>10. \A d \in D : f[d] = g[d]
  <2>1. Rank \in [D -> Nat]
    BY <1>2
  <2> HIDE DEF D, Rank
  <2>2. AgreeStepwise(D, Rank, f, g)
    BY <1>9 DEF AgreeStepwise
  <2> HIDE DEF V, rhs, F, base, n
  <2> QED
    BY <2>1, <2>2, Agree
<1>11. \A i \in D : f[i] = IF i = 1 THEN ss[i] ELSE f[i - 1] \o ss[i]
  BY <1>6
<1>12. FlattenSeq(ss) = f[n]
  BY <1>1, <1>8, <1>10
<1> QED
  BY <1>11, <1>12

\* The parts ss stand in t one after the other, part k from pos[k - 1] to pos[k].
Laid(ss, t, pos) ==
  /\ pos \in [0..Len(ss) -> Nat]
  /\ \A k \in 1..Len(ss) : pos[k] = pos[k - 1] + Len(ss[k]) /\ Occurs(ss[k], t, pos[k - 1])

\* Where FlattenSeq(ss) stands, its parts stand one after the other.
LEMMA FlattenLaid ==
  ASSUME NEW S, NEW ss \in Seq(Seq(S))
  PROVE  /\ FlattenSeq(ss) \in Seq(S)
         /\ \A t : \A p \in Nat : Occurs(FlattenSeq(ss), t, p) =>
              \E pos : /\ Laid(ss, t, pos) /\ pos[0] = p
                       /\ pos[Len(ss)] = p + Len(FlattenSeq(ss))
<1> DEFINE n == Len(ss)
<1>1. n \in Nat /\ \A i \in 1..n : ss[i] \in Seq(S)
  BY LenProperties, ElementOfSeq
<1>2. CASE n = 0
  <2>1. FlattenSeq(ss) = ss /\ ss = <<>>
    BY <1>2, EmptySeq DEF FlattenSeq
  <2>2. ASSUME NEW t, NEW p \in Nat
        PROVE  \E pos : /\ Laid(ss, t, pos) /\ pos[0] = p
                        /\ pos[Len(ss)] = p + Len(FlattenSeq(ss))
    <3> DEFINE pos == [k \in 0..n |-> p]
    <3>1. Laid(ss, t, pos) /\ pos[0] = p /\ pos[n] = p
      BY <1>2 DEF Laid
    <3>2. p + Len(FlattenSeq(ss)) = p
      BY <1>2, <2>1
    <3> QED
      BY <3>1, <3>2
  <2>3. FlattenSeq(ss) \in Seq(S)
    <3>1. <<>> \in Seq(S)
      OBVIOUS
    <3> QED
      BY <2>1, <3>1, Zenon
  <2> HIDE DEF n
  <2> QED
    BY <2>2, <2>3, Zenon
<1>3. CASE n # 0
  <2>1. PICK g \in [1..n -> Seq(S)] :
          /\ FlattenSeq(ss) = g[n]
          /\ \A i \in 1..n : g[i] = IF i = 1 THEN ss[i] ELSE g[i - 1] \o ss[i]
    BY <1>3, FlattenEquation
  <2>2. g[n] \in Seq(S)
    BY <1>1, <1>3
  <2>3. ASSUME NEW t, NEW p \in Nat, Occurs(g[n], t, p)
        PROVE  \E pos : /\ Laid(ss, t, pos) /\ pos[0] = p /\ pos[n] = p + Len(g[n])
    <3> DEFINE P == {j \in Nat : j < n => Occurs(g[n - j], t, p)}
    <3>0. ASSUME NEW i \in 1..n, i # 1 PROVE i - 1 \in 1..n /\ g[i] = g[i - 1] \o ss[i]
      <4>1. i - 1 \in 1..n
        BY <1>1, <3>0
      <4>2. g[i] = g[i - 1] \o ss[i]
        BY <2>1, <3>0, Zenon
      <4> QED
        BY <4>1, <4>2, Zenon
    <3>1. ASSUME NEW i \in 1..n, i # 1, Occurs(g[i], t, p)
          PROVE  Occurs(g[i - 1], t, p) /\ Occurs(ss[i], t, p + Len(g[i - 1]))
      <4>1. i - 1 \in 1..n /\ g[i] = g[i - 1] \o ss[i]
        BY <3>0, <3>1
      <4>2. g[i - 1] \in Seq(S) /\ ss[i] \in Seq(S)
        BY <1>1, <4>1
      <4> QED
        BY <3>1, <4>1, <4>2, OccursConcat
    <3>2. P = Nat
      <4>1. 0 \in P
        BY <1>1, <2>3
      <4>2. ASSUME NEW j \in P, j + 1 < n PROVE Occurs(g[n - (j + 1)], t, p)
        <5>1. n - j \in 1..n /\ n - j # 1 /\ (n - j) - 1 = n - (j + 1) /\ j < n
          BY <1>1, <4>2
        <5>2. Occurs(g[n - j], t, p)
          BY <5>1
        <5>3. Occurs(g[(n - j) - 1], t, p)
          BY <5>1, <5>2, <3>1
        <5> QED
          BY <5>1, <5>3
      <4>3. ASSUME NEW j \in P PROVE j + 1 \in P
        <5>1. j + 1 \in Nat
          OBVIOUS
        <5> QED
          BY <4>2, <5>1
      <4> HIDE DEF P
      <4>4. P \in SUBSET Nat
        BY DEF P
      <4> QED
        BY <4>1, <4>3, <4>4, SetInduction
    <3>3. ASSUME NEW i \in 1..n PROVE Occurs(g[i], t, p)
      <4>1. n - i \in Nat /\ n - i < n /\ n - (n - i) = i
        BY <1>1
      <4>2. n - i \in P
        <5> HIDE DEF P
        <5> QED
          BY <4>1, <3>2
      <4> QED
        BY <4>1, <4>2
    <3> DEFINE pos == [k \in 0..n |-> p + (IF k = 0 THEN 0 ELSE Len(g[k]))]
    <3>4. \A i \in 1..n : Len(g[i]) \in Nat
      BY LenProperties
    <3>5. pos \in [0..n -> Nat] /\ pos[0] = p /\ \A i \in 1..n : pos[i] = p + Len(g[i])
      BY <3>4, <1>1
    <3>6. ASSUME NEW k \in 1..n
          PROVE  pos[k] = pos[k - 1] + Len(ss[k]) /\ Occurs(ss[k], t, pos[k - 1])
      <4>1. CASE k = 1
        <5>1. g[k] = ss[k]
          BY <4>1, <2>1, Zenon
        <5>2. pos[k - 1] = p /\ pos[k] = p + Len(g[k])
          BY <4>1, <3>5
        <5> QED
          BY <5>1, <5>2, <3>3
      <4>2. CASE k # 1
        <5>1. k - 1 \in 1..n /\ g[k] = g[k - 1] \o ss[k]
          BY <3>0, <4>2
        <5>2. g[k - 1] \in Seq(S) /\ ss[k] \in Seq(S)
          BY <1>1, <5>1
        <5>3. Len(g[k]) = Len(g[k - 1]) + Len(ss[k])
          BY <5>1, <5>2, ConcatProperties
        <5>4. Len(g[k - 1]) \in Nat /\ Len(ss[k]) \in Nat
          BY <5>2, LenProperties
        <5>5. pos[k] = p + Len(g[k]) /\ pos[k - 1] = p + Len(g[k - 1])
          BY <5>1, <3>5
        <5>6. Occurs(ss[k], t, p + Len(g[k - 1]))
          BY <3>1, <3>3, <4>2
        <5> DEFINE a == Len(g[k])  b == Len(g[k - 1])  c == Len(ss[k])
        <5>7. pos[k] = pos[k - 1] + c
          <6> HIDE DEF a, b, c, pos
          <6>1. p \in Nat /\ a = b + c /\ b \in Nat /\ c \in Nat /\ pos[k] = p + a /\ pos[k - 1] = p + b
            BY <5>3, <5>4, <5>5 DEF a, b, c
          <6> QED
            BY <6>1
        <5>8. Occurs(ss[k], t, pos[k - 1])
          <6> HIDE DEF pos
          <6> QED
            BY <5>5, <5>6
        <5> HIDE DEF pos
        <5> QED
          BY <5>7, <5>8
      <4> QED
        BY <4>1, <4>2
    <3>7. Laid(ss, t, pos)
      <4> HIDE DEF pos
      <4> QED
        BY <3>5, <3>6 DEF Laid
    <3>8. pos[n] = p + Len(g[n])
      BY <1>1, <1>3, <3>5
    <3> HIDE DEF pos
    <3> QED
      BY <3>5, <3>7, <3>8
  <2> QED
    BY <2>1, <2>2, <2>3
<1> QED
  BY <1>1, <1>2, <1>3

----------------------------------------------------------------------------
(* Sorted keys *)

\* Sorted lists every key.
LEMMA SortedFacts ==
  ASSUME NEW K \in SUBSET Names, IsFiniteSet(K)
  PROVE  /\ Sorted(K) \in Seq(K)
         /\ \A k \in K : \E i \in 1..Len(Sorted(K)) : Sorted(K)[i] = k
<1> DEFINE n == Cardinality(K)
           below(k) == {j \in K : <<j, k>> \in Before}
           rank(k) == Cardinality(below(k))
           f == [k \in K |-> rank(k) + 1]
<1>1. n \in Nat
  BY FS_CardinalityType
<1>2. /\ \A j, k \in K : <<j, k>> \in Before <=> j # k /\ <<k, j>> \notin Before
      /\ \A j, k, l \in K : <<j, k>> \in Before /\ <<k, l>> \in Before => <<j, l>> \in Before
  BY JsonAssumption
<1>3. ASSUME NEW k \in K PROVE rank(k) \in Nat /\ rank(k) < n /\ IsFiniteSet(below(k))
  <2>1. below(k) \in SUBSET K /\ below(k) # K
    BY <1>2
  <2> HIDE DEF below
  <2>2. rank(k) <= n /\ n # rank(k) /\ IsFiniteSet(below(k))
    BY <2>1, FS_Subset
  <2>3. rank(k) \in Nat
    BY <2>2, FS_CardinalityType
  <2> QED
    BY <1>1, <2>2, <2>3
<1>4. ASSUME NEW j \in K, NEW k \in K, <<j, k>> \in Before PROVE rank(j) # rank(k)
  <2>1. below(j) \in SUBSET below(k)
    BY <1>2, <1>4
  <2>2. j \in below(k) /\ j \notin below(j)
    BY <1>2, <1>4
  <2>3. below(k) # below(j)
    BY <2>2, Zenon
  <2> HIDE DEF below
  <2> QED
    BY <2>1, <2>3, <1>3, FS_Subset
<1>5. ASSUME NEW j \in K, NEW k \in K, rank(j) = rank(k) PROVE j = k
  <2>1. <<j, k>> \in Before \/ <<k, j>> \in Before \/ j = k
    BY <1>2
  <2> HIDE DEF rank
  <2> QED
    BY <1>4, <1>5, <2>1
<1>6. ASSUME NEW i \in 1..n PROVE \E k \in K : rank(k) = i - 1
  <2>1. f \in [K -> 1..n] /\ \A k \in K : f[k] = rank(k) + 1
    <3>1. ASSUME NEW k \in K PROVE rank(k) + 1 \in 1..n
      <4>1. rank(k) \in Nat /\ rank(k) < n
        BY <1>3
      <4> HIDE DEF rank, n
      <4> QED
        BY <1>1, <4>1
    <3> HIDE DEF rank, n
    <3> QED
      BY <3>1
  <2>2. ASSUME NEW j \in K, NEW k \in K, f[j] = f[k] PROVE j = k
    <3>1. rank(j) = rank(k)
      <4>1. rank(j) \in Nat /\ rank(k) \in Nat
        BY <1>3
      <4>2. rank(j) + 1 = rank(k) + 1
        BY <2>1, <2>2
      <4> HIDE DEF rank
      <4> QED
        BY <4>1, <4>2
    <3> QED
      BY <3>1, <1>5
  <2>3. f \in Injection(K, 1..n)
    <3> HIDE DEF f
    <3> QED
      BY <2>1, <2>2 DEF Injection, IsInjective
  <2>4. IsFiniteSet(1..n) /\ Cardinality(1..n) = n
    BY <1>1, FS_Interval
  <2>5. f \in Surjection(K, 1..n)
    <3> HIDE DEF f
    <3> QED
      BY <2>3, <2>4, FS_Injection
  <2>6. PICK k \in K : f[k] = i
    <3> HIDE DEF f
    <3> QED
      BY <2>5 DEF Surjection
  <2>7. rank(k) + 1 = i
    BY <2>1, <2>6
  <2>8. rank(k) \in Nat
    BY <1>3
  <2> HIDE DEF rank, n
  <2> QED
    BY <2>7, <2>8, <1>1
<1> DEFINE s == Sorted(K)
<1>7. s = [i \in 1..n |-> CHOOSE k \in K : rank(k) = i - 1]
  BY DEF Sorted
<1>8. ASSUME NEW i \in 1..n PROVE s[i] \in K /\ rank(s[i]) = i - 1
  <2> HIDE DEF rank, s
  <2>1. s[i] = CHOOSE k \in K : rank(k) = i - 1
    BY <1>7
  <2> QED
    BY <1>6, <2>1
<1>9. s \in [1..n -> K]
  <2> HIDE DEF rank, s
  <2> QED
    BY <1>7, <1>8
<1>10. s \in Seq(K) /\ Len(s) = n
  <2> HIDE DEF s
  <2> QED
    BY <1>1, <1>9, FunctionIsSeq
<1>11. ASSUME NEW k \in K PROVE \E i \in 1..n : s[i] = k
  <2>1. rank(k) + 1 \in 1..n /\ (rank(k) + 1) - 1 = rank(k)
    <3>1. rank(k) \in Nat /\ rank(k) < n
      BY <1>3
    <3> HIDE DEF rank, n
    <3> QED
      BY <1>1, <3>1
  <2> HIDE DEF rank, s
  <2>2. s[rank(k) + 1] \in K /\ rank(s[rank(k) + 1]) = rank(k)
    BY <1>8, <2>1
  <2> QED
    BY <1>5, <2>1, <2>2
<1> QED
  BY <1>10, <1>11

----------------------------------------------------------------------------
(* One level of a JSON value *)

\* What canonical strings are made of.
Tokens == Literals \cup Names \cup {"[", "]", "{", "}"}

\* The three kinds of node.
LEMMA NodeKinds ==
  ASSUME NEW node, IsNode(node)
  PROVE  \/ node.kind = "leaf" /\ \E l \in Literals : node = Leaf(l)
         \/ node.kind = "array" /\ node = Array(node.kids) /\ node.kids \in Seq(Json)
         \/ /\ node.kind = "object" /\ node = Object(node.names, node.kids)
            /\ node.names \in Seq(Names) /\ node.kids \in Seq(Json)
            /\ Len(node.kids) = Len(node.names)
<1>1. \A l : Leaf(l).kind = "leaf"
  BY DEF Leaf
<1>2. \A items : Array(items).kind = "array"
  BY DEF Array
<1>3. \A keys, vals : Object(keys, vals).kind = "object"
  BY DEF Object
<1> QED
  BY <1>1, <1>2, <1>3, Zenon DEF IsNode

\* The members of a node are JSON values.
LEMMA KidsInJson ==
  ASSUME NEW node, IsNode(node), NEW i \in DOMAIN node.kids
  PROVE  node.kids[i] \in Json
<1>1. CASE \E l \in Literals : node = Leaf(l)
  BY <1>1 DEF Leaf
<1>2. CASE node.kids \in Seq(Json)
  BY <1>2
<1> QED
  BY <1>1, <1>2 DEF IsNode

\* The own keys of an object, and the members under them.
LEMMA ObjectFacts ==
  ASSUME NEW node, IsNode(node), node.kind = "object"
  PROVE  /\ OwnKeys(node) \in SUBSET Names
         /\ IsFiniteSet(OwnKeys(node))
         /\ \A k \in OwnKeys(node) : \E i \in DOMAIN node.kids : Value(node, k) = node.kids[i]
         /\ \A k \in OwnKeys(node) : Value(node, k) \in Json
<1> DEFINE names == node.names
<1>1. names \in Seq(Names) /\ Len(node.kids) = Len(names) /\ node.kids \in Seq(Json)
  BY NodeKinds
<1>2. DOMAIN names = 1..Len(names) /\ Len(names) \in Nat /\ DOMAIN node.kids = DOMAIN names
  BY <1>1, LenProperties
<1>3. ToSet(names) \in SUBSET Names
  BY <1>1, <1>2, ElementOfSeq DEF ToSet
<1>4. IsFiniteSet(ToSet(names))
  <2>1. names \in Surjection(1..Len(names), ToSet(names))
    <3>1. names \in [1..Len(names) -> ToSet(names)]
      BY <1>1, <1>2 DEF ToSet
    <3>2. \A x \in ToSet(names) : \E j \in 1..Len(names) : names[j] = x
      BY <1>2 DEF ToSet
    <3> QED
      BY <3>1, <3>2 DEF Surjection
  <2>2. IsFiniteSet(1..Len(names))
    BY <1>2, FS_Interval
  <2> HIDE DEF names
  <2> QED
    BY <2>1, <2>2, FS_Surjection
<1>5. OwnKeys(node) \in SUBSET ToSet(names)
  BY DEF OwnKeys
<1>6. ASSUME NEW k \in OwnKeys(node)
      PROVE  \E i \in DOMAIN node.kids : Value(node, k) = node.kids[i]
  <2>1. \E i \in DOMAIN names : names[i] = k
    BY <1>5 DEF ToSet
  <2>2. (CHOOSE i \in DOMAIN names : names[i] = k) \in DOMAIN names
    BY <2>1
  <2> QED
    BY <1>2, <2>2 DEF Value
<1>7. ASSUME NEW k \in OwnKeys(node) PROVE Value(node, k) \in Json
  BY <1>6, KidsInJson
<1>8. IsFiniteSet(OwnKeys(node))
  BY <1>4, <1>5, FS_Subset
<1> QED
  BY <1>3, <1>5, <1>6, <1>7, <1>8

\* What one level is written as, when string gives the strings of the members.
Written(node, string) == Stringify(SortKeys(node), string)

\* What is written between the brackets of an array and of an object.
ItemStrings(node, string) == [i \in DOMAIN node.kids |-> string[node.kids[i]]]

MemberStrings(node, string) ==
  [i \in DOMAIN Sorted(OwnKeys(node)) |->
     <<Sorted(OwnKeys(node))[i]>> \o string[Value(node, Sorted(OwnKeys(node))[i])]]

\* A leaf is written as its literal.
LEMMA WrittenLeaf ==
  ASSUME NEW l, NEW string
  PROVE  Written(Leaf(l), string) = <<l>>
<1>1. Leaf(l).kind = "leaf" /\ Leaf(l).names = <<l>>
  BY DEF Leaf
<1>2. SortKeys(Leaf(l)) = Leaf(l)
  BY <1>1 DEF SortKeys
<1> QED
  BY <1>1, <1>2 DEF Written, Stringify

\* An array is written as the strings of its items in brackets.
LEMMA WrittenArray ==
  ASSUME NEW node, node.kind = "array", NEW string
  PROVE  Written(node, string) = <<"[">> \o FlattenSeq(ItemStrings(node, string)) \o <<"]">>
<1>1. SortKeys(node) = node
  BY DEF SortKeys
<1> QED
  BY <1>1 DEF Written, Stringify, ItemStrings

\* An object is written as its own keys in order, each before its value.
LEMMA WrittenObject ==
  ASSUME NEW node, node.kind = "object", NEW string
  PROVE  Written(node, string) = <<"{">> \o FlattenSeq(MemberStrings(node, string)) \o <<"}">>
<1> DEFINE keys == Sorted(OwnKeys(node))
           vals == [i \in DOMAIN keys |-> Value(node, keys[i])]
           o    == Object(keys, vals)
           ms   == [i \in DOMAIN o.kids |-> <<o.names[i]>> \o string[o.kids[i]]]
<1>1. SortKeys(node) = o
  BY DEF SortKeys
<1> HIDE DEF keys
<1>2. o.kind = "object" /\ o.names = keys /\ o.kids = vals
  BY DEF Object
<1>3. Stringify(o, string) = <<"{">> \o FlattenSeq(ms) \o <<"}">>
  <2> HIDE DEF o
  <2> QED
    BY <1>2 DEF Stringify
<1>4. ms = [i \in DOMAIN keys |-> <<keys[i]>> \o string[Value(node, keys[i])]]
  <2> HIDE DEF o
  <2>1. DOMAIN o.kids = DOMAIN keys
    BY <1>2
  <2>2. \A i \in DOMAIN keys : o.kids[i] = Value(node, keys[i]) /\ o.names[i] = keys[i]
    BY <1>2
  <2> QED
    BY <2>1, <2>2
<1>5. ms = MemberStrings(node, string)
  <2> HIDE DEF ms
  <2> QED
    BY <1>4 DEF MemberStrings, keys
<1> HIDE DEF ms, o
<1> QED
  BY <1>1, <1>3, <1>5 DEF Written

\* A level is written the same with two ways of writing that agree on the members.
LEMMA WrittenAgrees ==
  ASSUME NEW node, IsNode(node), NEW f, NEW g,
         \A i \in DOMAIN node.kids : f[node.kids[i]] = g[node.kids[i]]
  PROVE  Written(node, f) = Written(node, g)
<1>1. CASE node.kind = "leaf"
  <2>1. PICK l : node = Leaf(l)
    BY <1>1, NodeKinds
  <2> QED
    BY <2>1, WrittenLeaf
<1>2. CASE node.kind = "array"
  <2>1. ItemStrings(node, f) = ItemStrings(node, g)
    BY DEF ItemStrings
  <2> QED
    BY <1>2, <2>1, WrittenArray
<1>3. CASE node.kind = "object"
  <2> DEFINE keys == Sorted(OwnKeys(node))
  <2>1. ASSUME NEW i \in DOMAIN keys PROVE f[Value(node, keys[i])] = g[Value(node, keys[i])]
    <3>1. keys[i] \in OwnKeys(node)
      BY <1>3, ObjectFacts, SortedFacts, ElementOfSeq, LenProperties
    <3> QED
      BY <1>3, <3>1, ObjectFacts
  <2>2. MemberStrings(node, f) = MemberStrings(node, g)
    BY <2>1 DEF MemberStrings
  <2> QED
    BY <1>3, <2>2, WrittenObject
<1> QED
  BY <1>1, <1>2, <1>3, NodeKinds

\* The strings of the items and of the members, and of the level around them.
LEMMA WrittenType ==
  ASSUME NEW node, IsNode(node), NEW string \in [Json -> Seq(Tokens)]
  PROVE  /\ Written(node, string) \in Seq(Tokens)
         /\ node.kind = "array" =>
              /\ ItemStrings(node, string) \in Seq(Seq(Tokens))
              /\ Len(ItemStrings(node, string)) = Len(node.kids)
         /\ node.kind = "object" =>
              /\ MemberStrings(node, string) \in Seq(Seq(Tokens))
              /\ Len(MemberStrings(node, string)) = Len(Sorted(OwnKeys(node)))
<1>0. /\ <<"[">> \in Seq(Tokens) /\ <<"]">> \in Seq(Tokens)
      /\ <<"{">> \in Seq(Tokens) /\ <<"}">> \in Seq(Tokens)
  <2>1. "[" \in Tokens /\ "]" \in Tokens /\ "{" \in Tokens /\ "}" \in Tokens
    BY DEF Tokens
  <2>2. \A x \in Tokens : <<x>> \in Seq(Tokens)
    OBVIOUS
  <2> QED
    BY <2>1, <2>2, Zenon
<1>1. CASE node.kind = "leaf"
  <2>1. PICK l \in Literals : node = Leaf(l)
    BY <1>1, NodeKinds
  <2>2. <<l>> \in Seq(Tokens)
    <3>1. l \in Tokens
      BY DEF Tokens
    <3> QED
      BY <3>1
  <2> QED
    BY <1>1, <2>1, <2>2, WrittenLeaf
<1>2. CASE node.kind = "array"
  <2> DEFINE ss == ItemStrings(node, string)
  <2>1. DOMAIN node.kids = 1..Len(node.kids) /\ Len(node.kids) \in Nat
    BY <1>2, NodeKinds, LenProperties
  <2>2. ss \in [1..Len(node.kids) -> Seq(Tokens)]
    BY <2>1, KidsInJson DEF ItemStrings
  <2> HIDE DEF ss
  <2>3. ss \in Seq(Seq(Tokens)) /\ Len(ss) = Len(node.kids)
    BY <2>1, <2>2, FunctionIsSeq
  <2>4. FlattenSeq(ss) \in Seq(Tokens)
    BY <2>3, FlattenLaid
  <2>5. <<"[">> \o FlattenSeq(ss) \o <<"]">> \in Seq(Tokens)
    BY <1>0, <2>4, ConcatProperties
  <2> QED
    BY <1>2, <2>3, <2>5, WrittenArray DEF ss
<1>3. CASE node.kind = "object"
  <2> DEFINE ss == MemberStrings(node, string)
             keys == Sorted(OwnKeys(node))
  <2>1. keys \in Seq(OwnKeys(node))
    BY <1>3, ObjectFacts, SortedFacts
  <2>2. DOMAIN keys = 1..Len(keys) /\ Len(keys) \in Nat
    BY <2>1, LenProperties
  <2>3. ASSUME NEW i \in 1..Len(keys) PROVE <<keys[i]>> \o string[Value(node, keys[i])] \in Seq(Tokens)
    <3>1. keys[i] \in OwnKeys(node)
      BY <2>1, <2>2, ElementOfSeq
    <3>2. keys[i] \in Tokens
      BY <3>1, <1>3, ObjectFacts DEF Tokens
    <3>3. string[Value(node, keys[i])] \in Seq(Tokens)
      BY <3>1, <1>3, ObjectFacts
    <3>4. <<keys[i]>> \in Seq(Tokens)
      BY <3>2
    <3> QED
      BY <3>3, <3>4, ConcatProperties
  <2>4. ss \in [1..Len(keys) -> Seq(Tokens)]
    BY <2>2, <2>3 DEF MemberStrings
  <2> HIDE DEF ss, keys
  <2>5. ss \in Seq(Seq(Tokens)) /\ Len(ss) = Len(keys)
    BY <2>2, <2>4, FunctionIsSeq
  <2>6. FlattenSeq(ss) \in Seq(Tokens)
    BY <2>5, FlattenLaid
  <2>7. <<"{">> \o FlattenSeq(ss) \o <<"}">> \in Seq(Tokens)
    BY <1>0, <2>6, ConcatProperties
  <2> QED
    BY <1>3, <2>5, <2>7, WrittenObject DEF ss, keys
<1> QED
  BY <1>1, <1>2, <1>3, NodeKinds

----------------------------------------------------------------------------
(* The recursive definitions have the solution they ask for *)

\* The members of a value nest less deeply than the value.
LEMMA KidsBelow ==
  ASSUME NEW node \in Json
  PROVE  /\ IsNode(node) /\ Depth[node] \in Nat
         /\ \A i \in DOMAIN node.kids : node.kids[i] \in Json /\ Depth[node.kids[i]] < Depth[node]
BY KidsInJson, JsonAssumption

\* CanonicalString satisfies its equation.
LEMMA CanonicalStringFacts ==
  /\ CanonicalString \in [Json -> Seq(Tokens)]
  /\ \A node \in Json : CanonicalString[node] = Written(node, CanonicalString)
<1> DEFINE V == Seq(Tokens)
           rhs(f) == [node \in Json |-> Written(node, f)]
           F == [f \in [Json -> V] |-> rhs(f)]
<1>1. Depth \in [Json -> Nat]
  BY JsonAssumption
<1>2. [Json -> V] # {}
  <2>1. [node \in Json |-> <<>>] \in [Json -> V]
    OBVIOUS
  <2> QED
    BY <2>1
<1>3. ASSUME NEW f \in [Json -> V] PROVE rhs(f) \in [Json -> V]
  BY KidsBelow, WrittenType
<1>4. F \in [[Json -> V] -> [Json -> V]]
  <2> HIDE DEF rhs, V
  <2> QED
    BY <1>3
<1>5. ASSUME NEW f, NEW g, NEW d \in Json,
             \A c \in Json : Depth[c] < Depth[d] => f[c] = g[c]
      PROVE  Written(d, f) = Written(d, g)
  <2>1. \A i \in DOMAIN d.kids : f[d.kids[i]] = g[d.kids[i]]
    BY <1>5, KidsBelow
  <2> QED
    BY <2>1, KidsBelow, WrittenAgrees
<1>6. LooksBelow(Json, V, Depth, F)
  <2>1. ASSUME NEW f \in [Json -> V], NEW d \in Json PROVE F[f][d] = Written(d, f)
    <3> HIDE DEF V
    <3> QED
      OBVIOUS
  <2> HIDE DEF V, F
  <2>2. ASSUME NEW f \in [Json -> V], NEW g \in [Json -> V], NEW d \in Json,
               \A c \in Json : Depth[c] < Depth[d] => f[c] = g[c]
        PROVE  F[f][d] = F[g][d]
    BY <2>1, <2>2, <1>5
  <2> QED
    BY <1>1, <1>2, <1>4, <2>2 DEF LooksBelow
<1>7. PICK f \in [Json -> V] : f = rhs(f)
  <2>1. \E f \in [Json -> V] : f = F[f]
    <3> HIDE DEF V, F, rhs
    <3> QED
      BY <1>6, FixedPoint DEF HasFixedPoint
  <2> HIDE DEF rhs
  <2> QED
    BY <2>1
<1>8. CanonicalString = rhs(CanonicalString)
  <2>1. CanonicalString = CHOOSE g : g = rhs(g)
    BY DEF CanonicalString, Written
  <2> HIDE DEF rhs
  <2> QED
    BY <1>7, <2>1
<1>9. AgreeStepwise(Json, Depth, f, CanonicalString)
  <2>1. \A d \in Json : f[d] = Written(d, f) /\ CanonicalString[d] = Written(d, CanonicalString)
    BY <1>7, <1>8
  <2> QED
    BY <1>5, <2>1 DEF AgreeStepwise
<1>10. \A d \in Json : f[d] = CanonicalString[d]
  BY <1>1, <1>9, Agree
<1>11. \A d \in Json : CanonicalString[d] \in V
  BY <1>7, <1>10
<1> QED
  BY <1>8, <1>11

\* Values that say the same but for members named __proto__, which no string
\* has: what a canonical string can be read back to.
AlikeOwn(a, b, same) ==
  /\ a.kind = b.kind
  /\ CASE a.kind = "leaf"  -> a.names = b.names
       [] a.kind = "array" -> /\ Len(a.kids) = Len(b.kids)
                              /\ \A i \in DOMAIN a.kids : b.kids[i] \in same[a.kids[i]]
       [] OTHER -> /\ OwnKeys(a) = OwnKeys(b)
                   /\ \A k \in OwnKeys(a) : Value(b, k) \in same[Value(a, k)]

SameOwn[a \in Json] == {b \in Json : AlikeOwn(a, b, SameOwn)}

\* SameOwn satisfies its equation.
LEMMA SameOwnFacts ==
  /\ SameOwn \in [Json -> SUBSET Json]
  /\ \A a, b \in Json : b \in SameOwn[a] <=> AlikeOwn(a, b, SameOwn)
<1> DEFINE V == SUBSET Json
           rhs(f) == [a \in Json |-> {b \in Json : AlikeOwn(a, b, f)}]
           F == [f \in [Json -> V] |-> rhs(f)]
<1>1. Depth \in [Json -> Nat]
  BY JsonAssumption
<1>2. [Json -> V] # {}
  <2>1. [node \in Json |-> {}] \in [Json -> V]
    OBVIOUS
  <2> QED
    BY <2>1
<1>3. F \in [[Json -> V] -> [Json -> V]]
  OBVIOUS
<1>5. ASSUME NEW f, NEW g, NEW a \in Json,
             \A c \in Json : Depth[c] < Depth[a] => f[c] = g[c]
      PROVE  {b \in Json : AlikeOwn(a, b, f)} = {b \in Json : AlikeOwn(a, b, g)}
  <2>1. \A i \in DOMAIN a.kids : f[a.kids[i]] = g[a.kids[i]]
    BY <1>5, KidsBelow
  <2>2. a.kind = "object" => \A k \in OwnKeys(a) : f[Value(a, k)] = g[Value(a, k)]
    BY <2>1, KidsBelow, ObjectFacts
  <2>3. a.kind = "leaf" \/ a.kind = "array" \/ a.kind = "object"
    BY KidsBelow, NodeKinds
  <2>4. ASSUME NEW b \in Json PROVE AlikeOwn(a, b, f) <=> AlikeOwn(a, b, g)
    BY <2>1, <2>2, <2>3 DEF AlikeOwn
  <2> QED
    BY <2>4
<1>6. LooksBelow(Json, V, Depth, F)
  <2>1. ASSUME NEW f \in [Json -> V], NEW a \in Json PROVE F[f][a] = {b \in Json : AlikeOwn(a, b, f)}
    <3> HIDE DEF V
    <3> QED
      OBVIOUS
  <2> HIDE DEF V, F
  <2>2. ASSUME NEW f \in [Json -> V], NEW g \in [Json -> V], NEW d \in Json,
               \A c \in Json : Depth[c] < Depth[d] => f[c] = g[c]
        PROVE  F[f][d] = F[g][d]
    <3>1. {b \in Json : AlikeOwn(d, b, f)} = {b \in Json : AlikeOwn(d, b, g)}
      BY <2>2, <1>5
    <3>2. F[f][d] = {b \in Json : AlikeOwn(d, b, f)} /\ F[g][d] = {b \in Json : AlikeOwn(d, b, g)}
      BY <2>1
    <3> QED
      BY <3>1, <3>2, Zenon
  <2> QED
    BY <1>1, <1>2, <1>3, <2>2 DEF LooksBelow
<1>7. PICK f \in [Json -> V] : f = rhs(f)
  <2>1. \E f \in [Json -> V] : f = F[f]
    <3> HIDE DEF V, F, rhs
    <3> QED
      BY <1>6, FixedPoint DEF HasFixedPoint
  <2> HIDE DEF rhs
  <2> QED
    BY <2>1
<1>8. SameOwn = rhs(SameOwn)
  <2>1. SameOwn = CHOOSE g : g = rhs(g)
    BY DEF SameOwn
  <2> HIDE DEF rhs
  <2> QED
    BY <1>7, <2>1
<1> QED
  BY <1>8

----------------------------------------------------------------------------
(* Reading a canonical string back *)

\* open, x and close stand in t after the first p positions.
Enclosed(open, x, close, t, p) ==
  /\ t[p + 1] = open /\ Occurs(x, t, p + 1) /\ t[(p + 1) + Len(x) + 1] = close
  /\ Len(<<open>> \o x \o <<close>>) = Len(x) + 2

\* Reading a bracketed string: the brackets, and what is between them.
LEMMA Bracketed ==
  ASSUME NEW open \in Tokens, NEW close \in Tokens, NEW x \in Seq(Tokens), NEW t, NEW p \in Nat,
         Occurs(<<open>> \o x \o <<close>>, t, p)
  PROVE  Enclosed(open, x, close, t, p)
<1> DEFINE u == <<open>> \o x
<1>1. /\ <<open>> \in Seq(Tokens) /\ Len(<<open>>) = 1 /\ <<open>>[1] = open
      /\ <<close>> \in Seq(Tokens) /\ Len(<<close>>) = 1 /\ <<close>>[1] = close
  OBVIOUS
<1>2. u \in Seq(Tokens) /\ Len(u) = 1 + Len(x)
  BY <1>1, ConcatProperties
<1>3. Len(x) \in Nat
  BY LenProperties
<1>4. Len(u \o <<close>>) = Len(u) + 1
  BY <1>1, <1>2, ConcatProperties
<1>5. Occurs(u, t, p) /\ Occurs(<<close>>, t, p + Len(u))
  <2> HIDE DEF u
  <2>1. Occurs(u \o <<close>>, t, p)
    BY DEF u
  <2> QED
    BY <1>1, <1>2, <2>1, OccursConcat
<1>6. Occurs(<<open>>, t, p) /\ Occurs(x, t, p + 1)
  BY <1>1, <1>5, OccursConcat
<1>7. t[p + 1] = open
  BY <1>1, <1>6 DEF Occurs
<1>8. t[(p + Len(u)) + 1] = close
  BY <1>1, <1>5 DEF Occurs
<1>9. (p + Len(u)) + 1 = (p + 1) + Len(x) + 1 /\ Len(u) + 1 = Len(x) + 2
  <2> HIDE DEF u
  <2> QED
    BY <1>2, <1>3
<1> HIDE DEF u
<1> QED
  BY <1>4, <1>6, <1>7, <1>8, <1>9 DEF u, Enclosed

\* No part is empty or starts with the closing bracket.
Guarded(ss, close) == \A k \in 1..Len(ss) : Len(ss[k]) \in Nat \ {0} /\ ss[k][1] # close

\* k-th parts that stand at one place are equally long.
EquallyLong(ss, tt, t) ==
  \A k \in 1..Len(ss) : k \in 1..Len(tt) =>
    \A q \in Nat : Occurs(ss[k], t, q) /\ Occurs(tt[k], t, q) => Len(ss[k]) = Len(tt[k])

\* Two lists of parts that are laid at one place and end in the same bracket
\* have the same number of parts, each pair of them at one place.
LEMMA ListReads ==
  ASSUME NEW S, NEW ss \in Seq(Seq(S)), NEW tt \in Seq(Seq(S)), NEW close, NEW t, NEW p \in Nat,
         Occurs(FlattenSeq(ss), t, p), t[p + Len(FlattenSeq(ss)) + 1] = close,
         Occurs(FlattenSeq(tt), t, p), t[p + Len(FlattenSeq(tt)) + 1] = close,
         Guarded(ss, close), Guarded(tt, close), EquallyLong(ss, tt, t)
  PROVE  /\ Len(ss) = Len(tt) /\ Len(FlattenSeq(ss)) = Len(FlattenSeq(tt))
         /\ \A k \in 1..Len(ss) : \E q \in Nat : Occurs(ss[k], t, q) /\ Occurs(tt[k], t, q)
<1> DEFINE m == Len(ss)  n == Len(tt)
<1>1. m \in Nat /\ n \in Nat
  BY LenProperties
<1>2. PICK pos : Laid(ss, t, pos) /\ pos[0] = p /\ pos[m] = p + Len(FlattenSeq(ss))
  BY FlattenLaid
<1>3. PICK qos : Laid(tt, t, qos) /\ qos[0] = p /\ qos[n] = p + Len(FlattenSeq(tt))
  BY FlattenLaid
<1>4. /\ \A k \in 0..m : pos[k] \in Nat
      /\ \A k \in 1..m : pos[k] = pos[k - 1] + Len(ss[k]) /\ Occurs(ss[k], t, pos[k - 1])
  BY <1>2 DEF Laid
<1>5. /\ \A k \in 0..n : qos[k] \in Nat
      /\ \A k \in 1..n : qos[k] = qos[k - 1] + Len(tt[k]) /\ Occurs(tt[k], t, qos[k - 1])
  BY <1>3 DEF Laid
<1> DEFINE P == {k \in Nat : k <= m /\ k <= n => pos[k] = qos[k]}
<1>6. P = Nat
  <2>1. 0 \in P
    BY <1>2, <1>3
  <2>2. ASSUME NEW k \in P, k + 1 <= m, k + 1 <= n PROVE pos[k + 1] = qos[k + 1]
    <3>1. k + 1 \in 1..m /\ k + 1 \in 1..n /\ (k + 1) - 1 = k /\ pos[k] = qos[k] /\ k \in 0..m
      <4>1. k \in Nat /\ (k <= m /\ k <= n => pos[k] = qos[k])
        OBVIOUS
      <4> HIDE DEF m, n, P
      <4>2. k <= m /\ k <= n
        BY <1>1, <2>2, <4>1
      <4>3. k + 1 \in 1..m /\ k + 1 \in 1..n /\ (k + 1) - 1 = k /\ k \in 0..m
        BY <1>1, <2>2, <4>1
      <4> QED
        BY <4>1, <4>2, <4>3
    <3>2. /\ pos[k + 1] = pos[k] + Len(ss[k + 1]) /\ Occurs(ss[k + 1], t, pos[k])
          /\ qos[k + 1] = pos[k] + Len(tt[k + 1]) /\ Occurs(tt[k + 1], t, pos[k])
      BY <1>4, <1>5, <3>1
    <3>3. Len(ss[k + 1]) = Len(tt[k + 1])
      BY <1>4, <3>1, <3>2 DEF EquallyLong
    <3> QED
      BY <3>2, <3>3
  <2>3. ASSUME NEW k \in P PROVE k + 1 \in P
    <3>1. k + 1 \in Nat
      OBVIOUS
    <3> QED
      BY <2>2, <3>1
  <2>4. P \in SUBSET Nat
    OBVIOUS
  <2> HIDE DEF P
  <2> QED
    BY <2>1, <2>3, <2>4, SetInduction
<1>7. ASSUME NEW k \in Nat, k <= m, k <= n PROVE pos[k] = qos[k]
  <2>1. k \in P
    <3> HIDE DEF P
    <3> QED
      BY <1>6
  <2> QED
    BY <1>7, <2>1
<1>8. ~ (m < n)
  <2>1. SUFFICES ASSUME m < n PROVE FALSE
    OBVIOUS
  <2>2. m + 1 \in 1..n /\ (m + 1) - 1 = m /\ pos[m] = qos[m]
    <3> HIDE DEF m, n
    <3>1. m + 1 \in 1..n /\ (m + 1) - 1 = m /\ m <= m /\ m <= n
      BY <1>1, <2>1
    <3>2. pos[m] = qos[m]
      BY <1>1, <3>1, <1>7
    <3> QED
      BY <3>1, <3>2
  <2>3. Occurs(tt[m + 1], t, pos[m])
    BY <1>5, <2>2
  <2>4. Len(tt[m + 1]) \in Nat \ {0} /\ tt[m + 1][1] # close
    BY <2>2 DEF Guarded
  <2>5. 1 \in 1..Len(tt[m + 1])
    BY <2>4
  <2>6. t[pos[m] + 1] = tt[m + 1][1]
    BY <2>3, <2>5 DEF Occurs
  <2> QED
    BY <1>2, <2>4, <2>6
<1>9. ~ (n < m)
  <2>1. SUFFICES ASSUME n < m PROVE FALSE
    OBVIOUS
  <2>2. n + 1 \in 1..m /\ (n + 1) - 1 = n /\ qos[n] = pos[n]
    <3> HIDE DEF m, n
    <3>1. n + 1 \in 1..m /\ (n + 1) - 1 = n /\ n <= m /\ n <= n
      BY <1>1, <2>1
    <3>2. qos[n] = pos[n]
      BY <1>1, <3>1, <1>7
    <3> QED
      BY <3>1, <3>2
  <2>3. Occurs(ss[n + 1], t, qos[n])
    BY <1>4, <2>2
  <2>4. Len(ss[n + 1]) \in Nat \ {0} /\ ss[n + 1][1] # close
    BY <2>2 DEF Guarded
  <2>5. 1 \in 1..Len(ss[n + 1])
    BY <2>4
  <2>6. t[qos[n] + 1] = ss[n + 1][1]
    BY <2>3, <2>5 DEF Occurs
  <2> QED
    BY <1>3, <2>4, <2>6
<1>10. m = n
  <2> HIDE DEF m, n
  <2> QED
    BY <1>1, <1>8, <1>9
<1>11. Len(FlattenSeq(ss)) = Len(FlattenSeq(tt))
  <2>1. pos[m] = qos[n]
    BY <1>1, <1>7, <1>10
  <2>2. Len(FlattenSeq(ss)) \in Nat /\ Len(FlattenSeq(tt)) \in Nat
    BY FlattenLaid, LenProperties
  <2> DEFINE a == Len(FlattenSeq(ss))  b == Len(FlattenSeq(tt))
  <2>3. p + a = p + b /\ a \in Nat /\ b \in Nat
    BY <1>2, <1>3, <2>1, <2>2
  <2> HIDE DEF a, b
  <2>4. a = b
    BY <2>3
  <2> QED
    BY <2>4 DEF a, b
<1>12. ASSUME NEW k \in 1..m PROVE \E q \in Nat : Occurs(ss[k], t, q) /\ Occurs(tt[k], t, q)
  <2>1. k \in 1..n /\ k - 1 \in Nat /\ k - 1 <= m /\ k - 1 <= n /\ k - 1 \in 0..m
    BY <1>1, <1>10
  <2>2. pos[k - 1] = qos[k - 1] /\ pos[k - 1] \in Nat
    BY <2>1, <1>7, <1>4
  <2> QED
    BY <2>1, <2>2, <1>4, <1>5
<1> QED
  BY <1>10, <1>11, <1>12

\* No value's string is empty or starts with a closing bracket; the first token
\* tells the kind.
LEMMA FirstToken ==
  ASSUME NEW node, IsNode(node)
  PROVE  LET s == Written(node, CanonicalString)
         IN  /\ s \in Seq(Tokens) /\ Len(s) \in Nat \ {0} /\ s[1] # "]" /\ s[1] # "}"
             /\ node.kind = "array" <=> s[1] = "["
             /\ node.kind = "object" <=> s[1] = "{"
<1> DEFINE s == Written(node, CanonicalString)
<1>1. s \in Seq(Tokens)
  BY CanonicalStringFacts, WrittenType
<1>2. \A l \in Literals : l # "[" /\ l # "]" /\ l # "{" /\ l # "}"
  BY JsonAssumption
<1>3. "[" \in Tokens /\ "]" \in Tokens /\ "{" \in Tokens /\ "}" \in Tokens
  BY DEF Tokens
<1>4. ASSUME NEW open \in Tokens, NEW close \in Tokens, NEW x \in Seq(Tokens)
      PROVE  LET u == <<open>> \o x \o <<close>> IN Len(u) \in Nat \ {0} /\ u[1] = open
  <2> DEFINE u == <<open>> \o x \o <<close>>
  <2>1. Occurs(u, u, 0)
    <3> HIDE DEF u
    <3> QED
      BY DEF Occurs
  <2>2. Enclosed(open, x, close, u, 0)
    BY <2>1, Bracketed
  <2>3. Len(u) = Len(x) + 2 /\ Len(x) \in Nat /\ u[0 + 1] = open
    BY <2>2, LenProperties DEF Enclosed
  <2> HIDE DEF u
  <2>4. Len(u) \in Nat \ {0} /\ u[1] = open
    BY <2>3
  <2> QED
    BY <2>4 DEF u
<1>5. CASE node.kind = "leaf"
  <2>1. PICK l \in Literals : node = Leaf(l)
    BY <1>5, NodeKinds
  <2>2. s = <<l>>
    BY <2>1, WrittenLeaf
  <2>3. Len(s) = 1 /\ s[1] = l
    BY <2>2
  <2> HIDE DEF s
  <2>4. Len(s) \in Nat \ {0}
    BY <2>3
  <2>5. s[1] # "[" /\ s[1] # "]" /\ s[1] # "{" /\ s[1] # "}"
    BY <1>2, <2>3
  <2>6. node.kind # "array" /\ node.kind # "object"
    BY <1>5
  <2> QED
    BY <1>1, <2>4, <2>5, <2>6, Zenon DEF s
<1>6. CASE node.kind = "array"
  <2>1. FlattenSeq(ItemStrings(node, CanonicalString)) \in Seq(Tokens)
    BY <1>6, CanonicalStringFacts, WrittenType, FlattenLaid
  <2>2. s = <<"[">> \o FlattenSeq(ItemStrings(node, CanonicalString)) \o <<"]">>
    BY <1>6, WrittenArray
  <2>3. Len(s) \in Nat \ {0} /\ s[1] = "["
    BY <1>3, <1>4, <2>1, <2>2
  <2> HIDE DEF s
  <2> QED
    BY <1>1, <1>6, <2>3 DEF s
<1>7. CASE node.kind = "object"
  <2>1. FlattenSeq(MemberStrings(node, CanonicalString)) \in Seq(Tokens)
    BY <1>7, CanonicalStringFacts, WrittenType, FlattenLaid
  <2>2. s = <<"{">> \o FlattenSeq(MemberStrings(node, CanonicalString)) \o <<"}">>
    BY <1>7, WrittenObject
  <2>3. Len(s) \in Nat \ {0} /\ s[1] = "{"
    BY <1>3, <1>4, <2>1, <2>2
  <2> HIDE DEF s
  <2> QED
    BY <1>1, <1>7, <2>3 DEF s
<1> QED
  BY <1>5, <1>6, <1>7, NodeKinds

\* Wherever the strings of a and of b stand at one place, a and b say the same
\* and their strings are equally long.
ReadsBack(a) ==
  \A b \in Json : \A t : \A p \in Nat :
    Occurs(CanonicalString[a], t, p) /\ Occurs(CanonicalString[b], t, p) =>
      b \in SameOwn[a] /\ Len(CanonicalString[a]) = Len(CanonicalString[b])

\* One level of an array reads back when its items do.
LEMMA ArrayReads ==
  ASSUME NEW a, IsNode(a), a.kind = "array", NEW b, IsNode(b), b.kind = "array",
         \A i \in DOMAIN a.kids : ReadsBack(a.kids[i]), NEW t, NEW p \in Nat,
         Occurs(Written(a, CanonicalString), t, p), Occurs(Written(b, CanonicalString), t, p)
  PROVE  /\ AlikeOwn(a, b, SameOwn)
         /\ Len(Written(a, CanonicalString)) = Len(Written(b, CanonicalString))
<1> DEFINE ss == ItemStrings(a, CanonicalString)
           tt == ItemStrings(b, CanonicalString)
           x  == FlattenSeq(ss)
           y  == FlattenSeq(tt)
<1>0. "[" \in Tokens /\ "]" \in Tokens
  BY DEF Tokens
<1>1. /\ ss \in Seq(Seq(Tokens)) /\ Len(ss) = Len(a.kids)
      /\ tt \in Seq(Seq(Tokens)) /\ Len(tt) = Len(b.kids)
  BY CanonicalStringFacts, WrittenType
<1>2. /\ DOMAIN a.kids = 1..Len(a.kids) /\ Len(a.kids) \in Nat
      /\ DOMAIN b.kids = 1..Len(b.kids) /\ Len(b.kids) \in Nat
  BY NodeKinds, LenProperties
<1>3. /\ \A k \in 1..Len(ss) : a.kids[k] \in Json /\ ss[k] = CanonicalString[a.kids[k]]
      /\ \A k \in 1..Len(tt) : b.kids[k] \in Json /\ tt[k] = CanonicalString[b.kids[k]]
  BY <1>1, <1>2, KidsInJson DEF ItemStrings
<1>4. x \in Seq(Tokens) /\ y \in Seq(Tokens)
  <2> HIDE DEF ss, tt
  <2> QED
    BY <1>1, FlattenLaid
<1>5. /\ Written(a, CanonicalString) = <<"[">> \o x \o <<"]">>
      /\ Written(b, CanonicalString) = <<"[">> \o y \o <<"]">>
  BY WrittenArray
<1> HIDE DEF ss, tt
<1>6. /\ Occurs(x, t, p + 1) /\ t[(p + 1) + Len(x) + 1] = "]"
      /\ Len(Written(a, CanonicalString)) = Len(x) + 2
  <2> HIDE DEF x, y
  <2>1. Occurs(<<"[">> \o x \o <<"]">>, t, p)
    BY <1>5
  <2>2. Enclosed("[", x, "]", t, p)
    BY <1>0, <1>4, <2>1, Bracketed
  <2> QED
    BY <1>5, <2>2 DEF Enclosed
<1>7. /\ Occurs(y, t, p + 1) /\ t[(p + 1) + Len(y) + 1] = "]"
      /\ Len(Written(b, CanonicalString)) = Len(y) + 2
  <2> HIDE DEF x, y
  <2>1. Occurs(<<"[">> \o y \o <<"]">>, t, p)
    BY <1>5
  <2>2. Enclosed("[", y, "]", t, p)
    BY <1>0, <1>4, <2>1, Bracketed
  <2> QED
    BY <1>5, <2>2 DEF Enclosed
<1>8. Guarded(ss, "]") /\ Guarded(tt, "]")
  <2>1. ASSUME NEW c \in Json
        PROVE  Len(CanonicalString[c]) \in Nat \ {0} /\ CanonicalString[c][1] # "]"
    BY KidsBelow, CanonicalStringFacts, FirstToken
  <2> QED
    BY <1>3, <2>1 DEF Guarded
<1>9. ASSUME NEW k \in 1..Len(ss), k \in 1..Len(tt), NEW q \in Nat,
             Occurs(ss[k], t, q), Occurs(tt[k], t, q)
      PROVE  b.kids[k] \in SameOwn[a.kids[k]] /\ Len(ss[k]) = Len(tt[k])
  <2>1. ReadsBack(a.kids[k])
    BY <1>1, <1>2
  <2> QED
    BY <1>3, <1>9, <2>1 DEF ReadsBack
<1>10. EquallyLong(ss, tt, t)
  BY <1>9 DEF EquallyLong
<1>11. /\ Len(ss) = Len(tt) /\ Len(x) = Len(y)
       /\ \A k \in 1..Len(ss) : \E q \in Nat : Occurs(ss[k], t, q) /\ Occurs(tt[k], t, q)
  <2>1. p + 1 \in Nat
    OBVIOUS
  <2> QED
    BY <1>1, <1>6, <1>7, <1>8, <1>10, <2>1, ListReads
<1>12. \A k \in 1..Len(ss) : b.kids[k] \in SameOwn[a.kids[k]]
  BY <1>9, <1>11
<1>13. AlikeOwn(a, b, SameOwn)
  BY <1>1, <1>2, <1>11, <1>12 DEF AlikeOwn
<1> QED
  BY <1>6, <1>7, <1>11, <1>13

\* One level of an object reads back when its members do.
LEMMA ObjectReads ==
  ASSUME NEW a, IsNode(a), a.kind = "object", NEW b, IsNode(b), b.kind = "object",
         \A i \in DOMAIN a.kids : ReadsBack(a.kids[i]), NEW t, NEW p \in Nat,
         Occurs(Written(a, CanonicalString), t, p), Occurs(Written(b, CanonicalString), t, p)
  PROVE  /\ AlikeOwn(a, b, SameOwn)
         /\ Len(Written(a, CanonicalString)) = Len(Written(b, CanonicalString))
<1> DEFINE ss == MemberStrings(a, CanonicalString)
           tt == MemberStrings(b, CanonicalString)
           x  == FlattenSeq(ss)
           y  == FlattenSeq(tt)
           ka == Sorted(OwnKeys(a))
           kb == Sorted(OwnKeys(b))
<1>0. "{" \in Tokens /\ "}" \in Tokens
  BY DEF Tokens
<1>1. /\ ss \in Seq(Seq(Tokens)) /\ Len(ss) = Len(ka)
      /\ tt \in Seq(Seq(Tokens)) /\ Len(tt) = Len(kb)
  BY CanonicalStringFacts, WrittenType
<1>2. /\ ka \in Seq(OwnKeys(a)) /\ \A k \in OwnKeys(a) : \E i \in 1..Len(ka) : ka[i] = k
      /\ kb \in Seq(OwnKeys(b)) /\ \A k \in OwnKeys(b) : \E i \in 1..Len(kb) : kb[i] = k
  BY ObjectFacts, SortedFacts
<1>3. /\ DOMAIN ka = 1..Len(ka) /\ Len(ka) \in Nat /\ \A i \in 1..Len(ka) : ka[i] \in OwnKeys(a)
      /\ DOMAIN kb = 1..Len(kb) /\ Len(kb) \in Nat /\ \A i \in 1..Len(kb) : kb[i] \in OwnKeys(b)
  BY <1>2, LenProperties, ElementOfSeq
<1>4. /\ \A i \in 1..Len(ka) : /\ ka[i] \in Names /\ Value(a, ka[i]) \in Json
                               /\ ReadsBack(Value(a, ka[i]))
      /\ \A i \in 1..Len(kb) : kb[i] \in Names /\ Value(b, kb[i]) \in Json
  BY <1>3, ObjectFacts
<1>5. /\ \A i \in 1..Len(ss) : ss[i] = <<ka[i]>> \o CanonicalString[Value(a, ka[i])]
      /\ \A i \in 1..Len(tt) : tt[i] = <<kb[i]>> \o CanonicalString[Value(b, kb[i])]
  BY <1>1, <1>3 DEF MemberStrings
<1>6. x \in Seq(Tokens) /\ y \in Seq(Tokens)
  <2> HIDE DEF ss, tt
  <2> QED
    BY <1>1, FlattenLaid
<1>7. /\ Written(a, CanonicalString) = <<"{">> \o x \o <<"}">>
      /\ Written(b, CanonicalString) = <<"{">> \o y \o <<"}">>
  BY WrittenObject
<1> HIDE DEF ss, tt, ka, kb
<1>8. /\ Occurs(x, t, p + 1) /\ t[(p + 1) + Len(x) + 1] = "}"
      /\ Len(Written(a, CanonicalString)) = Len(x) + 2
  <2> HIDE DEF x, y
  <2>1. Occurs(<<"{">> \o x \o <<"}">>, t, p)
    BY <1>7
  <2>2. Enclosed("{", x, "}", t, p)
    BY <1>0, <1>6, <2>1, Bracketed
  <2> QED
    BY <1>7, <2>2 DEF Enclosed
<1>9. /\ Occurs(y, t, p + 1) /\ t[(p + 1) + Len(y) + 1] = "}"
      /\ Len(Written(b, CanonicalString)) = Len(y) + 2
  <2> HIDE DEF x, y
  <2>1. Occurs(<<"{">> \o y \o <<"}">>, t, p)
    BY <1>7
  <2>2. Enclosed("{", y, "}", t, p)
    BY <1>0, <1>6, <2>1, Bracketed
  <2> QED
    BY <1>7, <2>2 DEF Enclosed
<1>10. ASSUME NEW k \in Names, NEW c \in Json
       PROVE  LET u == <<k>> \o CanonicalString[c]
              IN  /\ Len(u) = 1 + Len(CanonicalString[c]) /\ u[1] = k
                  /\ \A q \in Nat : Occurs(u, t, q) => t[q + 1] = k /\ Occurs(CanonicalString[c], t, q + 1)
  <2> DEFINE z == CanonicalString[c]
             u == <<k>> \o z
  <2>1. z \in Seq(Tokens) /\ <<k>> \in Seq(Tokens) /\ Len(<<k>>) = 1 /\ <<k>>[1] = k
    <3>1. k \in Tokens
      BY DEF Tokens
    <3> QED
      BY <3>1, CanonicalStringFacts
  <2>2. Len(u) = 1 + Len(z) /\ u[1] = k
    <3> HIDE DEF z
    <3>1. Len(z) \in Nat
      BY <2>1, LenProperties
    <3>2. /\ Len(u) = Len(<<k>>) + Len(z)
          /\ \A i \in 1..(Len(<<k>>) + Len(z)) :
               u[i] = IF i <= Len(<<k>>) THEN <<k>>[i] ELSE z[i - Len(<<k>>)]
      BY <2>1, ConcatProperties
    <3>3. 1 \in 1..(1 + Len(z))
      BY <3>1
    <3> HIDE DEF u
    <3> QED
      BY <2>1, <3>2, <3>3
  <2>3. ASSUME NEW q \in Nat, Occurs(u, t, q) PROVE t[q + 1] = k /\ Occurs(z, t, q + 1)
    <3>1. Occurs(<<k>>, t, q) /\ Occurs(z, t, q + Len(<<k>>))
      <4> HIDE DEF z
      <4> QED
        BY <2>1, <2>3, OccursConcat
    <3> HIDE DEF z
    <3> QED
      BY <2>1, <3>1 DEF Occurs
  <2> QED
    BY <2>2, <2>3
<1>11. Guarded(ss, "}") /\ Guarded(tt, "}")
  <2>1. \A k \in Names : k # "}"
    BY JsonAssumption
  <2>2. ASSUME NEW k \in Names, NEW c \in Json
        PROVE  LET u == <<k>> \o CanonicalString[c] IN Len(u) \in Nat \ {0} /\ u[1] # "}"
    <3>1. Len(CanonicalString[c]) \in Nat
      BY CanonicalStringFacts, LenProperties
    <3> DEFINE u == <<k>> \o CanonicalString[c]
    <3>2. Len(u) = 1 + Len(CanonicalString[c]) /\ u[1] = k
      BY <1>10
    <3> HIDE DEF u
    <3> DEFINE n == Len(CanonicalString[c])
    <3>3. Len(u) = 1 + n /\ n \in Nat
      BY <3>1, <3>2
    <3> HIDE DEF n
    <3>4. Len(u) \in Nat \ {0}
      BY <3>3
    <3>5. u[1] # "}"
      BY <2>1, <3>2
    <3> QED
      BY <3>4, <3>5 DEF u
  <2>3. ASSUME NEW i \in 1..Len(ss) PROVE Len(ss[i]) \in Nat \ {0} /\ ss[i][1] # "}"
    <3>1. i \in 1..Len(ka) /\ ss[i] = <<ka[i]>> \o CanonicalString[Value(a, ka[i])]
      BY <1>1, <1>5
    <3>2. ka[i] \in Names /\ Value(a, ka[i]) \in Json
      BY <1>4, <3>1
    <3> QED
      BY <3>1, <3>2, <2>2
  <2>4. ASSUME NEW i \in 1..Len(tt) PROVE Len(tt[i]) \in Nat \ {0} /\ tt[i][1] # "}"
    <3>1. i \in 1..Len(kb) /\ tt[i] = <<kb[i]>> \o CanonicalString[Value(b, kb[i])]
      BY <1>1, <1>5
    <3>2. kb[i] \in Names /\ Value(b, kb[i]) \in Json
      BY <1>4, <3>1
    <3> QED
      BY <3>1, <3>2, <2>2
  <2> QED
    BY <2>3, <2>4 DEF Guarded
<1>12. ASSUME NEW i \in 1..Len(ss), i \in 1..Len(tt), NEW q \in Nat,
              Occurs(ss[i], t, q), Occurs(tt[i], t, q)
       PROVE  /\ ka[i] = kb[i] /\ Value(b, kb[i]) \in SameOwn[Value(a, ka[i])]
              /\ Len(ss[i]) = Len(tt[i])
  <2> DEFINE va == Value(a, ka[i])
             vb == Value(b, kb[i])
  <2>1. ka[i] \in Names /\ va \in Json /\ ReadsBack(va) /\ kb[i] \in Names /\ vb \in Json
    BY <1>1, <1>4, <1>12
  <2>2. ss[i] = <<ka[i]>> \o CanonicalString[va] /\ tt[i] = <<kb[i]>> \o CanonicalString[vb]
    BY <1>5, <1>12
  <2> HIDE DEF va, vb
  <2>3. /\ t[q + 1] = ka[i] /\ Occurs(CanonicalString[va], t, q + 1)
        /\ Len(ss[i]) = 1 + Len(CanonicalString[va])
    BY <1>10, <1>12, <2>1, <2>2
  <2>4. /\ t[q + 1] = kb[i] /\ Occurs(CanonicalString[vb], t, q + 1)
        /\ Len(tt[i]) = 1 + Len(CanonicalString[vb])
    BY <1>10, <1>12, <2>1, <2>2
  <2>5. vb \in SameOwn[va] /\ Len(CanonicalString[va]) = Len(CanonicalString[vb])
    <3>1. q + 1 \in Nat
      OBVIOUS
    <3> QED
      BY <2>1, <2>3, <2>4, <3>1 DEF ReadsBack
  <2> QED
    BY <2>3, <2>4, <2>5 DEF va, vb
<1>13. EquallyLong(ss, tt, t)
  BY <1>12 DEF EquallyLong
<1>14. /\ Len(ss) = Len(tt) /\ Len(x) = Len(y)
       /\ \A i \in 1..Len(ss) : \E q \in Nat : Occurs(ss[i], t, q) /\ Occurs(tt[i], t, q)
  <2>1. p + 1 \in Nat
    OBVIOUS
  <2> QED
    BY <1>1, <1>8, <1>9, <1>11, <1>13, <2>1, ListReads
<1>15. \A i \in 1..Len(ka) : ka[i] = kb[i] /\ Value(b, kb[i]) \in SameOwn[Value(a, ka[i])]
  BY <1>1, <1>12, <1>14
<1>16. OwnKeys(a) = OwnKeys(b)
  <2>1. Len(ka) = Len(kb)
    BY <1>1, <1>14
  <2>2. \A k \in OwnKeys(a) : k \in OwnKeys(b)
    BY <1>2, <1>3, <1>15, <2>1
  <2>3. \A k \in OwnKeys(b) : k \in OwnKeys(a)
    BY <1>2, <1>3, <1>15, <2>1
  <2> QED
    BY <2>2, <2>3
<1>17. \A k \in OwnKeys(a) : Value(b, k) \in SameOwn[Value(a, k)]
  BY <1>2, <1>15
<1>18. AlikeOwn(a, b, SameOwn)
  BY <1>16, <1>17 DEF AlikeOwn
<1> QED
  BY <1>8, <1>9, <1>14, <1>18

\* One level reads back when its members do.
LEMMA LevelReads ==
  ASSUME NEW a, IsNode(a), NEW b, IsNode(b),
         \A i \in DOMAIN a.kids : ReadsBack(a.kids[i]), NEW t, NEW p \in Nat,
         Occurs(Written(a, CanonicalString), t, p), Occurs(Written(b, CanonicalString), t, p)
  PROVE  /\ AlikeOwn(a, b, SameOwn)
         /\ Len(Written(a, CanonicalString)) = Len(Written(b, CanonicalString))
<1> DEFINE sa == Written(a, CanonicalString)
           sb == Written(b, CanonicalString)
<1>1. /\ Len(sa) \in Nat \ {0} /\ (a.kind = "array" <=> sa[1] = "[") /\ (a.kind = "object" <=> sa[1] = "{")
      /\ Len(sb) \in Nat \ {0} /\ (b.kind = "array" <=> sb[1] = "[") /\ (b.kind = "object" <=> sb[1] = "{")
  BY FirstToken
<1>2. sa[1] = sb[1]
  <2> HIDE DEF sa, sb
  <2>1. Occurs(sa, t, p) /\ Occurs(sb, t, p)
    BY DEF sa, sb
  <2>2. 1 \in 1..Len(sa) /\ 1 \in 1..Len(sb)
    <3>1. Len(sa) \in Nat \ {0} /\ Len(sb) \in Nat \ {0}
      BY <1>1, Zenon
    <3> QED
      BY <3>1
  <2> QED
    BY <2>1, <2>2 DEF Occurs
<1>3. (a.kind = "array" <=> b.kind = "array") /\ (a.kind = "object" <=> b.kind = "object")
  <2> HIDE DEF sa, sb
  <2> QED
    BY <1>1, <1>2
<1>4. CASE a.kind = "array"
  BY <1>3, <1>4, ArrayReads
<1>5. CASE a.kind = "object"
  BY <1>3, <1>5, ObjectReads
<1>6. CASE a.kind # "array" /\ a.kind # "object"
  <2>1. a.kind = "leaf" /\ b.kind = "leaf"
    BY <1>3, <1>6, NodeKinds
  <2>2. PICK l : a = Leaf(l)
    BY <2>1, NodeKinds
  <2>3. PICK m : b = Leaf(m)
    BY <2>1, NodeKinds
  <2>4. sa = <<l>> /\ sb = <<m>>
    BY <2>2, <2>3, WrittenLeaf
  <2>5. l = m
    <3> HIDE DEF sa, sb
    <3> QED
      BY <1>2, <2>4
  <2>6. a.names = b.names /\ sa = sb
    BY <2>2, <2>3, <2>5
  <2>7. AlikeOwn(a, b, SameOwn)
    BY <2>1, <2>6 DEF AlikeOwn
  <2> QED
    BY <2>6, <2>7
<1> QED
  BY <1>4, <1>5, <1>6

\* One level is written the same when the members that say the same are.
LEMMA LevelWrites ==
  ASSUME NEW a, IsNode(a), NEW b, IsNode(b), AlikeOwn(a, b, SameOwn),
         \A i \in DOMAIN a.kids : \A c \in SameOwn[a.kids[i]] :
            CanonicalString[c] = CanonicalString[a.kids[i]]
  PROVE  Written(a, CanonicalString) = Written(b, CanonicalString)
<1>1. a.kind = b.kind
  BY DEF AlikeOwn
<1>2. CASE a.kind = "leaf"
  <2>1. PICK l : a = Leaf(l)
    BY <1>2, NodeKinds
  <2>2. PICK m : b = Leaf(m)
    BY <1>1, <1>2, NodeKinds
  <2>3. a.names = b.names
    BY <1>2 DEF AlikeOwn
  <2>4. <<l>> = <<m>>
    BY <2>1, <2>2, <2>3 DEF Leaf
  <2> QED
    BY <2>1, <2>2, <2>4, WrittenLeaf
<1>3. CASE a.kind = "array"
  <2>1. Len(a.kids) = Len(b.kids) /\ \A i \in DOMAIN a.kids : b.kids[i] \in SameOwn[a.kids[i]]
    BY <1>3 DEF AlikeOwn
  <2>2. DOMAIN a.kids = DOMAIN b.kids
    BY <1>1, <1>3, <2>1, NodeKinds, LenProperties
  <2>3. ItemStrings(a, CanonicalString) = ItemStrings(b, CanonicalString)
    BY <2>1, <2>2 DEF ItemStrings
  <2> QED
    BY <1>1, <1>3, <2>3, WrittenArray
<1>4. CASE a.kind = "object"
  <2>1. OwnKeys(a) = OwnKeys(b) /\ \A k \in OwnKeys(a) : Value(b, k) \in SameOwn[Value(a, k)]
    BY <1>4 DEF AlikeOwn
  <2> DEFINE keys == Sorted(OwnKeys(a))
  <2>2. ASSUME NEW i \in DOMAIN keys
        PROVE  CanonicalString[Value(a, keys[i])] = CanonicalString[Value(b, keys[i])]
    <3>1. keys[i] \in OwnKeys(a)
      BY <1>4, ObjectFacts, SortedFacts, ElementOfSeq, LenProperties
    <3>2. PICK j \in DOMAIN a.kids : Value(a, keys[i]) = a.kids[j]
      BY <1>4, <3>1, ObjectFacts
    <3> QED
      BY <2>1, <3>1, <3>2
  <2>3. MemberStrings(a, CanonicalString) = MemberStrings(b, CanonicalString)
    BY <2>1, <2>2 DEF MemberStrings
  <2> QED
    BY <1>1, <1>4, <2>3, WrittenObject
<1> QED
  BY <1>2, <1>3, <1>4, NodeKinds

\* Induction on how deep a value nests, with the induction hypothesis as a set.
LEMMA JsonInduction ==
  ASSUME NEW P, \A a \in Json : (\A i \in DOMAIN a.kids : a.kids[i] \in P) => a \in P
  PROVE  Json \subseteq P
<1> DEFINE T == {Depth[a] : a \in Json \ P}
<1>1. SUFFICES ASSUME T # {} PROVE FALSE
  OBVIOUS
<1>2. T \in SUBSET Nat
  BY KidsBelow
<1>3. PICK m \in T : \A k \in T : m <= k
  <2> HIDE DEF T
  <2> QED
    BY <1>1, <1>2, LeastExists
<1>4. PICK a \in Json : a \notin P /\ Depth[a] = m
  OBVIOUS
<1>5. ASSUME NEW i \in DOMAIN a.kids PROVE a.kids[i] \in P
  <2>1. a.kids[i] \in Json /\ Depth[a.kids[i]] < Depth[a] /\ Depth[a.kids[i]] \in Nat /\ Depth[a] \in Nat
    BY KidsBelow
  <2>2. Depth[a.kids[i]] \notin T
    <3> HIDE DEF T
    <3> QED
      BY <1>3, <1>4, <2>1
  <2> QED
    BY <2>1, <2>2
<1> QED
  BY <1>4, <1>5

\* A JSON value can be read back from its canonical string.
LEMMA AllReadBack == \A a \in Json : ReadsBack(a)
<1> DEFINE P == {a \in Json : ReadsBack(a)}
<1>1. ASSUME NEW a \in Json, \A i \in DOMAIN a.kids : a.kids[i] \in P PROVE ReadsBack(a)
  <2>1. SUFFICES ASSUME NEW b \in Json, NEW t, NEW p \in Nat,
                        Occurs(CanonicalString[a], t, p), Occurs(CanonicalString[b], t, p)
                 PROVE  b \in SameOwn[a] /\ Len(CanonicalString[a]) = Len(CanonicalString[b])
    BY DEF ReadsBack
  <2>2. \A i \in DOMAIN a.kids : ReadsBack(a.kids[i])
    BY <1>1
  <2>3. /\ CanonicalString[a] = Written(a, CanonicalString)
        /\ CanonicalString[b] = Written(b, CanonicalString)
    BY CanonicalStringFacts
  <2>4. IsNode(a) /\ IsNode(b)
    BY KidsBelow
  <2>5. /\ AlikeOwn(a, b, SameOwn)
        /\ Len(Written(a, CanonicalString)) = Len(Written(b, CanonicalString))
    BY <2>1, <2>2, <2>3, <2>4, LevelReads
  <2> QED
    BY <2>3, <2>5, SameOwnFacts
<1>2. \A a \in Json : (\A i \in DOMAIN a.kids : a.kids[i] \in P) => a \in P
  BY <1>1
<1> HIDE DEF P
<1>3. Json \subseteq P
  BY <1>2, JsonInduction
<1> QED
  BY <1>3 DEF P

\* Values that say the same but for __proto__ have one canonical string.
LEMMA AllWriteSame ==
  \A a \in Json : \A b \in SameOwn[a] : CanonicalString[b] = CanonicalString[a]
<1> DEFINE P == {a \in Json : \A b \in SameOwn[a] : CanonicalString[b] = CanonicalString[a]}
<1>1. ASSUME NEW a \in Json, \A i \in DOMAIN a.kids : a.kids[i] \in P PROVE a \in P
  <2>1. SUFFICES ASSUME NEW b \in SameOwn[a] PROVE CanonicalString[b] = CanonicalString[a]
    OBVIOUS
  <2>2. b \in Json /\ AlikeOwn(a, b, SameOwn) /\ IsNode(a) /\ IsNode(b)
    BY SameOwnFacts, KidsBelow
  <2>3. \A i \in DOMAIN a.kids : \A c \in SameOwn[a.kids[i]] :
            CanonicalString[c] = CanonicalString[a.kids[i]]
    BY <1>1
  <2>4. Written(a, CanonicalString) = Written(b, CanonicalString)
    BY <2>2, <2>3, LevelWrites
  <2> QED
    BY <2>2, <2>4, CanonicalStringFacts
<1>2. \A a \in Json : (\A i \in DOMAIN a.kids : a.kids[i] \in P) => a \in P
  BY <1>1
<1> HIDE DEF P
<1>3. Json \subseteq P
  BY <1>2, JsonInduction
<1> QED
  BY <1>3 DEF P

----------------------------------------------------------------------------
(* The object that canonicalise builds *)

\* The fields that obj may have.
FieldNames == {"metadata", "model_id", "output", "prompt", "timestamp", "workflow_id"}

\* The value of each field of obj.
Field(e, k) ==
  CASE k = "model_id"    -> e.model_id
    [] k = "output"      -> e.output
    [] k = "prompt"      -> e.prompt
    [] k = "timestamp"   -> Leaf(ToISOString(e.timestamp))
    [] k = "workflow_id" -> e.workflow_id
    [] k = "metadata"    -> e.metadata

\* keys and vals list the fields in S of e, each once.
Lists(e, keys, vals, S) ==
  /\ keys \in Seq(FieldNames) /\ vals \in Seq(Json) /\ Len(keys) = Len(vals)
  /\ \A i, j \in 1..Len(keys) : keys[i] = keys[j] => i = j
  /\ \A k : k \in S <=> \E i \in 1..Len(keys) : keys[i] = k
  /\ \A i \in 1..Len(keys) : vals[i] = Field(e, keys[i])

\* The fields of an event are JSON values, and all but metadata are leaves.
LEMMA EventFacts ==
  ASSUME NEW e \in Events
  PROVE  /\ \A k \in FieldNames : Field(e, k) \in Json
         /\ \A k \in FieldNames \ {"metadata"} : Field(e, k).kind = "leaf"
<1> DEFINE Atoms == {node \in Json : node.kind = "leaf"}
<1>1. /\ e.prompt \in Atoms /\ e.output \in Atoms /\ e.model_id \in Atoms
      /\ e.workflow_id \in Atoms /\ e.metadata \in Json /\ e.timestamp \in DOMAIN InstantOf
  BY EventAssumption
<1>2. Leaf(ToISOString(e.timestamp)) \in Json
  BY <1>1, EventAssumption DEF ToISOString
<1>3. Leaf(ToISOString(e.timestamp)).kind = "leaf"
  BY DEF Leaf
<1>4. /\ Field(e, "model_id") = e.model_id /\ Field(e, "output") = e.output
      /\ Field(e, "prompt") = e.prompt /\ Field(e, "timestamp") = Leaf(ToISOString(e.timestamp))
      /\ Field(e, "workflow_id") = e.workflow_id /\ Field(e, "metadata") = e.metadata
  BY DEF Field
<1>5. \A k \in FieldNames \ {"metadata"} : Field(e, k) \in Atoms
  BY <1>1, <1>2, <1>3, <1>4 DEF FieldNames
<1> QED
  BY <1>1, <1>4, <1>5 DEF FieldNames

\* One more field.
LEMMA ListsMore ==
  ASSUME NEW e \in Events, NEW keys, NEW vals, NEW S, Lists(e, keys, vals, S),
         NEW k \in FieldNames, k \notin S
  PROVE  Lists(e, keys \o <<k>>, vals \o <<Field(e, k)>>, S \cup {k})
<1> DEFINE n == Len(keys)
           z == Field(e, k)
           ks == keys \o <<k>>
           vs == vals \o <<z>>
<1>1. /\ keys \in Seq(FieldNames) /\ vals \in Seq(Json) /\ Len(vals) = n /\ n \in Nat
      /\ \A i, j \in 1..n : keys[i] = keys[j] => i = j
      /\ \A x : x \in S <=> \E i \in 1..n : keys[i] = x
      /\ \A i \in 1..n : vals[i] = Field(e, keys[i])
  BY LenProperties DEF Lists
<1>2. z \in Json
  BY EventFacts
<1>3. /\ ks \in Seq(FieldNames) /\ Len(ks) = n + 1 /\ ks[n + 1] = k
      /\ \A i \in 1..n : ks[i] = keys[i]
  <2> HIDE DEF n
  <2>1. /\ <<k>> \in Seq(FieldNames) /\ Len(<<k>>) = 1 /\ <<k>>[1] = k
    OBVIOUS
  <2>2. /\ ks \in Seq(FieldNames) /\ Len(ks) = n + 1
        /\ \A i \in 1..(n + 1) : ks[i] = IF i <= n THEN keys[i] ELSE <<k>>[i - n]
    BY <1>1, <2>1, ConcatProperties DEF n
  <2>3. n + 1 \in 1..(n + 1) /\ ~ (n + 1 <= n) /\ (n + 1) - n = 1 /\ \A i \in 1..n : i <= n /\ i \in 1..(n + 1)
    BY <1>1
  <2> HIDE DEF ks
  <2> QED
    BY <2>1, <2>2, <2>3
<1>4. /\ vs \in Seq(Json) /\ Len(vs) = n + 1 /\ vs[n + 1] = z
      /\ \A i \in 1..n : vs[i] = vals[i]
  <2>0. Len(vals) = n
    BY <1>1
  <2> HIDE DEF n, z
  <2>1. /\ <<z>> \in Seq(Json) /\ Len(<<z>>) = 1 /\ <<z>>[1] = z
    BY <1>2
  <2>2. /\ vs \in Seq(Json) /\ Len(vs) = n + 1
        /\ \A i \in 1..(n + 1) : vs[i] = IF i <= n THEN vals[i] ELSE <<z>>[i - n]
    <3>1. /\ vs \in Seq(Json) /\ Len(vs) = Len(vals) + Len(<<z>>)
          /\ \A i \in 1..(Len(vals) + Len(<<z>>)) :
               vs[i] = IF i <= Len(vals) THEN vals[i] ELSE <<z>>[i - Len(vals)]
      <4>1. vals \in Seq(Json) /\ <<z>> \in Seq(Json)
        BY <1>1, <2>1
      <4> DEFINE w == <<z>>
      <4> HIDE DEF w
      <4> QED
        BY <4>1, ConcatProperties DEF w
    <3> HIDE DEF vs
    <3> QED
      BY <2>0, <2>1, <3>1
  <2>3. n + 1 \in 1..(n + 1) /\ ~ (n + 1 <= n) /\ (n + 1) - n = 1 /\ \A i \in 1..n : i <= n /\ i \in 1..(n + 1)
    BY <1>1
  <2> HIDE DEF vs
  <2> QED
    BY <2>1, <2>2, <2>3
<1>5. \A i : i \in 1..(n + 1) <=> i \in 1..n \/ i = n + 1
  BY <1>1
<1> HIDE DEF n, z, ks, vs
<1>6. \A i \in 1..n : keys[i] # k
  BY <1>1
<1>7. \A i, j \in 1..(n + 1) : ks[i] = ks[j] => i = j
  BY <1>1, <1>3, <1>5, <1>6
<1>8. \A x : x \in S \cup {k} <=> \E i \in 1..(n + 1) : ks[i] = x
  BY <1>1, <1>3, <1>5
<1>9. \A i \in 1..(n + 1) : vs[i] = Field(e, ks[i])
  BY <1>1, <1>3, <1>4, <1>5 DEF z
<1>10. Lists(e, ks, vs, S \cup {k})
  BY <1>3, <1>4, <1>7, <1>8, <1>9 DEF Lists
<1> QED
  BY <1>10 DEF ks, vs, z

\* The object that lists the fields in S has them as its members.
LEMMA ListedObject ==
  ASSUME NEW e \in Events, NEW keys, NEW vals, NEW S, Lists(e, keys, vals, S)
  PROVE  LET o == Object(keys, vals)
         IN  /\ IsNode(o) /\ o.kind = "object" /\ OwnKeys(o) = S
             /\ \A k \in S : Value(o, k) = Field(e, k)
<1> DEFINE o == Object(keys, vals)
<1>1. o.kind = "object" /\ o.names = keys /\ o.kids = vals
  BY DEF Object
<1> HIDE DEF o
<1>2. /\ keys \in Seq(FieldNames) /\ vals \in Seq(Json) /\ Len(keys) = Len(vals)
      /\ \A i, j \in 1..Len(keys) : keys[i] = keys[j] => i = j
      /\ \A k : k \in S <=> \E i \in 1..Len(keys) : keys[i] = k
      /\ \A i \in 1..Len(keys) : vals[i] = Field(e, keys[i])
  BY DEF Lists
<1>3. DOMAIN keys = 1..Len(keys)
  BY <1>2, LenProperties
<1>4. keys \in Seq(Names)
  <2>1. FieldNames \subseteq Names
    BY EventAssumption DEF FieldNames
  <2> QED
    BY <1>2, <2>1
<1>5. IsInjective(keys)
  BY <1>2, <1>3 DEF IsInjective
<1>6. IsNode(o)
  <2>1. o = Object(o.names, o.kids)
    BY <1>1 DEF o
  <2> QED
    BY <1>1, <1>2, <1>4, <1>5, <2>1 DEF IsNode
<1>7. OwnKeys(o) = S
  <2>1. "__proto__" \notin FieldNames
    BY DEF FieldNames
  <2>2. \A i \in 1..Len(keys) : keys[i] \in FieldNames
    BY <1>2, ElementOfSeq
  <2>3. \A k : k \in ToSet(keys) <=> k \in S
    BY <1>2, <1>3 DEF ToSet
  <2>4. "__proto__" \notin S
    BY <1>2, <2>1, <2>2
  <2> QED
    BY <1>1, <2>3, <2>4 DEF OwnKeys
<1>8. ASSUME NEW k \in S PROVE Value(o, k) = Field(e, k)
  <2> DEFINE i == CHOOSE i \in DOMAIN keys : keys[i] = k
  <2>1. i \in DOMAIN keys /\ keys[i] = k
    BY <1>2, <1>3
  <2>2. Value(o, k) = vals[i]
    BY <1>1 DEF Value
  <2> HIDE DEF i
  <2> QED
    BY <1>2, <1>3, <2>1, <2>2
<1> QED
  BY <1>1, <1>6, <1>7, <1>8 DEF o

\* The names of the fields that obj gets.
Present(e) ==
  {"model_id", "output", "prompt", "timestamp"}
    \cup (IF e.workflow_id = Null THEN {} ELSE {"workflow_id"})
    \cup (IF e.metadata = Null THEN {} ELSE {"metadata"})

\* canonicalise writes an object whose members are the fields of the event.
LEMMA CanonicaliseFacts ==
  ASSUME NEW e \in Events
  PROVE  \E o : /\ Canonicalise(e) = Written(o, CanonicalString)
                /\ IsNode(o) /\ o.kind = "object" /\ OwnKeys(o) = Present(e)
                /\ \A k \in Present(e) : Value(o, k) = Field(e, k)
<1> DEFINE S4 == {"model_id", "output", "prompt", "timestamp"}
           S5 == S4 \cup (IF e.workflow_id = Null THEN {} ELSE {"workflow_id"})
           k4 == <<"model_id", "output", "prompt", "timestamp">>
           v4 == <<e.model_id, e.output, e.prompt, Leaf(ToISOString(e.timestamp))>>
           k5 == k4 \o Optional(e.workflow_id, "workflow_id")
           v5 == v4 \o Optional(e.workflow_id, e.workflow_id)
           k6 == k5 \o Optional(e.metadata, "metadata")
           v6 == v5 \o Optional(e.metadata, e.metadata)
<1>0. /\ Field(e, "model_id") = e.model_id /\ Field(e, "output") = e.output
      /\ Field(e, "prompt") = e.prompt /\ Field(e, "timestamp") = Leaf(ToISOString(e.timestamp))
      /\ Field(e, "workflow_id") = e.workflow_id /\ Field(e, "metadata") = e.metadata
  BY DEF Field
<1>1. Lists(e, k4, v4, S4)
  <2>1. k4 \in Seq(FieldNames) /\ Len(k4) = 4
    BY DEF FieldNames
  <2>2. /\ e.model_id \in Json /\ e.output \in Json /\ e.prompt \in Json
        /\ Leaf(ToISOString(e.timestamp)) \in Json
    BY <1>0, EventFacts DEF FieldNames
  <2>3. v4 \in Seq(Json) /\ Len(v4) = 4
    BY <2>2
  <2>4. 1..4 = {1, 2, 3, 4}
    OBVIOUS
  <2>5. \A i, j \in {1, 2, 3, 4} : k4[i] = k4[j] => i = j
    OBVIOUS
  <2>6. \A k : k \in S4 <=> \E i \in {1, 2, 3, 4} : k4[i] = k
    OBVIOUS
  <2>7. \A i \in {1, 2, 3, 4} : v4[i] = Field(e, k4[i])
    BY <1>0
  <2> HIDE DEF k4, v4, S4
  <2> QED
    BY <2>1, <2>3, <2>4, <2>5, <2>6, <2>7 DEF Lists
<1>2. k4 \in Seq(FieldNames) /\ v4 \in Seq(Json)
  BY <1>1 DEF Lists
<1>3. Lists(e, k5, v5, S5)
  <2>1. CASE e.workflow_id = Null
    <3>1. Optional(e.workflow_id, "workflow_id") = <<>> /\ Optional(e.workflow_id, e.workflow_id) = <<>>
      BY <2>1 DEF Optional
    <3>2. k5 = k4 /\ v5 = v4
      <4> HIDE DEF k4, v4
      <4> QED
        BY <1>2, <3>1, ConcatEmptySeq
    <3>3. S5 = S4
      BY <2>1
    <3> HIDE DEF k4, v4, S4, k5, v5, S5
    <3> QED
      BY <1>1, <3>2, <3>3
  <2>2. CASE e.workflow_id # Null
    <3>1. /\ Optional(e.workflow_id, "workflow_id") = <<"workflow_id">>
          /\ Optional(e.workflow_id, e.workflow_id) = <<Field(e, "workflow_id")>>
      BY <1>0, <2>2 DEF Optional
    <3>2. S5 = S4 \cup {"workflow_id"} /\ "workflow_id" \notin S4 /\ "workflow_id" \in FieldNames
      BY <2>2 DEF FieldNames
    <3> HIDE DEF k4, v4, S4, S5
    <3>3. Lists(e, k4 \o <<"workflow_id">>, v4 \o <<Field(e, "workflow_id")>>, S4 \cup {"workflow_id"})
      BY <1>1, <3>2, ListsMore
    <3> QED
      BY <3>1, <3>2, <3>3
  <2> QED
    BY <2>1, <2>2
<1>4. k5 \in Seq(FieldNames) /\ v5 \in Seq(Json)
  <2> HIDE DEF k5, v5, S5
  <2> QED
    BY <1>3 DEF Lists
<1>5. Lists(e, k6, v6, Present(e))
  <2>0. Present(e) = S5 \cup (IF e.metadata = Null THEN {} ELSE {"metadata"})
    BY DEF Present
  <2>1. CASE e.metadata = Null
    <3>1. Optional(e.metadata, "metadata") = <<>> /\ Optional(e.metadata, e.metadata) = <<>>
      BY <2>1 DEF Optional
    <3>2. k6 = k5 /\ v6 = v5
      <4> HIDE DEF k5, v5
      <4> QED
        BY <1>4, <3>1, ConcatEmptySeq
    <3>3. Present(e) = S5
      <4> HIDE DEF S5
      <4> QED
        BY <2>0, <2>1
    <3> HIDE DEF k5, v5, S5, k6, v6
    <3> QED
      BY <1>3, <3>2, <3>3
  <2>2. CASE e.metadata # Null
    <3>1. /\ Optional(e.metadata, "metadata") = <<"metadata">>
          /\ Optional(e.metadata, e.metadata) = <<Field(e, "metadata")>>
      BY <1>0, <2>2 DEF Optional
    <3>2. "metadata" \notin S5 /\ "metadata" \in FieldNames
      BY DEF FieldNames
    <3> HIDE DEF k5, v5, S5
    <3>3. Present(e) = S5 \cup {"metadata"}
      BY <2>0, <2>2
    <3>4. Lists(e, k5 \o <<"metadata">>, v5 \o <<Field(e, "metadata")>>, S5 \cup {"metadata"})
      BY <1>3, <3>2, ListsMore
    <3> QED
      BY <3>1, <3>3, <3>4
  <2> QED
    BY <2>1, <2>2
<1>6. Canonicalise(e) = Written(Object(k6, v6), CanonicalString)
  BY DEF Canonicalise, Written
<1> HIDE DEF k6, v6
<1> QED
  BY <1>5, <1>6, ListedObject

\* A leaf says the same as itself only.
LEMMA LeafSame ==
  ASSUME NEW a \in Json, NEW b \in Json
  PROVE  /\ a.kind = "leaf" => (b \in SameOwn[a] <=> b = a)
         /\ b \in SameOwn[a] => a.kind = b.kind
<1>1. IsNode(a) /\ IsNode(b)
  BY KidsBelow
<1>2. b \in SameOwn[a] <=> AlikeOwn(a, b, SameOwn)
  BY SameOwnFacts
<1>3. b \in SameOwn[a] => a.kind = b.kind
  BY <1>2 DEF AlikeOwn
<1>4. ASSUME a.kind = "leaf" PROVE b \in SameOwn[a] <=> b = a
  <2>1. PICK l : a = Leaf(l)
    BY <1>1, <1>4, NodeKinds
  <2>2. ASSUME b = a PROVE AlikeOwn(a, b, SameOwn)
    BY <1>4, <2>2 DEF AlikeOwn
  <2>3. ASSUME AlikeOwn(a, b, SameOwn) PROVE b = a
    <3>1. b.kind = "leaf" /\ a.names = b.names
      BY <1>4, <2>3 DEF AlikeOwn
    <3>2. PICK m : b = Leaf(m)
      BY <1>1, <3>1, NodeKinds
    <3>3. <<l>> = <<m>>
      BY <2>1, <3>1, <3>2 DEF Leaf
    <3> QED
      BY <2>1, <3>2, <3>3
  <2> QED
    BY <1>2, <2>2, <2>3
<1> QED
  BY <1>3, <1>4

\* Events that say the same but for __proto__ members and times within a
\* millisecond.
SameWritten(e, f) ==
  /\ e.prompt = f.prompt /\ e.output = f.output /\ e.model_id = f.model_id
  /\ ToISOString(e.timestamp) = ToISOString(f.timestamp)
  /\ e.workflow_id = f.workflow_id
  /\ f.metadata \in SameOwn[e.metadata]

\* One canonical string for two events exactly when they say the same, as far
\* as a string can hold what they say.
LEMMA CanonicaliseSeparates ==
  ASSUME NEW e \in Events, NEW f \in Events
  PROVE  Canonicalise(e) = Canonicalise(f) <=> SameWritten(e, f)
<1>1. PICK a : /\ Canonicalise(e) = Written(a, CanonicalString)
               /\ IsNode(a) /\ a.kind = "object" /\ OwnKeys(a) = Present(e)
               /\ \A k \in Present(e) : Value(a, k) = Field(e, k)
  BY CanonicaliseFacts
<1>2. PICK b : /\ Canonicalise(f) = Written(b, CanonicalString)
               /\ IsNode(b) /\ b.kind = "object" /\ OwnKeys(b) = Present(f)
               /\ \A k \in Present(f) : Value(b, k) = Field(f, k)
  BY CanonicaliseFacts
<1>3. /\ \A k \in FieldNames : Field(e, k) \in Json /\ Field(f, k) \in Json
      /\ \A k \in FieldNames \ {"metadata"} : Field(e, k).kind = "leaf" /\ Field(f, k).kind = "leaf"
  BY EventFacts
<1>4. Canonicalise(e) = Canonicalise(f) <=> AlikeOwn(a, b, SameOwn)
  <2>1. ASSUME Canonicalise(e) = Canonicalise(f) PROVE AlikeOwn(a, b, SameOwn)
    <3> DEFINE t == Written(a, CanonicalString)
    <3>1. Occurs(t, t, 0) /\ t = Written(b, CanonicalString)
      BY <1>1, <1>2, <2>1 DEF Occurs
    <3>2. \A i \in DOMAIN a.kids : ReadsBack(a.kids[i])
      BY <1>1, KidsInJson, AllReadBack
    <3>3. Occurs(Written(a, CanonicalString), t, 0) /\ Occurs(Written(b, CanonicalString), t, 0)
      <4> HIDE DEF t
      <4>1. t = Written(a, CanonicalString)
        BY DEF t
      <4> QED
        BY <3>1, <4>1
    <3> HIDE DEF t
    <3> QED
      BY <1>1, <1>2, <3>2, <3>3, LevelReads
  <2>2. ASSUME AlikeOwn(a, b, SameOwn) PROVE Canonicalise(e) = Canonicalise(f)
    <3>1. \A i \in DOMAIN a.kids : \A c \in SameOwn[a.kids[i]] :
            CanonicalString[c] = CanonicalString[a.kids[i]]
      BY <1>1, KidsInJson, AllWriteSame
    <3>2. Written(a, CanonicalString) = Written(b, CanonicalString)
      BY <1>1, <1>2, <2>2, <3>1, LevelWrites
    <3> QED
      BY <1>1, <1>2, <3>2
  <2> QED
    BY <2>1, <2>2
<1>5. AlikeOwn(a, b, SameOwn) <=>
        /\ Present(e) = Present(f)
        /\ \A k \in Present(e) : Value(b, k) \in SameOwn[Value(a, k)]
  BY <1>1, <1>2 DEF AlikeOwn
<1>6. /\ Field(e, "model_id") = e.model_id /\ Field(e, "output") = e.output
      /\ Field(e, "prompt") = e.prompt /\ Field(e, "timestamp") = Leaf(ToISOString(e.timestamp))
      /\ Field(e, "workflow_id") = e.workflow_id /\ Field(e, "metadata") = e.metadata
  BY DEF Field
<1>7. /\ Field(f, "model_id") = f.model_id /\ Field(f, "output") = f.output
      /\ Field(f, "prompt") = f.prompt /\ Field(f, "timestamp") = Leaf(ToISOString(f.timestamp))
      /\ Field(f, "workflow_id") = f.workflow_id /\ Field(f, "metadata") = f.metadata
  BY DEF Field
<1>8. /\ {"model_id", "output", "prompt", "timestamp"} \subseteq Present(e)
      /\ Present(e) \subseteq FieldNames
      /\ "workflow_id" \in Present(e) <=> e.workflow_id # Null
      /\ "metadata" \in Present(e) <=> e.metadata # Null
  BY DEF Present, FieldNames
<1>9. /\ "workflow_id" \in Present(f) <=> f.workflow_id # Null
      /\ "metadata" \in Present(f) <=> f.metadata # Null
  BY DEF Present
<1>10. \A k \in FieldNames \ {"metadata"} :
         Field(f, k) \in SameOwn[Field(e, k)] <=> Field(f, k) = Field(e, k)
  BY <1>3, LeafSame
<1>11. f.metadata \in SameOwn[e.metadata] => (e.metadata = Null <=> f.metadata = Null)
  <2>1. e.metadata \in Json /\ f.metadata \in Json
    BY <1>3, <1>6, <1>7 DEF FieldNames
  <2>2. Null.kind = "leaf"
    BY DEF Null, Leaf
  <2> QED
    BY <2>1, <2>2, LeafSame
<1>12. \A i, j : Leaf(i) = Leaf(j) <=> i = j
  <2>1. \A i : Leaf(i).names[1] = i
    BY DEF Leaf
  <2> QED
    BY <2>1
<1>13. ASSUME AlikeOwn(a, b, SameOwn) PROVE SameWritten(e, f)
  <2>1. Present(e) = Present(f)
    BY <1>5, <1>13
  <2>2. \A k \in Present(e) : Field(f, k) \in SameOwn[Field(e, k)]
    BY <1>1, <1>2, <1>5, <1>13
  <2>3. ASSUME NEW k \in Present(e), k # "metadata" PROVE Field(f, k) = Field(e, k)
    BY <1>8, <1>10, <2>2, <2>3
  <2>4. e.prompt = f.prompt /\ e.output = f.output /\ e.model_id = f.model_id
    BY <1>6, <1>7, <1>8, <2>3
  <2>5. ToISOString(e.timestamp) = ToISOString(f.timestamp)
    BY <1>6, <1>7, <1>8, <1>12, <2>3
  <2>6. e.workflow_id = f.workflow_id
    BY <1>6, <1>7, <1>8, <1>9, <2>1, <2>3
  <2>7. f.metadata \in SameOwn[e.metadata]
    <3>1. CASE e.metadata = Null
      <4>1. f.metadata = Null /\ e.metadata \in Json
        BY <1>3, <1>6, <1>8, <1>9, <2>1, <3>1 DEF FieldNames
      <4>2. Null.kind = "leaf"
        BY DEF Null, Leaf
      <4> QED
        BY <3>1, <4>1, <4>2, LeafSame
    <3>2. CASE e.metadata # Null
      BY <1>6, <1>7, <1>8, <2>2, <3>2
    <3> QED
      BY <3>1, <3>2
  <2> QED
    BY <2>4, <2>5, <2>6, <2>7 DEF SameWritten
<1>14. ASSUME SameWritten(e, f) PROVE AlikeOwn(a, b, SameOwn)
  <2>1. /\ e.prompt = f.prompt /\ e.output = f.output /\ e.model_id = f.model_id
        /\ ToISOString(e.timestamp) = ToISOString(f.timestamp) /\ e.workflow_id = f.workflow_id
        /\ f.metadata \in SameOwn[e.metadata] /\ (e.metadata = Null <=> f.metadata = Null)
    BY <1>11, <1>14 DEF SameWritten
  <2>2. Present(e) = Present(f)
    BY <2>1 DEF Present
  <2>3. \A k \in FieldNames \ {"metadata"} : Field(f, k) = Field(e, k)
    BY <1>6, <1>7, <2>1 DEF FieldNames
  <2>4. \A k \in FieldNames : Field(f, k) \in SameOwn[Field(e, k)]
    BY <1>6, <1>7, <1>10, <2>1, <2>3
  <2>5. \A k \in Present(e) : Value(b, k) \in SameOwn[Value(a, k)]
    BY <1>1, <1>2, <1>8, <2>2, <2>4
  <2> QED
    BY <1>5, <2>2, <2>5
<1> QED
  BY <1>4, <1>13, <1>14

----------------------------------------------------------------------------
(* From what a string holds to what the client said *)

\* What is under a key of an object, __proto__ too, is one of its members.
LEMMA NamedMembers ==
  ASSUME NEW node, IsNode(node), node.kind = "object", NEW k \in ToSet(node.names)
  PROVE  \E i \in DOMAIN node.kids : Value(node, k) = node.kids[i]
<1> DEFINE names == node.names
<1>1. names \in Seq(Names) /\ Len(node.kids) = Len(names) /\ node.kids \in Seq(Json)
  BY NodeKinds
<1>2. DOMAIN node.kids = DOMAIN names
  BY <1>1, LenProperties
<1>3. \E i \in DOMAIN names : names[i] = k
  BY DEF ToSet
<1>4. (CHOOSE i \in DOMAIN names : names[i] = k) \in DOMAIN names
  BY <1>3
<1> QED
  BY <1>2, <1>4 DEF Value

\* SameJson satisfies its equation.
LEMMA SameJsonFacts ==
  /\ SameJson \in [Json -> SUBSET Json]
  /\ \A a, b \in Json : b \in SameJson[a] <=> Alike(a, b, SameJson)
<1> DEFINE V == SUBSET Json
           rhs(f) == [a \in Json |-> {b \in Json : Alike(a, b, f)}]
           F == [f \in [Json -> V] |-> rhs(f)]
<1>1. Depth \in [Json -> Nat]
  BY JsonAssumption
<1>2. [Json -> V] # {}
  <2>1. [node \in Json |-> {}] \in [Json -> V]
    OBVIOUS
  <2> QED
    BY <2>1
<1>3. F \in [[Json -> V] -> [Json -> V]]
  OBVIOUS
<1>5. ASSUME NEW f, NEW g, NEW a \in Json,
             \A c \in Json : Depth[c] < Depth[a] => f[c] = g[c]
      PROVE  {b \in Json : Alike(a, b, f)} = {b \in Json : Alike(a, b, g)}
  <2>1. \A i \in DOMAIN a.kids : f[a.kids[i]] = g[a.kids[i]]
    BY <1>5, KidsBelow
  <2>2. a.kind = "object" => \A k \in ToSet(a.names) : f[Value(a, k)] = g[Value(a, k)]
    BY <2>1, KidsBelow, NamedMembers
  <2>3. a.kind = "leaf" \/ a.kind = "array" \/ a.kind = "object"
    BY KidsBelow, NodeKinds
  <2>4. ASSUME NEW b \in Json PROVE Alike(a, b, f) <=> Alike(a, b, g)
    BY <2>1, <2>2, <2>3 DEF Alike
  <2> QED
    BY <2>4
<1>6. LooksBelow(Json, V, Depth, F)
  <2>1. ASSUME NEW f \in [Json -> V], NEW a \in Json PROVE F[f][a] = {b \in Json : Alike(a, b, f)}
    <3> HIDE DEF V
    <3> QED
      OBVIOUS
  <2> HIDE DEF V, F
  <2>2. ASSUME NEW f \in [Json -> V], NEW g \in [Json -> V], NEW d \in Json,
               \A c \in Json : Depth[c] < Depth[d] => f[c] = g[c]
        PROVE  F[f][d] = F[g][d]
    <3>1. {b \in Json : Alike(d, b, f)} = {b \in Json : Alike(d, b, g)}
      BY <2>2, <1>5
    <3>2. F[f][d] = {b \in Json : Alike(d, b, f)} /\ F[g][d] = {b \in Json : Alike(d, b, g)}
      BY <2>1
    <3> QED
      BY <3>1, <3>2, Zenon
  <2> QED
    BY <1>1, <1>2, <1>3, <2>2 DEF LooksBelow
<1>7. PICK f \in [Json -> V] : f = rhs(f)
  <2>1. \E f \in [Json -> V] : f = F[f]
    <3> HIDE DEF V, F, rhs
    <3> QED
      BY <1>6, FixedPoint DEF HasFixedPoint
  <2> HIDE DEF rhs
  <2> QED
    BY <2>1
<1>8. SameJson = rhs(SameJson)
  <2>1. SameJson = CHOOSE g : g = rhs(g)
    BY DEF SameJson
  <2> HIDE DEF rhs
  <2> QED
    BY <1>7, <2>1
<1> QED
  BY <1>8

\* One level of ProtoFree, when free tells it of the members.
FreeLevel(node, free) ==
  /\ node.kind = "object" => "__proto__" \notin ToSet(node.names)
  /\ \A i \in DOMAIN node.kids : free[node.kids[i]]

\* ProtoFree satisfies its equation.
LEMMA ProtoFreeFacts == \A a \in Json : ProtoFree[a] = FreeLevel(a, ProtoFree)
<1> DEFINE V == BOOLEAN
           rhs(f) == [a \in Json |-> FreeLevel(a, f)]
           F == [f \in [Json -> V] |-> rhs(f)]
<1>1. Depth \in [Json -> Nat]
  BY JsonAssumption
<1>2. [Json -> V] # {}
  <2>1. [node \in Json |-> TRUE] \in [Json -> V]
    OBVIOUS
  <2> QED
    BY <2>1
<1>3. F \in [[Json -> V] -> [Json -> V]]
  <2>1. \A f, a : FreeLevel(a, f) \in BOOLEAN
    BY Zenon DEF FreeLevel
  <2> QED
    BY <2>1, Zenon
<1>5. ASSUME NEW f, NEW g, NEW a \in Json,
             \A c \in Json : Depth[c] < Depth[a] => f[c] = g[c]
      PROVE  FreeLevel(a, f) = FreeLevel(a, g)
  <2>1. \A i \in DOMAIN a.kids : f[a.kids[i]] = g[a.kids[i]]
    BY <1>5, KidsBelow
  <2> QED
    BY <2>1, Zenon DEF FreeLevel
<1>6. LooksBelow(Json, V, Depth, F)
  <2>1. ASSUME NEW f \in [Json -> V], NEW a \in Json PROVE F[f][a] = FreeLevel(a, f)
    <3> HIDE DEF V
    <3> QED
      BY Zenon
  <2> HIDE DEF V, F
  <2>2. ASSUME NEW f \in [Json -> V], NEW g \in [Json -> V], NEW d \in Json,
               \A c \in Json : Depth[c] < Depth[d] => f[c] = g[c]
        PROVE  F[f][d] = F[g][d]
    <3>1. FreeLevel(d, f) = FreeLevel(d, g)
      BY <2>2, <1>5
    <3>2. F[f][d] = FreeLevel(d, f) /\ F[g][d] = FreeLevel(d, g)
      BY <2>1
    <3> QED
      BY <3>1, <3>2, Zenon
  <2> QED
    BY <1>1, <1>2, <1>3, <2>2 DEF LooksBelow
<1>7. PICK f \in [Json -> V] : f = rhs(f)
  <2>1. \E f \in [Json -> V] : f = F[f]
    <3> HIDE DEF V, F, rhs
    <3> QED
      BY <1>6, FixedPoint DEF HasFixedPoint
  <2> HIDE DEF rhs
  <2> QED
    BY <2>1
<1>8. ProtoFree = rhs(ProtoFree)
  <2>1. ProtoFree = CHOOSE g : g = rhs(g)
    BY DEF ProtoFree, FreeLevel
  <2> HIDE DEF rhs
  <2> QED
    BY <1>7, <2>1
<1> QED
  BY <1>8, Zenon

\* Values that say the same say the same but for __proto__.
LEMMA SameIsSameOwn == \A a \in Json : SameJson[a] \subseteq SameOwn[a]
<1> DEFINE P == {a \in Json : SameJson[a] \subseteq SameOwn[a]}
<1>1. ASSUME NEW a \in Json, \A i \in DOMAIN a.kids : a.kids[i] \in P PROVE a \in P
  <2>1. SUFFICES ASSUME NEW b \in SameJson[a] PROVE b \in SameOwn[a]
    OBVIOUS
  <2>2. b \in Json /\ Alike(a, b, SameJson) /\ IsNode(a) /\ IsNode(b)
    BY SameJsonFacts, KidsBelow
  <2>3. \A i \in DOMAIN a.kids : \A c \in SameJson[a.kids[i]] : c \in SameOwn[a.kids[i]]
    BY <1>1
  <2>4. a.kind = "object" => \A k \in ToSet(a.names) :
                               \A c \in SameJson[Value(a, k)] : c \in SameOwn[Value(a, k)]
    BY <2>2, <2>3, NamedMembers
  <2>5. a.kind = "leaf" \/ a.kind = "array" \/ a.kind = "object"
    BY <2>2, NodeKinds
  <2>6. AlikeOwn(a, b, SameOwn)
    BY <2>2, <2>3, <2>4, <2>5 DEF Alike, AlikeOwn, OwnKeys
  <2> QED
    BY <2>2, <2>6, SameOwnFacts
<1>2. \A a \in Json : (\A i \in DOMAIN a.kids : a.kids[i] \in P) => a \in P
  BY <1>1
<1> HIDE DEF P
<1>3. Json \subseteq P
  BY <1>2, JsonInduction
<1> QED
  BY <1>3 DEF P

\* Without __proto__ the two are one.
LEMMA SameOwnIsSame ==
  \A a \in Json : \A b \in SameOwn[a] : ProtoFree[a] /\ ProtoFree[b] => b \in SameJson[a]
<1> DEFINE P == {a \in Json : \A b \in SameOwn[a] :
                               ProtoFree[a] /\ ProtoFree[b] => b \in SameJson[a]}
<1>1. ASSUME NEW a \in Json, \A i \in DOMAIN a.kids : a.kids[i] \in P PROVE a \in P
  <2>1. SUFFICES ASSUME NEW b \in SameOwn[a], ProtoFree[a], ProtoFree[b] PROVE b \in SameJson[a]
    OBVIOUS
  <2>2. b \in Json /\ AlikeOwn(a, b, SameOwn) /\ IsNode(a) /\ IsNode(b)
    BY SameOwnFacts, KidsBelow
  <2>3. FreeLevel(a, ProtoFree) /\ FreeLevel(b, ProtoFree)
    BY <2>1, <2>2, ProtoFreeFacts
  <2>4. /\ \A i \in DOMAIN a.kids : ProtoFree[a.kids[i]]
        /\ \A i \in DOMAIN b.kids : ProtoFree[b.kids[i]]
        /\ a.kind = "object" => "__proto__" \notin ToSet(a.names)
        /\ b.kind = "object" => "__proto__" \notin ToSet(b.names)
    BY <2>3 DEF FreeLevel
  <2>5. ASSUME NEW i \in DOMAIN a.kids, NEW j \in DOMAIN b.kids, b.kids[j] \in SameOwn[a.kids[i]]
        PROVE  b.kids[j] \in SameJson[a.kids[i]]
    BY <1>1, <2>4, <2>5
  <2>6. a.kind = b.kind
    BY <2>2 DEF AlikeOwn
  <2>7. CASE a.kind = "leaf"
    <3>1. Alike(a, b, SameJson)
      BY <2>2, <2>7 DEF Alike, AlikeOwn
    <3> QED
      BY <2>2, <3>1, SameJsonFacts
  <2>8. CASE a.kind = "array"
    <3>1. Len(a.kids) = Len(b.kids) /\ \A i \in DOMAIN a.kids : b.kids[i] \in SameOwn[a.kids[i]]
      BY <2>2, <2>8 DEF AlikeOwn
    <3>2. a.kids \in Seq(Json) /\ b.kids \in Seq(Json)
      BY <2>2, <2>6, <2>8, NodeKinds
    <3>3. DOMAIN a.kids = DOMAIN b.kids
      BY <3>1, <3>2, LenProperties
    <3>4. Alike(a, b, SameJson)
      BY <2>5, <2>6, <2>8, <3>1, <3>3 DEF Alike
    <3> QED
      BY <2>2, <3>4, SameJsonFacts
  <2>9. CASE a.kind = "object"
    <3>1. OwnKeys(a) = ToSet(a.names) /\ OwnKeys(b) = ToSet(b.names)
      BY <2>4, <2>6, <2>9 DEF OwnKeys
    <3>2. ToSet(a.names) = ToSet(b.names)
          /\ \A k \in ToSet(a.names) : Value(b, k) \in SameOwn[Value(a, k)]
      BY <2>2, <2>9, <3>1 DEF AlikeOwn
    <3>3. ASSUME NEW k \in ToSet(a.names) PROVE Value(b, k) \in SameJson[Value(a, k)]
      <4>1. PICK i \in DOMAIN a.kids : Value(a, k) = a.kids[i]
        BY <2>2, <2>9, NamedMembers
      <4>2. PICK j \in DOMAIN b.kids : Value(b, k) = b.kids[j]
        BY <2>2, <2>6, <2>9, <3>2, NamedMembers
      <4>3. b.kids[j] \in SameOwn[a.kids[i]]
        BY <3>2, <4>1, <4>2
      <4> QED
        BY <2>5, <4>1, <4>2, <4>3
    <3>4. Alike(a, b, SameJson)
      BY <2>6, <2>9, <3>2, <3>3 DEF Alike
    <3> QED
      BY <2>2, <3>4, SameJsonFacts
  <2> QED
    BY <2>2, <2>7, <2>8, <2>9, NodeKinds
<1>2. \A a \in Json : (\A i \in DOMAIN a.kids : a.kids[i] \in P) => a \in P
  BY <1>1
<1> HIDE DEF P
<1>3. Json \subseteq P
  BY <1>2, JsonInduction
<1> QED
  BY <1>3 DEF P

\* Events that say the same get one string, and those that a string can hold
\* get one string only if they say the same.
LEMMA CanonicaliseIdentifies ==
  ASSUME NEW e \in Events, NEW f \in Events
  PROVE  /\ SameEvent(e, f) => Canonicalise(e) = Canonicalise(f)
         /\ Canonicalise(e) = Canonicalise(f) /\ Expressible(e) /\ Expressible(f)
              => SameEvent(e, f)
<1>1. /\ e.metadata \in Json /\ f.metadata \in Json
      /\ e.timestamp \in DOMAIN InstantOf /\ f.timestamp \in DOMAIN InstantOf
  BY EventAssumption
<1>2. ASSUME SameEvent(e, f) PROVE SameWritten(e, f)
  <2>1. f.metadata \in SameOwn[e.metadata]
    BY <1>1, <1>2, SameIsSameOwn DEF SameEvent
  <2> QED
    BY <1>2, <2>1 DEF SameEvent, SameWritten, ToISOString
<1>3. ASSUME SameWritten(e, f), Expressible(e), Expressible(f) PROVE SameEvent(e, f)
  <2>1. f.metadata \in SameJson[e.metadata]
    BY <1>1, <1>3, SameOwnIsSame DEF SameWritten, Expressible
  <2>2. InstantOf[e.timestamp] = InstantOf[f.timestamp]
    <3>1. /\ InstantOf[e.timestamp].ms = InstantOf[f.timestamp].ms
          /\ InstantOf[e.timestamp].below = InstantOf[f.timestamp].below
      BY <1>3 DEF SameWritten, ToISOString, Expressible
    <3>2. /\ InstantOf[e.timestamp] = [ms |-> InstantOf[e.timestamp].ms,
                                      below |-> InstantOf[e.timestamp].below]
          /\ InstantOf[f.timestamp] = [ms |-> InstantOf[f.timestamp].ms,
                                      below |-> InstantOf[f.timestamp].below]
      BY <1>1, EventAssumption
    <3> QED
      BY <3>1, <3>2
  <2> QED
    BY <1>3, <2>1, <2>2 DEF SameEvent, SameWritten
<1> QED
  BY <1>2, <1>3, CanonicaliseSeparates

CanonInv == submitted \in Seq(Events)

\* Only events are submitted.
LEMMA CanonInvariant == CanonSpec => []CanonInv
<1>1. CanonInit => CanonInv
  BY DEF CanonInit, CanonInv
<1>2. CanonInv /\ [Submit]_submitted => CanonInv'
  BY DEF CanonInv, Submit
<1> QED
  BY <1>1, <1>2, PTL DEF CanonSpec

\* canonicalise gives one string to two events that say the same, and to two
\* that a string can hold only if they do, for all sets of keys, literals, JSON
\* values and events.
THEOREM CanonicalStringsIdentify == CanonSpec => []SameStringIffSameEvent
<1>1. CanonInv => SameStringIffSameEvent
  <2>1. SUFFICES ASSUME CanonInv, Len(submitted) = 2
                 PROVE  SameStringIffSameEvent
    BY DEF SameStringIffSameEvent
  <2>2. submitted[1] \in Events /\ submitted[2] \in Events
    <3>1. submitted \in Seq(Events) /\ 1 \in 1..Len(submitted) /\ 2 \in 1..Len(submitted)
      BY <2>1 DEF CanonInv
    <3> QED
      BY <3>1, ElementOfSeq
  <2> QED
    BY <2>2, CanonicaliseIdentifies DEF SameStringIffSameEvent
<1> QED
  BY <1>1, CanonInvariant, PTL
=============================================================================
