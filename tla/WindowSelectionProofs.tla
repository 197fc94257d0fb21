------------------------ MODULE WindowSelectionProofs ------------------------
(***************************************************************************)
(* Rejection at the limit leaves no modulo bias, for every universe and    *)
(* every count: the digests below the limit that select window i are       *)
(* exactly n * k + i for the Universe \div n values of k.  And the draw     *)
(* returns the window of the first such digest of its stream.              *)
(***************************************************************************)
EXTENDS WindowSelection, FunctionTheorems, FiniteSetTheorems, TLAPS

\* Quotient and remainder of a natural number.
LEMMA Division ==
    ASSUME NEW n \in Nat \ {0}, NEW x \in Nat
    PROVE  /\ x \div n \in Nat
           /\ x % n \in 0..n - 1
           /\ x = (n * (x \div n)) + (x % n)
  OBVIOUS

\* The multiples of a count are ordered as their factors.
LEMMA Multiples ==
    ASSUME NEW n \in Nat \ {0}, NEW a \in Nat, NEW b \in Nat, a < b
    PROVE  (n * a) + n <= n * b
  <1>1. PICK c \in Nat : b = a + 1 + c
    BY b - a - 1 \in Nat
  <1>2. n * b = (n * a) + n + (n * c)
    BY <1>1
  <1>3. n * c \in Nat /\ n * a \in Nat
    OBVIOUS
  <1> QED
    BY <1>2, <1>3

\* A number has one quotient and one remainder by a count.
LEMMA QuotientIsUnique ==
    ASSUME NEW n \in Nat \ {0}, NEW a \in Nat, NEW b \in Nat,
           NEW i \in 0..n - 1, NEW j \in 0..n - 1, (n * a) + i = (n * b) + j
    PROVE  a = b /\ i = j
  <1>1. n * a \in Nat /\ n * b \in Nat
    OBVIOUS
  <1>2. ~(a < b)
    BY <1>1, Multiples
  <1>3. ~(b < a)
    BY <1>1, Multiples
  <1>4. a = b
    BY <1>2, <1>3
  <1> QED
    BY <1>1, <1>4

\* The limit of map_candidate_from_digest_sequence is a multiple of the count.
LEMMA LimitIsMultiple ==
    ASSUME NEW n \in 1..Universe
    PROVE  /\ Limit(n) = n * (Universe \div n)
           /\ Universe \div n \in Nat
           /\ Limit(n) <= Universe
  <1>1. n \in Nat \ {0} /\ Universe \in Nat
    BY UniverseAssumption
  <1>2. /\ Universe \div n \in Nat
        /\ Universe % n \in 0..n - 1
        /\ Universe = (n * (Universe \div n)) + (Universe % n)
    BY <1>1, Division
  <1> QED
    BY <1>1, <1>2 DEF Limit

\* The digests that select a window are an arithmetic progression.
LEMMA ShareIsArithmetic ==
    ASSUME NEW n \in 1..Universe, NEW i \in 0..n - 1
    PROVE  /\ \A k \in 0..(Universe \div n) - 1 : (n * k) + i \in Share(n, i)
           /\ \A d \in Share(n, i) :
                  \E k \in 0..(Universe \div n) - 1 : d = (n * k) + i
  <1> DEFINE K == Universe \div n
  <1>1. n \in Nat \ {0} /\ Universe \in Nat /\ K \in Nat
    BY UniverseAssumption, LimitIsMultiple
  <1>2. Limit(n) = n * K /\ n * K <= Universe
    BY LimitIsMultiple
  <1> HIDE DEF K
  <1>3. ASSUME NEW k \in 0..K - 1
        PROVE  (n * k) + i \in Share(n, i)
    <2>1. (n * k) + n <= n * K /\ n * k \in Nat /\ n * K \in Nat
      BY <1>1, Multiples
    <2>2. (n * k) + i \in Nat /\ (n * k) + i < n * K
      BY <1>1, <2>1
    <2>3. ((n * k) + i) % n = i
      <3> DEFINE x == (n * k) + i
      <3>1. /\ x \div n \in Nat
            /\ x % n \in 0..n - 1
            /\ x = (n * (x \div n)) + (x % n)
        BY <1>1, <2>2, Division
      <3>2. k \in Nat /\ (n * k) + i = (n * (x \div n)) + (x % n)
        BY <1>1, <3>1
      <3> HIDE DEF x
      <3>3. x % n = i
        BY <1>1, <3>1, <3>2, QuotientIsUnique
      <3> QED
        BY <3>3 DEF x
    <2> QED
      BY <1>1, <1>2, <2>1, <2>2, <2>3 DEF Share, Digests
  <1>4. ASSUME NEW d \in Share(n, i)
        PROVE  \E k \in 0..K - 1 : d = (n * k) + i
    <2>1. d \in Nat /\ d < n * K /\ d % n = i
      BY <1>1, <1>2 DEF Share, Digests
    <2>2. d \div n \in Nat /\ d = (n * (d \div n)) + i
      BY <1>1, <2>1, Division
    <2>3. d \div n < K
      <3>1. SUFFICES ASSUME K <= d \div n PROVE FALSE
        BY <1>1, <2>2
      <3>2. n * K <= n * (d \div n)
        BY <1>1, <2>2, <3>1, Multiples
      <3> QED
        BY <1>1, <2>1, <2>2, <3>2
    <2>4. d \div n \in 0..K - 1
      BY <1>1, <2>2, <2>3
    <2> QED
      BY <2>2, <2>4
  <1> QED
    BY <1>3, <1>4 DEF K

\* Every window is selected by the same number of digests.
LEMMA EqualShares ==
    ASSUME NEW n \in 1..Universe, NEW i \in 0..n - 1
    PROVE  Cardinality(Share(n, i)) = Universe \div n
  <1> DEFINE K == 0..(Universe \div n) - 1
             F == [k \in K |-> (n * k) + i]
  <1>1. n \in Nat \ {0} /\ Universe \div n \in Nat
    BY UniverseAssumption, LimitIsMultiple
  <1>2. F \in [K -> Share(n, i)]
    BY ShareIsArithmetic
  <1>3. \A d \in Share(n, i) : \E k \in K : F[k] = d
    BY ShareIsArithmetic
  <1>4. \A a, b \in K : F[a] = F[b] => a = b
    <2>1. SUFFICES ASSUME NEW a \in K, NEW b \in K, F[a] = F[b] PROVE a = b
      OBVIOUS
    <2>2. a \in Nat /\ b \in Nat /\ (n * a) + i = (n * b) + i
      BY <2>1
    <2> QED
      BY <1>1, <2>2, QuotientIsUnique
  <1>5. F \in Bijection(K, Share(n, i))
    BY <1>2, <1>3, <1>4, Fun_IsBij
  <1>6. IsFiniteSet(K) /\ Cardinality(K) = Universe \div n
    <2> DEFINE last == (Universe \div n) - 1
    <2>1. last \in Int /\ 0 \in Int
      BY <1>1
    <2>2. /\ IsFiniteSet(0..last)
          /\ Cardinality(0..last) = IF 0 > last THEN 0 ELSE last - 0 + 1
      BY <2>1, FS_Interval
    <2>3. (IF 0 > last THEN 0 ELSE last - 0 + 1) = Universe \div n
      BY <1>1
    <2> QED
      BY <2>2, <2>3
  <1> QED
    BY <1>5, <1>6, FS_Bijection DEF ExistsBijection

\* The registered selection is unbiased for every digest width and every count
\* of eligible windows: with count windows, each is selected by exactly
\* Universe \div count of the accepted digests.
THEOREM SelectionIsUnbiased == Spec => []Unbiased
  <1> DEFINE Inv == count \in 1..Universe
  <1>1. Init => Inv
    BY CountAssumption, UniverseAssumption DEF Init
  <1>2. Inv /\ [Next]_vars => Inv'
    BY DEF Next, Accept, Reject, Exhaust, vars
  <1>3. Inv => Unbiased
    BY EqualShares DEF Unbiased
  <1> QED
    BY <1>1, <1>2, <1>3, PTL DEF Spec

\* Where a draw stands: every digest before the counter was rejected, and an
\* outcome is that of the digest at the counter or of the end of the stream.
DrawInv ==
    /\ \A j \in 0..Draws - 1 : j < counter => stream[j] >= Limit(count)
    /\ outcome = "selected" => /\ counter < Draws
                               /\ stream[counter] < Limit(count)
                               /\ index = stream[counter] % count
    /\ outcome = "exhausted" => counter = Draws

IInv == TypeOK /\ DrawInv

\* Every digest has a remainder by the count, and so selects some window.
LEMMA Remainders ==
    ASSUME NEW n \in 1..MaxCount, NEW d \in Digests
    PROVE  d % n \in 0..n - 1 /\ d \in Int /\ Limit(n) \in Int
  <1>1. n \in 1..Universe /\ n \in Nat \ {0} /\ d \in Nat
    BY CountAssumption, UniverseAssumption DEF Digests
  <1>2. d % n \in 0..n - 1
    BY <1>1, Division
  <1>3. Limit(n) \in Int
    BY <1>1, LimitIsMultiple, UniverseAssumption DEF Limit
  <1> QED
    BY <1>1, <1>2, <1>3

\* The draw starts with nothing rejected.
LEMMA InitInvariant == Init => IInv
  BY CountAssumption, UniverseAssumption DEF Init, IInv, TypeOK, DrawInv

\* Each step of the draw keeps the invariant.
LEMMA NextInvariant == IInv /\ [Next]_vars => IInv'
  <1> SUFFICES ASSUME IInv, [Next]_vars PROVE IInv'
    OBVIOUS
  <1>1. /\ count \in 1..MaxCount /\ Draws \in Nat /\ counter \in 0..Draws
        /\ \A j \in 0..Draws - 1 : stream[j] \in Digests
    BY CountAssumption DEF IInv, TypeOK
  <1>2. CASE Accept
    <2>1. counter \in 0..Draws - 1
      BY <1>1, <1>2 DEF Accept
    <2>2. index' \in 0..count - 1
      BY <1>1, <1>2, <2>1, Remainders DEF Accept
    <2>3. TypeOK'
      BY <1>2, <2>2 DEF Accept, IInv, TypeOK
    <2>4. DrawInv'
      BY <1>2 DEF Accept, IInv, DrawInv, Limit
    <2> QED
      BY <2>3, <2>4 DEF IInv
  <1>3. CASE Reject
    <2>1. counter \in 0..Draws - 1
      BY <1>1, <1>3 DEF Reject
    <2>2. TypeOK'
      BY <1>1, <1>3, <2>1 DEF Reject, IInv, TypeOK
    <2>3. ASSUME NEW j \in 0..Draws - 1, j < counter + 1
          PROVE  stream[j] >= Limit(count)
      BY <1>1, <1>3, <2>1, <2>3 DEF Reject, IInv, DrawInv
    <2>4. DrawInv'
      BY <1>1, <1>3, <2>3 DEF Reject, DrawInv, Limit
    <2> QED
      BY <2>2, <2>4 DEF IInv
  <1>4. CASE Exhaust
    BY <1>4 DEF Exhaust, IInv, TypeOK, DrawInv, Limit
  <1>5. CASE UNCHANGED vars
    BY <1>5 DEF vars, IInv, TypeOK, DrawInv, Limit
  <1> QED
    BY <1>2, <1>3, <1>4, <1>5 DEF Next

\* What is selected is the first digest below the limit, and nothing is only
\* when no digest of the stream is.
LEMMA DrawIsFirstAcceptable == IInv => FirstAcceptable
  <1> SUFFICES ASSUME IInv PROVE FirstAcceptable
    OBVIOUS
  <1> DEFINE acceptable == {k \in 0..Draws - 1 : stream[k] < Limit(count)}
  <1>1. /\ count \in 1..MaxCount /\ Draws \in Nat /\ counter \in 0..Draws
        /\ \A j \in 0..Draws - 1 : stream[j] \in Digests
    BY CountAssumption DEF IInv, TypeOK
  <1>2. \A j \in acceptable : counter <= j
    <2>1. SUFFICES ASSUME NEW j \in 0..Draws - 1, stream[j] < Limit(count), j < counter
                   PROVE  FALSE
      BY <1>1
    <2>2. stream[j] >= Limit(count)
      BY <2>1 DEF IInv, DrawInv
    <2>3. stream[j] \in Int /\ Limit(count) \in Int
      BY <1>1, Remainders
    <2> QED
      BY <2>1, <2>2, <2>3
  <1>3. ASSUME outcome = "selected"
        PROVE  \E k \in acceptable :
                   /\ \A j \in acceptable : k <= j
                   /\ counter = k
                   /\ stream[k] \in Share(count, index)
    <2>1. counter \in acceptable
      BY <1>1, <1>3 DEF IInv, DrawInv
    <2>2. stream[counter] \in Share(count, index)
      BY <1>1, <1>3, <2>1 DEF IInv, DrawInv, Share
    <2> QED
      BY <1>2, <2>1, <2>2
  <1>4. ASSUME outcome = "exhausted" PROVE acceptable = {}
    BY <1>1, <1>2, <1>4 DEF IInv, DrawInv
  <1> HIDE DEF acceptable
  <1>5. FirstAcceptable <=>
            /\ outcome = "selected" =>
                   \E k \in acceptable :
                       /\ \A j \in acceptable : k <= j
                       /\ counter = k
                       /\ stream[k] \in Share(count, index)
            /\ outcome = "exhausted" => acceptable = {}
    BY DEF FirstAcceptable, acceptable
  <1> QED
    BY <1>3, <1>4, <1>5

\* map_candidate_from_digest_sequence keeps its types and the invariant of the
\* draw, for every universe, count and length of the stream.
THEOREM DrawInvariant == Spec => []IInv
  BY InitInvariant, NextInvariant, PTL DEF Spec

\* The selection agrees with its definition: two readers of one stream select
\* the same window, that of its first digest below the limit.
THEOREM SelectionIsFirst == Spec => []FirstAcceptable
  BY DrawInvariant, DrawIsFirstAcceptable, PTL

\* The index returned is one of a window, whatever the stream.
THEOREM IndexIsOfAWindow == Spec => []TypeOK
  <1>1. IInv => TypeOK
    BY DEF IInv
  <1> QED
    BY <1>1, DrawInvariant, PTL
=============================================================================
