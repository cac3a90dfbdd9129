----------------------------- MODULE BucketProofs -----------------------------
(***************************************************************************)
(* The adaptive bucket stays within its AIMD bounds and implements the     *)
(* provider's nominal bucket, for every choice of the constants.           *)
(***************************************************************************)
EXTENDS TokenBucket, TLAPS

\* The tokens the bucket could hand out at the nominal rate, were it refilled
\* now, are covered by the nominal bucket's credit. The rate at which refill
\* will really credit the elapsed time is not known yet: a success before the
\* refill may still raise it, but not above the nominal rate.
Covered ==
  /\ credit \in Nat /\ credit <= MaxBurst
  /\ \/ MaxBurst <= credit
     \/ tokens + sinceRefill * NominalRate <= credit

BucketInv ==
  /\ rate \in Nat /\ burst \in Nat /\ tokens \in Nat /\ throttleCount \in Nat
  /\ sinceRefill \in 0..FullAfter
  /\ AimdBounds
  /\ Covered

-----------------------------------------------------------------------------
\* Products of naturals are monotone in one factor.
LEMMA TimesMonotone ==
  ASSUME NEW n \in Nat, NEW a \in Nat, NEW b \in Nat, a <= b
  PROVE  n * a \in Nat /\ n * a <= n * b
OBVIOUS

\* A sum below a bound stays below it when a term shrinks.
LEMMA SumMonotone ==
  ASSUME NEW a \in Nat, NEW b \in Nat, NEW y \in Nat, NEW c \in Nat, a <= b, b + y <= c
  PROVE  a + y <= c
OBVIOUS

\* refill yields a natural number within the ceiling that the credit covers.
LEMMA RefillCovered ==
  ASSUME BucketInv
  PROVE  refill \in Nat /\ refill <= burst /\ refill <= credit
<1> USE BucketAssumption
<1>1. /\ sinceRefill \in Nat /\ rate \in Nat /\ NominalRate \in Nat
      /\ rate <= NominalRate
  BY DEF BucketInv, AimdBounds
<1>2. /\ sinceRefill * rate \in Nat
      /\ sinceRefill * rate <= sinceRefill * NominalRate
  BY <1>1, TimesMonotone
<1>3. sinceRefill * NominalRate \in Nat
  BY <1>1, TimesMonotone
<1> DEFINE x == sinceRefill * rate
           y == sinceRefill * NominalRate
<1>4. /\ x \in Nat /\ y \in Nat /\ x <= y
  BY <1>2, <1>3
<1>5. refill = MinOf(burst, tokens + x)
  BY DEF refill
<1>6. MaxBurst <= credit \/ tokens + y <= credit
  BY DEF BucketInv, Covered
<1> HIDE DEF x, y
<1> QED BY <1>4, <1>5, <1>6 DEF MinOf, BucketInv, AimdBounds, Covered

\* Handing back tokens keeps the credit sufficient.
LEMMA TokensMayDrop ==
  ASSUME BucketInv, tokens' \in Nat, tokens' <= tokens, UNCHANGED <<sinceRefill, credit>>
  PROVE  Covered'
<1> DEFINE y == sinceRefill * NominalRate
<1>1. y \in Nat
  BY BucketAssumption, TimesMonotone DEF BucketInv
<1>2. sinceRefill' * NominalRate = y
  OBVIOUS
<1>3. MaxBurst <= credit \/ tokens + y <= credit
  BY DEF BucketInv, Covered
<1>4. /\ tokens \in Nat /\ credit \in Nat /\ credit <= MaxBurst
      /\ credit' = credit
  BY DEF BucketInv, Covered
<1> HIDE DEF y
<1>5. CASE MaxBurst <= credit
  BY <1>2, <1>4, <1>5 DEF Covered
<1>6. CASE tokens + y <= credit
  <2>1. tokens' + y <= credit
    BY <1>1, <1>4, <1>6, SumMonotone
  <2> QED BY <1>2, <1>4, <2>1 DEF Covered
<1> QED BY <1>3, <1>5, <1>6

\* Every step of the bucket and its callers keeps the invariant.
LEMMA BucketInvInductive == BucketInv /\ [Next]_vars => BucketInv'
<1> USE BucketAssumption
<1> SUFFICES ASSUME BucketInv, [Next]_vars
             PROVE  BucketInv'
  OBVIOUS
<1>0. /\ rate \in Nat /\ burst \in Nat /\ tokens \in Nat /\ throttleCount \in Nat
      /\ sinceRefill \in 0..FullAfter
      /\ refill \in Nat /\ refill <= burst /\ refill <= credit
  BY RefillCovered DEF BucketInv
<1>1. ASSUME NEW c \in Callers, Poll(c)
      PROVE  BucketInv'
  <2>1. 0 * NominalRate = 0
    OBVIOUS
  <2>2. sinceRefill' = 0 /\ UNCHANGED <<rate, burst, throttleCount>>
    BY <1>1 DEF Poll, tryAcquire
  <2>3. CASE Acquired
    <3>1. tokens' = refill - Scale /\ credit' = credit - Scale /\ refill >= Scale
      BY <1>1, <2>3 DEF Poll, tryAcquire, Acquired
    <3> QED BY <1>0, <2>1, <2>2, <3>1 DEF BucketInv, AimdBounds, Covered
  <2>4. CASE ~Acquired
    <3>1. tokens' = refill /\ credit' = credit
      BY <1>1, <2>4 DEF Poll, tryAcquire
    <3> QED BY <1>0, <2>1, <2>2, <3>1 DEF BucketInv, AimdBounds, Covered
  <2> QED BY <2>3, <2>4
<1>2. ASSUME NEW c \in Callers, Succeeded(c)
      PROVE  BucketInv'
  <2>1. /\ rate' \in Nat /\ burst' \in Nat /\ tokens' \in Nat
        /\ tokens' <= tokens /\ AimdBounds'
    BY <1>0, <1>2 DEF Succeeded, onSuccess, BucketInv, AimdBounds, MinOf
  <2>2. UNCHANGED <<throttleCount, sinceRefill, credit>>
    BY <1>2 DEF Succeeded, onSuccess, Answer
  <2> QED BY <1>0, <2>1, <2>2, TokensMayDrop DEF BucketInv
<1>3. ASSUME NEW c \in Callers, Throttled(c)
      PROVE  BucketInv'
  <2>1. /\ rate \div 2 \in Nat /\ rate \div 2 <= rate
        /\ burst \div 2 \in Nat /\ burst \div 2 <= burst
    BY <1>0
  <2>2. /\ rate' = MaxOf(MinRate, rate \div 2)
        /\ burst' = MaxOf(MinBurst, burst \div 2)
        /\ tokens' = MinOf(tokens, burst')
        /\ throttleCount' = throttleCount + 1
        /\ UNCHANGED <<sinceRefill, credit>>
    BY <1>3 DEF Throttled, onThrottled, Answer
  <2> DEFINE r == rate \div 2
             b == burst \div 2
  <2>3. /\ r \in Nat /\ r <= rate /\ b \in Nat /\ b <= burst
        /\ rate' = MaxOf(MinRate, r) /\ burst' = MaxOf(MinBurst, b)
    BY <2>1, <2>2
  <2> HIDE DEF r, b
  <2>4. /\ rate' \in Nat /\ burst' \in Nat /\ tokens' \in Nat
        /\ tokens' <= tokens /\ AimdBounds'
    BY <1>0, <2>2, <2>3 DEF BucketInv, AimdBounds, MinOf, MaxOf
  <2> QED BY <1>0, <2>2, <2>4, TokensMayDrop DEF BucketInv
<1>4. CASE Reconfigure
  BY <1>0, <1>4 DEF Reconfigure, BucketInv, AimdBounds, Covered
<1>5. CASE GetState
  <2>1. 0 * NominalRate = 0
    OBVIOUS
  <2> QED BY <1>0, <1>5, <2>1 DEF GetState, BucketInv, AimdBounds, Covered
<1>6. CASE Tick
  <2>1. UNCHANGED <<rate, burst, tokens, throttleCount>>
    BY <1>6 DEF Tick
  <2>2. /\ sinceRefill' = MinOf(sinceRefill + 1, FullAfter)
        /\ credit' = MinOf(MaxBurst, credit + NominalRate)
    BY <1>6 DEF Tick
  <2>3. CASE sinceRefill + 1 <= FullAfter
    <3>1. (sinceRefill + 1) * NominalRate = sinceRefill * NominalRate + NominalRate
      BY <1>0
    <3>2. sinceRefill' = sinceRefill + 1
      BY <2>2, <2>3 DEF MinOf
    <3>3. sinceRefill * NominalRate \in Nat
      BY <1>0, TimesMonotone
    <3> DEFINE y == sinceRefill * NominalRate
    <3>4. /\ y \in Nat /\ sinceRefill' * NominalRate = y + NominalRate
          /\ MaxBurst <= credit \/ tokens + y <= credit
      BY <3>1, <3>2, <3>3 DEF BucketInv, Covered
    <3> HIDE DEF y
    <3>5. Covered'
      BY <1>0, <2>1, <2>2, <3>4 DEF BucketInv, Covered, MinOf
    <3> QED BY <1>0, <2>1, <2>3, <3>2, <3>5 DEF BucketInv, AimdBounds
  <2>4. CASE ~(sinceRefill + 1 <= FullAfter)
    <3>1. sinceRefill = FullAfter /\ sinceRefill' = FullAfter
      BY <1>0, <2>2, <2>4 DEF MinOf
    <3>2. FullAfter * MinRate <= FullAfter * NominalRate /\ FullAfter * NominalRate \in Nat
      BY TimesMonotone
    <3> DEFINE y == FullAfter * NominalRate
    <3>3. /\ y \in Nat /\ MaxBurst <= y
          /\ MaxBurst <= credit \/ tokens + y <= credit
      <4>1. MaxBurst <= y
        BY <3>2 DEF BucketInv
      <4> QED BY <3>1, <3>2, <4>1 DEF BucketInv, Covered
    <3> HIDE DEF y
    <3>4. MaxBurst <= credit'
      BY <1>0, <2>2, <3>3 DEF BucketInv, Covered, MinOf
    <3>5. Covered'
      BY <1>0, <2>2, <3>4 DEF BucketInv, Covered, MinOf
    <3> QED BY <1>0, <2>1, <3>1, <3>5 DEF BucketInv, AimdBounds
  <2> QED BY <2>3, <2>4
<1>7. ASSUME UNCHANGED <<bucketVars, credit>>
      PROVE  BucketInv'
  BY <1>7 DEF bucketVars, BucketInv, AimdBounds, Covered
<1>8. ASSUME NEW c \in Callers, BeginWait(c) \/ Failed(c)
      PROVE  BucketInv'
  BY <1>7, <1>8 DEF BeginWait, Failed, Answer
<1>9. CASE UNCHANGED vars
  BY <1>7, <1>9 DEF vars
<1> QED BY <1>1, <1>2, <1>3, <1>4, <1>5, <1>6, <1>8, <1>9 DEF Next

\* The bucket starts full, at the nominal rate and with a full credit.
LEMMA BucketInvInitially == Init => BucketInv
BY BucketAssumption DEF Init, BucketInv, AimdBounds, Covered

\* AIMD never leaves its floor and its nominal limits, and the bucket never
\* exceeds its ceiling, whatever successes, throttles and reconfigurations mix.
THEOREM AimdIsBounded == Spec => []AimdBounds
<1>1. BucketInv => AimdBounds
  BY DEF BucketInv
<1> QED BY <1>1, BucketInvInitially, BucketInvInductive, PTL DEF Spec

-----------------------------------------------------------------------------
\* Every step of the adaptive bucket is a step of the nominal one, or leaves
\* its credit alone.
LEMMA StepIsNominal ==
  ASSUME BucketInv, [Next]_vars
  PROVE  [Nominal!Next]_credit
<1> USE BucketAssumption
<1>1. ASSUME NEW c \in Callers, Poll(c)
      PROVE  [Nominal!Next]_credit
  <2>1. CASE Acquired
    <3>1. refill \in Nat /\ refill <= credit /\ refill >= Scale
      BY <2>1, RefillCovered DEF Acquired
    <3>2. credit \in Nat
      BY DEF BucketInv, Covered
    <3> QED BY <1>1, <2>1, <3>1, <3>2 DEF Poll, tryAcquire, Nominal!Next, Nominal!Grant
  <2>2. CASE ~Acquired
    BY <1>1, <2>2 DEF Poll, tryAcquire
  <2> QED BY <2>1, <2>2
<1>2. CASE Reconfigure
  BY <1>2 DEF Reconfigure, Nominal!Next, Nominal!Refresh
<1>3. CASE Tick
  <2>1. credit' = MinOf(MaxBurst, credit + NominalRate)
    BY <1>3 DEF Tick
  <2> QED BY <2>1 DEF BucketInv, Covered, MinOf, Nominal!Next, Nominal!Elapse
<1>4. CASE GetState
  BY <1>4 DEF GetState
<1>5. ASSUME NEW c \in Callers, BeginWait(c) \/ Succeeded(c) \/ Throttled(c) \/ Failed(c)
      PROVE  [Nominal!Next]_credit
  BY <1>5 DEF BeginWait, Succeeded, Throttled, Failed, Answer
<1>6. CASE UNCHANGED vars
  BY <1>6 DEF vars
<1> QED BY <1>1, <1>2, <1>3, <1>4, <1>5, <1>6 DEF Next

\* The adaptive bucket implements the nominal one: no mix of throttles,
\* successes and refills lets it grant more than nominalRps allows, although
\* refill credits past time at a rate that may have risen since.
THEOREM ImplementsNominal == Spec => ObeysNominal
<1>1. Init => Nominal!Init
  BY DEF Init, Nominal!Init
<1>2. BucketInv /\ [Next]_vars => [Nominal!Next]_credit
  BY StepIsNominal
<1> QED
  BY <1>1, <1>2, BucketInvInitially, BucketInvInductive, PTL
  DEF Spec, ObeysNominal, Nominal!Spec
=============================================================================
