----------------------------- MODULE TokenBucket -----------------------------
(***************************************************************************)
(* The AdaptiveTokenBucket of one gateway with the callers that wait for   *)
(* its tokens and report what the gateway answered.                        *)
(*                                                                         *)
(* Quantities are integers in units of 1/Scale token, rates in units per   *)
(* tick. With constants that are multiples of 2^MaxThrottles every halving *)
(* is exact. The clock is kept as the ticks since lastRefill, which need   *)
(* no counting once the bucket would be full anyway (FullAfter).           *)
(***************************************************************************)
EXTENDS Integers

CONSTANTS
  Callers,
  Scale,         \* units per token
  NominalRate,   \* nominalRps
  MaxBurst,      \* nominalRps * burstFactor
  MinRate,       \* nominalRps * minRateFactor
  MinBurst,      \* nominalRps * minRateFactor * burstFactor
  AiRate,        \* aiStepRps
  AiBurst,       \* aiStepRps * burstFactor
  TokenWait,     \* tokenWaitMs in ticks
  FullAfter,     \* ticks after which an untouched bucket is full at any rate
  MaxThrottles,  \* bound on throttled answers
  Operator       \* an operator may call configure (TRUE or FALSE)

ASSUME BucketAssumption ==
  /\ Scale \in Nat \ {0} /\ TokenWait \in Nat /\ MaxThrottles \in Nat
  /\ MinRate \in Nat \ {0} /\ NominalRate \in Nat /\ MinRate <= NominalRate
  /\ MinBurst \in Nat \ {0} /\ MaxBurst \in Nat /\ MinBurst <= MaxBurst
  /\ AiRate \in Nat /\ AiBurst \in Nat
  /\ FullAfter \in Nat /\ FullAfter * MinRate >= MaxBurst
  /\ Operator \in BOOLEAN

VARIABLES
  rate, burst, tokens, throttleCount,
  sinceRefill,  \* now - lastRefill, in ticks
  call,         \* where each caller is
  left,         \* ticks until the deadline of a waiting caller
  polled,       \* the caller has polled in this tick and sleeps
  credit        \* history: what the provider's nominal bucket would still grant

bucketVars == <<rate, burst, tokens, throttleCount, sinceRefill>>
vars == <<bucketVars, call, left, polled, credit>>

CallState == {"idle", "waiting", "granted"}

MinOf(x, y) == IF x <= y THEN x ELSE y
MaxOf(x, y) == IF x >= y THEN x ELSE y

Init ==
  /\ rate = NominalRate /\ burst = MaxBurst /\ tokens = MaxBurst
  /\ throttleCount = 0 /\ sinceRefill = 0
  /\ call = [c \in Callers |-> "idle"]
  /\ left = [c \in Callers |-> 0]
  /\ polled = [c \in Callers |-> FALSE]
  /\ credit = MaxBurst

-----------------------------------------------------------------------------
\* refill credits the whole time since the last refill at the current rate.
refill == MinOf(burst, tokens + sinceRefill * rate)

\* Mutant: part of a token is enough.
AcquiredPart == refill > 0

Acquired == refill >= Scale

\* Mutant: the refill is credited again by the next call.
AcquireKeepsClock ==
  /\ tokens' = IF Acquired THEN refill - Scale ELSE refill
  /\ credit' = IF Acquired THEN credit - Scale ELSE credit
  /\ UNCHANGED <<rate, burst, throttleCount, sinceRefill>>

\* tryAcquire: refill, then take a token if there is a whole one.
tryAcquire ==
  /\ tokens' = IF Acquired THEN refill - Scale ELSE refill
  /\ credit' = IF Acquired THEN credit - Scale ELSE credit
  /\ sinceRefill' = 0
  /\ UNCHANGED <<rate, burst, throttleCount>>

\* waitForToken starts: its deadline is tokenWaitMs away.
BeginWait(c) ==
  /\ call[c] = "idle"
  /\ call' = [call EXCEPT ![c] = "waiting"]
  /\ left' = [left EXCEPT ![c] = TokenWait]
  /\ polled' = [polled EXCEPT ![c] = FALSE]
  /\ UNCHANGED <<bucketVars, credit>>

\* One turn of its loop: a token, the end of the wait, or a sleep.
Poll(c) ==
  /\ call[c] = "waiting" /\ ~polled[c]
  /\ tryAcquire
  /\ call' = [call EXCEPT ![c] = IF Acquired THEN "granted"
                                 ELSE IF left[c] = 0 THEN "idle" ELSE "waiting"]
  /\ polled' = [polled EXCEPT ![c] = TRUE]
  /\ UNCHANGED left

\* onThrottled, after a 429 or 503: multiplicative decrease.
onThrottled ==
  /\ rate' = MaxOf(MinRate, rate \div 2)
  /\ burst' = MaxOf(MinBurst, burst \div 2)
  /\ tokens' = MinOf(tokens, burst')
  /\ throttleCount' = throttleCount + 1
  /\ UNCHANGED sinceRefill

\* Mutants: the increase passes the nominal limits; it leaves the rate alone.
SuccessUncapped ==
  /\ rate' = IF rate < NominalRate THEN rate + AiRate ELSE rate
  /\ burst' = IF burst < MaxBurst THEN burst + AiBurst ELSE burst
  /\ tokens' = MinOf(tokens, burst')
  /\ UNCHANGED <<throttleCount, sinceRefill>>

SuccessKeepsRate ==
  /\ burst' = IF burst < MaxBurst THEN MinOf(MaxBurst, burst + AiBurst) ELSE burst
  /\ tokens' = MinOf(tokens, burst')
  /\ UNCHANGED <<rate, throttleCount, sinceRefill>>

\* onSuccess: additive increase up to the nominal limits.
onSuccess ==
  /\ rate' = IF rate < NominalRate THEN MinOf(NominalRate, rate + AiRate) ELSE rate
  /\ burst' = IF burst < MaxBurst THEN MinOf(MaxBurst, burst + AiBurst) ELSE burst
  /\ tokens' = MinOf(tokens, burst')
  /\ UNCHANGED <<throttleCount, sinceRefill>>

Answer(c) ==
  /\ call[c] = "granted"
  /\ call' = [call EXCEPT ![c] = "idle"]
  /\ UNCHANGED <<left, polled, credit>>

\* The gateway accepted the charge.
Succeeded(c) == Answer(c) /\ onSuccess

\* The gateway throttled it.
Throttled(c) == throttleCount < MaxThrottles /\ Answer(c) /\ onThrottled

\* Any other failure, and a refusal of the breaker, leave the bucket alone.
Failed(c) == Answer(c) /\ UNCHANGED bucketVars

\* reconfigure resets everything but lastRefill and throttleCount.
Reconfigure ==
  /\ Operator
  /\ rate' = NominalRate /\ burst' = MaxBurst /\ tokens' = MaxBurst
  /\ credit' = MaxBurst
  /\ UNCHANGED <<throttleCount, sinceRefill, call, left, polled>>

\* getState refills too.
GetState ==
  /\ tokens' = refill
  /\ sinceRefill' = 0
  /\ UNCHANGED <<rate, burst, throttleCount, call, left, polled, credit>>

\* A tick of the clock: sleeping callers wake up, deadlines come closer.
Tick ==
  /\ sinceRefill' = MinOf(sinceRefill + 1, FullAfter)
  /\ left' = [c \in Callers |-> MaxOf(0, left[c] - 1)]
  /\ polled' = [c \in Callers |-> FALSE]
  /\ credit' = MinOf(MaxBurst, credit + NominalRate)
  /\ UNCHANGED <<rate, burst, tokens, throttleCount, call>>

Next ==
  \/ \E c \in Callers : BeginWait(c) \/ Poll(c) \/ Succeeded(c) \/ Throttled(c) \/ Failed(c)
  \/ Reconfigure \/ GetState \/ Tick

Spec == Init /\ [][Next]_vars

\* Work keeps coming, waiting callers wake up, the gateway answers and time
\* passes. Among infinitely many answers some are successes.
FairSpec ==
  /\ Spec
  /\ WF_vars(Tick)
  /\ \A c \in Callers :
       /\ WF_vars(BeginWait(c)) /\ WF_vars(Poll(c))
       /\ SF_vars(Succeeded(c))

-----------------------------------------------------------------------------
TypeOK ==
  /\ rate \in Nat /\ burst \in Nat /\ tokens \in Nat /\ throttleCount \in Nat
  /\ sinceRefill \in 0..FullAfter
  /\ call \in [Callers -> CallState]
  /\ left \in [Callers -> 0..TokenWait]
  /\ polled \in [Callers -> BOOLEAN]
  /\ credit \in Int

\* AIMD stays between its floor and the nominal limits, and the bucket never
\* holds more than its current ceiling.
AimdBounds ==
  /\ MinRate <= rate /\ rate <= NominalRate
  /\ MinBurst <= burst /\ burst <= MaxBurst
  /\ tokens <= burst

\* The adaptive bucket grants only what the provider's nominal bucket would:
\* in every interval at most a burst plus nominalRps times its length, although
\* refill credits past time at a rate that may have risen since.
Nominal == INSTANCE NominalBucket
ObeysNominal == Nominal!Spec

\* Consecutive successes bring the limiter back to the nominal rate.
Recovers == []<>(rate = NominalRate /\ burst = MaxBurst)
=============================================================================
