---------------------------- MODULE BreakerProofs ----------------------------
(***************************************************************************)
(* Theorems about the circuit breaker under concurrent guarded calls.      *)
(***************************************************************************)
EXTENDS GatewayGuard, TLAPS

\* HALF_OPEN goes with a probe, and a breaker that is not CLOSED with an alert.
BreakerInv ==
  /\ state \in BreakerState
  /\ HalfOpenIffProbe
  /\ AlertWhileOpen

\* recordOutcome keeps BreakerInv in each of the three states.
LEMMA RecordKeepsInv ==
  ASSUME BreakerInv, NEW ok \in BOOLEAN, recordOutcome(ok)
  PROVE  BreakerInv'
<1> USE DEF BreakerInv, BreakerState, HalfOpenIffProbe, AlertWhileOpen
<1>1. CASE state = "HALF_OPEN"
  BY <1>1 DEF recordOutcome, RecordHalfOpen, Trip, setCircuitAlert
<1>2. CASE state = "OPEN"
  BY <1>2 DEF recordOutcome, breakerVars
<1>3. CASE state = "CLOSED"
  BY <1>3 DEF recordOutcome, RecordClosed, Trip, setCircuitAlert
<1> QED BY <1>1, <1>2, <1>3

\* BreakerInv is inductive on its own.
LEMMA BreakerInvInductive ==
  /\ Init => BreakerInv
  /\ BreakerInv /\ [Next]_vars => BreakerInv'
<1> USE DEF BreakerState, HalfOpenIffProbe, AlertWhileOpen
<1>1. Init => BreakerInv
  BY DEF Init, BreakerInit, BreakerInv
<1>2. ASSUME BreakerInv, [Next]_vars PROVE BreakerInv'
  <2>1. ASSUME UNCHANGED <<state, probeInFlight, alert>> PROVE BreakerInv'
    BY <1>2, <2>1 DEF BreakerInv
  <2>2. ASSUME NEW c \in Calls, BeginCall(c) \/ RateLimited(c) \/ FastFail(c)
        PROVE  BreakerInv'
    BY <2>1, <2>2 DEF BeginCall, RateLimited, FastFail, breakerVars
  <2>3. ASSUME NEW c \in Calls, Dispatch(c) PROVE BreakerInv'
    BY <1>2, <2>3 DEF Dispatch, Allowed, AdmitCall, BreakerInv
  <2>4. ASSUME NEW c \in Calls, NEW outcome \in Outcomes, Answered(c, outcome)
        PROVE  BreakerInv'
    <3>1. CASE outcome = "permanent"
      BY <2>1, <2>4, <3>1 DEF Answered, breakerVars
    <3>2. CASE outcome # "permanent"
      BY <1>2, <2>4, <3>2, RecordKeepsInv DEF Answered
    <3> QED BY <3>1, <3>2
  <2>5. CASE Health BY <2>1, <2>5 DEF Health, getState
  <2>6. CASE Configure BY <2>6 DEF Configure, reset, BreakerInv
  <2>7. CASE Tick BY <2>1, <2>7 DEF Tick, breakerVars
  <2>8. CASE UNCHANGED vars BY <2>1, <2>8 DEF vars, breakerVars
  <2> QED
    BY <1>2, <2>2, <2>3, <2>4, <2>5, <2>6, <2>7, <2>8 DEF Next, CallStep
<1> QED BY <1>1, <1>2

\* Under any interleaving of calls, late outcomes and reconfigurations,
\* HALF_OPEN and probeInFlight are set and cleared together.
THEOREM HalfOpenHasProbe == Spec => []HalfOpenIffProbe
<1>1. BreakerInv => HalfOpenIffProbe BY DEF BreakerInv
<1> QED BY <1>1, BreakerInvInductive, PTL DEF Spec

\* A breaker that refuses calls, or probes, has its alert raised.
THEOREM OpenIsAlerted == Spec => []AlertWhileOpen
<1>1. BreakerInv => AlertWhileOpen BY DEF BreakerInv
<1> QED BY <1>1, BreakerInvInductive, PTL DEF Spec

\* Unless an operator reconfigures it, an OPEN breaker is left only after its
\* cooldown, by admitting one waiting call as the probe.
THEOREM CooldownHolds == Spec => CooldownIsHonoured
<1> DEFINE Honoured ==
      state = "OPEN" /\ state' # "OPEN" /\ ~(Operator /\ state' = "CLOSED")
        => now - openedAt >= CooldownMs /\ state' = "HALF_OPEN"
           /\ \E c \in Calls : call[c] = "token" /\ call'[c] = "inFlight"
<1>1. ASSUME call \in [Calls -> CallState], [Next]_vars PROVE [Honoured]_vars
  <2> SUFFICES ASSUME Next, state = "OPEN", state' # "OPEN",
                      ~(Operator /\ state' = "CLOSED")
               PROVE  Honoured
    BY <1>1
  <2>1. ASSUME NEW c \in Calls, Dispatch(c) PROVE Honoured
    BY <1>1, <2>1 DEF Dispatch, Allowed, AdmitCall, Move
  <2>2. ASSUME NEW c \in Calls, NEW outcome \in Outcomes, Answered(c, outcome)
        PROVE  FALSE
    BY <2>2 DEF Answered, recordOutcome, breakerVars
  <2>3. CASE Configure BY <2>3 DEF Configure, reset
  <2> QED
    BY <2>1, <2>2, <2>3
    DEF Next, CallStep, BeginCall, RateLimited, FastFail, Health, getState, Tick, breakerVars
<1>2. Init => call \in [Calls -> CallState]
  BY DEF Init, CallState
<1>3. ASSUME call \in [Calls -> CallState], [Next]_vars
      PROVE  (call \in [Calls -> CallState])'
  BY <1>3
  DEF Next, CallStep, BeginCall, RateLimited, Dispatch, FastFail, Answered, Health, Configure,
      Tick, Move, CallState, vars
<1> QED BY <1>1, <1>2, <1>3, PTL DEF Spec, CooldownIsHonoured
=============================================================================
