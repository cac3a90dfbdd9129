---------------------------- MODULE GatewayGuard ----------------------------
(***************************************************************************)
(* GatewayGuard.call for concurrent calls to one gateway: wait for a token, *)
(* ask the breaker, invoke the gateway, feed the outcome back. A token wait *)
(* ends with a token or with the RATE_LIMITED refusal.                     *)
(***************************************************************************)
EXTENDS CircuitBreaker

CONSTANTS
  Calls,     \* invocations of guard.call
  Outcomes,  \* what the gateway answers: ok, transient, permanent
  Operator,  \* an operator may call configure (TRUE or FALSE)
  MaxTime    \* bound on the clock

ASSUME GuardAssumption ==
  /\ Outcomes \subseteq {"ok", "transient", "permanent"}
  /\ Operator \in BOOLEAN
  /\ MaxTime \in Nat

VARIABLES
  call,      \* where each call is
  gate,      \* the breaker state that admitted the call
  sampled    \* history: every outcome sampled since the window was last emptied

vars == <<breakerVars, now, call, gate, sampled>>

CallState == {"idle", "token", "inFlight", "done", "rateLimited", "circuitOpen"}

Init ==
  /\ BreakerInit
  /\ now = 0
  /\ call = [c \in Calls |-> "idle"]
  /\ gate = [c \in Calls |-> "none"]
  /\ sampled = <<>>

Move(c, from, to) ==
  /\ call[c] = from
  /\ call' = [call EXCEPT ![c] = to]

-----------------------------------------------------------------------------
BeginCall(c) ==
  /\ Move(c, "idle", "token")
  /\ UNCHANGED <<breakerVars, now, gate, sampled>>

\* No token within tokenWaitMs.
RateLimited(c) ==
  /\ Move(c, "token", "rateLimited")
  /\ UNCHANGED <<breakerVars, now, gate, sampled>>

\* The breaker admits the call and the charge is sent, with no await between.
Dispatch(c) ==
  /\ Allowed
  /\ Move(c, "token", "inFlight")
  /\ gate' = [gate EXCEPT ![c] = IF state = "CLOSED" THEN "CLOSED" ELSE "HALF_OPEN"]
  /\ AdmitCall
  /\ UNCHANGED <<now, sampled>>

\* The breaker refuses: the token is spent, the gateway is not called.
FastFail(c) ==
  /\ ~Allowed
  /\ Move(c, "token", "circuitOpen")
  /\ UNCHANGED <<breakerVars, now, gate, sampled>>

\* The gateway answered; a permanent rejection is not reported to the breaker.
Answered(c, outcome) ==
  /\ Move(c, "inFlight", "done")
  /\ IF outcome = "permanent"
       THEN UNCHANGED <<breakerVars, sampled>>
       ELSE /\ recordOutcome(outcome = "ok")
            /\ sampled' = CASE state = "CLOSED" ->
                                 Append(sampled, [t |-> now, ok |-> outcome = "ok"])
                            [] state = "HALF_OPEN" /\ outcome = "ok" -> <<>>
                            [] OTHER -> sampled
  /\ UNCHANGED <<now, gate>>

\* health and the metrics read the breaker's state.
Health ==
  /\ getState
  /\ UNCHANGED <<now, call, gate, sampled>>

Configure ==
  /\ Operator
  /\ reset
  /\ sampled' = <<>>
  /\ UNCHANGED <<now, call, gate>>

Tick ==
  /\ now < MaxTime
  /\ now' = now + 1
  /\ UNCHANGED <<breakerVars, call, gate, sampled>>

CallStep(c) ==
  \/ RateLimited(c) \/ Dispatch(c) \/ FastFail(c)
  \/ \E outcome \in Outcomes : Answered(c, outcome)

Next ==
  \/ \E c \in Calls : BeginCall(c) \/ CallStep(c)
  \/ Health \/ Configure \/ Tick

Spec == Init /\ [][Next]_vars

\* A started call ends: the token wait is bounded, the gateway answers.
FairSpec == Spec /\ \A c \in Calls : WF_vars(CallStep(c))

-----------------------------------------------------------------------------
TypeOK ==
  /\ BreakerTypeOK
  /\ now \in Nat
  /\ call \in [Calls -> CallState]
  /\ gate \in [Calls -> {"none", "CLOSED", "HALF_OPEN"}]
  /\ sampled \in Seq(Sample)

Probes == {c \in Calls : call[c] = "inFlight" /\ gate[c] = "HALF_OPEN"}

\* HALF_OPEN and probeInFlight go together, so the branch of allowCall that
\* admits a second probe in HALF_OPEN is never taken, whatever late outcomes
\* and reconfigurations happen.
HalfOpenIffProbe == state = "HALF_OPEN" <=> probeInFlight

\* While the breaker is not CLOSED the circuit_open alert is active.
AlertWhileOpen == state # "CLOSED" => alert

\* The samples the breaker should judge: all those of the last windowMs.
Recent(h) == SelectSeq(h, LAMBDA s : s.t >= now - WindowMs)

\* The breaker trips on an outcome in CLOSED exactly when the outcomes of the
\* last windowMs breach the threshold: pruning from the front, and pruning by
\* readers of the state, never loses or keeps a sample that matters.
TripsExactlyOnBreach ==
  [][state = "CLOSED" /\ sampled' # sampled /\ sampled' # <<>> =>
       (state' = "OPEN" <=> Breached(Recent(sampled')))]_vars

\* No call reaches the gateway during the cooldown after a trip, and an OPEN
\* breaker leaves OPEN only by admitting a probe (or by configure).
CooldownIsHonoured ==
  [][state = "OPEN" /\ state' # "OPEN" /\ ~(Operator /\ state' = "CLOSED")
       => now - openedAt >= CooldownMs /\ state' = "HALF_OPEN"
          /\ \E c \in Calls : call[c] = "token" /\ call'[c] = "inFlight"]_vars

\* "HALF_OPEN: exactly one probe call runs".
OneProbeAtATime == Cardinality(Probes) <= 1

\* "success closes the breaker, failure reopens it": HALF_OPEN is left.
HalfOpenIsLeft == state = "HALF_OPEN" ~> state # "HALF_OPEN"
=============================================================================
