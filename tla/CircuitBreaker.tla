--------------------------- MODULE CircuitBreaker ---------------------------
(***************************************************************************)
(* The circuit breaker of one gateway, with the alert its callbacks keep   *)
(* (circuit-breaker.ts, the registry's callbacks and setCircuitAlert).     *)
(* Every method is synchronous, so each is one step of its caller.         *)
(***************************************************************************)
EXTENDS Integers, Sequences, FiniteSets

CONSTANTS
  WindowMs,      \* length of the sliding sample window
  CooldownMs,    \* how long the breaker stays OPEN before a probe
  MinSamples,    \* samples needed before tripping is evaluated
  ThresholdNum,  \* failureThreshold = ThresholdNum / ThresholdDen
  ThresholdDen

ASSUME BreakerAssumption ==
  /\ WindowMs \in Nat /\ CooldownMs \in Nat /\ MinSamples \in Nat
  /\ ThresholdNum \in Nat /\ ThresholdDen \in Nat \ {0}

VARIABLES
  state,          \* CLOSED, OPEN or HALF_OPEN
  window,         \* samples [t, ok], oldest first
  openedAt,       \* when the breaker last tripped
  probeInFlight,
  tripCount,
  alert,          \* the circuit_open alert is active
  now             \* Date.now()

breakerVars == <<state, window, openedAt, probeInFlight, tripCount, alert>>

BreakerState == {"CLOSED", "OPEN", "HALF_OPEN"}
Sample == [t : Nat, ok : BOOLEAN]

BreakerInit ==
  /\ state = "CLOSED" /\ window = <<>> /\ openedAt = 0
  /\ probeInFlight = FALSE /\ tripCount = 0 /\ alert = FALSE

\* prune shifts samples off the front until one is young enough.
Expired(w) == {i \in 1..Len(w) : \A j \in 1..i : w[j].t < now - WindowMs}
\* Mutant: old samples stay.
PruneNothing(w) == w

Prune(w) == SubSeq(w, Cardinality(Expired(w)) + 1, Len(w))

Failures(w) == Cardinality({i \in 1..Len(w) : ~w[i].ok})

\* samples >= minSamples and failures/samples >= threshold; the rate of an
\* empty window is 0.
Breached(w) ==
  /\ Len(w) >= MinSamples
  /\ IF Len(w) = 0 THEN ThresholdNum = 0
     ELSE Failures(w) * ThresholdDen >= ThresholdNum * Len(w)

-----------------------------------------------------------------------------
\* Mutant: an OPEN breaker admits without its cooldown.
AllowedAtOnce == ~probeInFlight

\* allowCall: does it admit the caller, and what does admitting change?
Allowed ==
  \/ state = "CLOSED"
  \/ state = "OPEN" /\ now - openedAt >= CooldownMs
  \/ state = "HALF_OPEN" /\ ~probeInFlight

AdmitCall ==
  /\ IF state = "CLOSED"
       THEN UNCHANGED <<state, probeInFlight>>
       ELSE state' = "HALF_OPEN" /\ probeInFlight' = TRUE
  /\ UNCHANGED <<window, openedAt, tripCount, alert>>

\* The registry's callbacks emit circuit.opened and circuit.closed, whose only
\* listener runs before emit yields.
setCircuitAlert(open) == alert' = open

\* Mutants: the trip notifies nobody; the cooldown is counted backwards.
TripQuietly ==
  /\ state' = "OPEN" /\ openedAt' = now
  /\ tripCount' = tripCount + 1 /\ UNCHANGED alert

TripInThePast ==
  /\ state' = "OPEN" /\ openedAt' = now - CooldownMs
  /\ tripCount' = tripCount + 1 /\ alert' = TRUE

\* The breaker opens: the openedAt, tripCount and onOpened of both branches.
Trip ==
  /\ state' = "OPEN"
  /\ openedAt' = now
  /\ tripCount' = tripCount + 1
  /\ setCircuitAlert(TRUE)

\* Mutant: the probe stays marked in flight.
RecordKeepsProbe(ok) ==
  /\ UNCHANGED probeInFlight
  /\ IF ok
       THEN /\ state' = "CLOSED" /\ window' = <<>> /\ alert' = FALSE
            /\ UNCHANGED <<openedAt, tripCount>>
       ELSE Trip /\ UNCHANGED window

\* recordOutcome while HALF_OPEN: any outcome is taken for the probe's.
RecordHalfOpen(ok) ==
  /\ probeInFlight' = FALSE
  /\ IF ok
       THEN /\ state' = "CLOSED" /\ window' = <<>> /\ setCircuitAlert(FALSE)
            /\ UNCHANGED <<openedAt, tripCount>>
       ELSE Trip /\ UNCHANGED window

\* recordOutcome while CLOSED: sample, prune, evaluate.
RecordClosed(ok) ==
  /\ window' = Prune(Append(window, [t |-> now, ok |-> ok]))
  /\ IF Breached(window') THEN Trip
     ELSE UNCHANGED <<state, openedAt, tripCount, alert>>
  /\ UNCHANGED probeInFlight

\* While OPEN an outcome is one of a call started before the trip: ignored.
recordOutcome(ok) ==
  CASE state = "HALF_OPEN" -> RecordHalfOpen(ok)
    [] state = "OPEN"      -> UNCHANGED breakerVars
    [] state = "CLOSED"    -> RecordClosed(ok)

\* reset, reached through reconfigure: no callback, so the alert stays.
reset ==
  /\ state' = "CLOSED" /\ window' = <<>> /\ openedAt' = 0
  /\ probeInFlight' = FALSE /\ tripCount' = 0
  /\ UNCHANGED alert

\* getState prunes too.
getState ==
  /\ window' = Prune(window)
  /\ UNCHANGED <<state, openedAt, probeInFlight, tripCount, alert>>

BreakerTypeOK ==
  /\ state \in BreakerState
  /\ window \in Seq(Sample)
  /\ openedAt \in Nat /\ tripCount \in Nat
  /\ probeInFlight \in BOOLEAN /\ alert \in BOOLEAN
=============================================================================
