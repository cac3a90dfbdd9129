-------------------------- MODULE MetricsCollector --------------------------
(***************************************************************************)
(* The MetricsCollector: its rolling window of attempts, the refreshes     *)
(* that compare a snapshot with the alert thresholds, and the alerts they  *)
(* raise, repeat and clear. A refresh reads the window at once, and the    *)
(* queue depths over the network; several may be under way, started by     *)
(* finished attempts, by new payments and by the broadcast timer.          *)
(*                                                                         *)
(* Times are ages: how long ago an attempt was recorded or an alert was    *)
(* last notified. An age stops growing once no condition can tell.         *)
(***************************************************************************)
EXTENDS Integers, FiniteSets, Sequences, SequencesExt, TLC

CONSTANTS
  Refreshes,    \* the refreshes that may be under way at a time
  Window,       \* config.metrics.windowSeconds
  MaxSamples,   \* the cap of the window, 10000 in the code
  Outcomes,     \* how an attempt may end: [ok, durationMs]
  ErrorPercent, \* config.metrics.errorRateAlert
  P95Alert,     \* config.metrics.p95LatencyAlertMs
  Cooldown,     \* config.metrics.alertCooldownMs
  LogSize       \* how many attempts the history keeps

ASSUME MetricsAssumption ==
  /\ Window \in Nat /\ MaxSamples \in Nat \ {0} /\ Cooldown \in Nat \ {0}
  /\ ErrorPercent \in Nat /\ P95Alert \in Nat /\ LogSize \in Nat
  /\ \A o \in Outcomes : o.ok \in BOOLEAN /\ o.durationMs \in Nat

VARIABLES
  samples,   \* the attempts in memory, oldest first
  alerts,    \* the active alerts
  sinceRaised, \* the age of each alert's last notification
  refresh,   \* what each refresh is doing
  high,      \* the thresholds each refresh has seen exceeded
  backlog,   \* the gateway's waiting depth exceeds its threshold
  circuit,   \* history: the last circuit event was circuit.opened
  log        \* history: the last LogSize attempts

vars == <<samples, alerts, sinceRaised, refresh, high, backlog, circuit, log>>

Thresholds == {"error_rate_high", "p95_latency_high", "queue_depth_high"}
AlertIds == Thresholds \cup {"circuit_open"}

Init ==
  /\ samples = <<>> /\ log = <<>>
  /\ alerts = {} /\ sinceRaised = [id \in AlertIds |-> Cooldown]
  /\ refresh = [r \in Refreshes |-> "idle"] /\ high = [r \in Refreshes |-> {}]
  /\ backlog = FALSE /\ circuit = FALSE

-----------------------------------------------------------------------------
(* The window.                                                             *)

LastN(s, n) == SubSeq(s, Len(s) - (IF n < Len(s) THEN n ELSE Len(s)) + 1, Len(s))

InWindow(s) == SelectSeq(s, LAMBDA x : x.age <= Window)

\* Mutant: a full window loses the newest attempts.
KeepOldest(s, x) ==
  IF Len(InWindow(s)) = MaxSamples THEN InWindow(s) ELSE InWindow(Append(s, x))

\* Mutant: the window has no cap.
RecordUncapped(s, x) == InWindow(Append(s, x))

\* The new sample is pushed, expired ones are shifted out and the oldest ones
\* over the cap are spliced off. Samples are in the order of their times, so
\* shifting while the first one is expired leaves those in the window.
recordAttempt(s, x) == LastN(InWindow(Append(s, x)), MaxSamples)

\* Mutant: the rank is rounded down.
PercentileRoundedDown(sorted, percent) ==
  LET rank == (percent * Len(sorted)) \div 100
  IN sorted[IF rank < 1 THEN 1 ELSE rank]

\* percentile of a non-empty sorted sequence: the element of rank
\* ceil(p * length), kept inside the sequence.
percentile(sorted, percent) ==
  LET rank == (percent * Len(sorted) + 99) \div 100
  IN sorted[IF rank < 1 THEN 1 ELSE IF rank > Len(sorted) THEN Len(sorted) ELSE rank]

Durations(s) == SortSeq([i \in DOMAIN s |-> s[i].durationMs], LAMBDA a, b : a < b)

\* The thresholds exceeded by the attempts of the window.
Exceeded ==
  LET inWindow == InWindow(samples)
      failed == SelectSeq(inWindow, LAMBDA x : ~x.ok)
  IN {id \in {"error_rate_high"} : 100 * Len(failed) > ErrorPercent * Len(inWindow)}
     \cup {id \in {"p95_latency_high"} :
             inWindow # <<>> /\ percentile(Durations(inWindow), 95) > P95Alert}

-----------------------------------------------------------------------------
(* The alerts.                                                             *)

\* Mutant: an alert is notified once and never again.
NotifiedOnce(ids) == ids \ alerts

\* evaluate notifies an alert when it is raised, and again after the cooldown.
Notified(ids) == {id \in ids : id \notin alerts \/ sinceRaised[id] >= Cooldown}

Notify(ids) ==
  sinceRaised' = [id \in AlertIds |-> IF id \in Notified(ids) THEN 0 ELSE sinceRaised[id]]

\* Mutant: a refresh clears every alert it has not just evaluated.
ClearedAll(r) == AlertIds \ high[r]

\* Mutant: a refresh clears nothing.
ClearedNone(r) == {}

\* A refresh clears the threshold alerts whose condition its snapshot does not
\* show. circuit_open stays until a circuit.closed event.
Cleared(r) == Thresholds \ high[r]

-----------------------------------------------------------------------------
(* The refreshes.                                                          *)

\* refresh up to its first await, the read of the queue depths; the window
\* is the one after the attempt that started it was recorded.
StartRefresh(r) ==
  /\ refresh[r] = "idle"
  /\ refresh' = [refresh EXCEPT ![r] = "reading"]
  /\ high' = [high EXCEPT ![r] = Exceeded']

\* The job.completed listener records the attempt and starts a refresh.
JobCompleted(r) ==
  /\ \E o \in Outcomes :
       LET x == [ok |-> o.ok, durationMs |-> o.durationMs, age |-> 0]
       IN /\ samples' = recordAttempt(samples, x)
          /\ log' = LastN(Append(log, x), LogSize)
  /\ StartRefresh(r)
  /\ UNCHANGED <<alerts, sinceRaised, backlog, circuit>>

\* payment.queued, emitted before the job is added, and the broadcast timer
\* start a refresh.
Broadcast(r) ==
  /\ UNCHANGED <<samples, log, alerts, sinceRaised, backlog, circuit>>
  /\ StartRefresh(r)

\* collectQueueDepths reads the gateway's counts, and then those of the DLQ.
ReadDepths(r) ==
  /\ refresh[r] = "reading"
  /\ refresh' = [refresh EXCEPT ![r] = "read"]
  /\ high' = [high EXCEPT ![r] = @ \cup {id \in {"queue_depth_high"} : backlog}]
  /\ UNCHANGED <<samples, log, alerts, sinceRaised, backlog, circuit>>

\* The rest of refresh: every threshold is evaluated, alerts are cleared.
FinishRefresh(r) ==
  /\ refresh[r] = "read"
  /\ Notify(high[r])
  /\ alerts' = (alerts \cup high[r]) \ Cleared(r)
  /\ refresh' = [refresh EXCEPT ![r] = "idle"]
  /\ high' = [high EXCEPT ![r] = {}]
  /\ UNCHANGED <<samples, log, backlog, circuit>>

\* Redis fails and the refresh is given up.
FailRefresh(r) ==
  /\ refresh[r] # "idle"
  /\ refresh' = [refresh EXCEPT ![r] = "idle"]
  /\ high' = [high EXCEPT ![r] = {}]
  /\ UNCHANGED <<samples, log, alerts, sinceRaised, backlog, circuit>>

CircuitOpened ==
  /\ circuit' = TRUE
  /\ Notify({"circuit_open"})
  /\ alerts' = alerts \cup {"circuit_open"}
  /\ UNCHANGED <<samples, log, refresh, high, backlog>>

CircuitClosed ==
  /\ circuit' = FALSE
  /\ alerts' = alerts \ {"circuit_open"}
  /\ UNCHANGED <<samples, log, sinceRaised, refresh, high, backlog>>

\* Jobs are added to and taken from the gateway's queue.
DepthChanges ==
  /\ backlog' = ~backlog
  /\ UNCHANGED <<samples, log, alerts, sinceRaised, refresh, high, circuit>>

Aged(s) == [i \in DOMAIN s |-> [s[i] EXCEPT !.age = IF @ > Window THEN @ ELSE @ + 1]]

Tick ==
  /\ samples' = Aged(samples) /\ log' = Aged(log)
  /\ sinceRaised' = [id \in AlertIds |->
                       IF sinceRaised[id] < Cooldown THEN sinceRaised[id] + 1 ELSE Cooldown]
  /\ UNCHANGED <<alerts, refresh, high, backlog, circuit>>

Next ==
  \/ \E r \in Refreshes :
       JobCompleted(r) \/ Broadcast(r) \/ ReadDepths(r) \/ FinishRefresh(r) \/ FailRefresh(r)
  \/ CircuitOpened \/ CircuitClosed \/ DepthChanges \/ Tick

Spec == Init /\ [][Next]_vars

\* The timer goes on, and Redis does not fail for ever.
FairSpec ==
  /\ Spec
  /\ WF_vars(Tick)
  /\ SF_vars(\E r \in Refreshes : Broadcast(r))
  /\ \A r \in Refreshes : SF_vars(ReadDepths(r)) /\ SF_vars(FinishRefresh(r))

-----------------------------------------------------------------------------
Samples == [ok : BOOLEAN, durationMs : Nat, age : 0 .. Window + 1]

TypeOK ==
  /\ samples \in Seq(Samples) /\ Len(samples) <= MaxSamples
  /\ log \in Seq(Samples) /\ Len(log) <= LogSize
  /\ alerts \subseteq AlertIds /\ sinceRaised \in [AlertIds -> 0 .. Cooldown]
  /\ refresh \in [Refreshes -> {"idle", "reading", "read"}]
  /\ high \in [Refreshes -> SUBSET Thresholds]
  /\ backlog \in BOOLEAN /\ circuit \in BOOLEAN

\* The window misses nothing: whatever recordAttempt shifted and spliced away,
\* a snapshot sees the latest attempts of the last Window seconds, all of them
\* up to the cap. (LogSize is at least MaxSamples.)
WindowIsExact == InWindow(samples) = LastN(InWindow(log), MaxSamples)

\* percentile is the nearest-rank percentile: at least that share of the
\* durations is no larger, and less than that share is smaller.
PercentileIsNearestRank ==
  LET d == Durations(InWindow(samples))
  IN d # <<>> => \A percent \in {95, 99} :
       LET v == percentile(d, percent)
       IN /\ 100 * Cardinality({i \in DOMAIN d : d[i] <= v}) >= percent * Len(d)
          /\ 100 * Cardinality({i \in DOMAIN d : d[i] < v}) < percent * Len(d)

\* "circuit_open:* alerts stay active until a circuit.closed event", whatever
\* refreshes run meanwhile.
CircuitAlertIsExact == circuit <=> "circuit_open" \in alerts

Holds(id) == IF id = "queue_depth_high" THEN backlog ELSE id \in Exceeded

\* A condition that stays is alerted, and an alert whose condition is gone for
\* good is cleared, for ever: overlapping refreshes may get it wrong only for
\* a while.
AlertsConverge ==
  \A id \in Thresholds :
    /\ <>[]Holds(id) => <>[](id \in alerts)
    /\ <>[]~Holds(id) => <>[](id \notin alerts)

\* "re-notify so operators keep seeing the condition": an alert that stays is
\* notified again and again.
KeepsNotifying ==
  \A id \in Thresholds : []<>(Holds(id) => sinceRaised[id] = 0)

\* "Clear alerts whose condition vanished": an alert is cleared only when its
\* condition does not hold.
ClearedMeansVanished ==
  [][\A id \in alerts \ alerts' : id \in Thresholds => ~Holds(id)]_vars
=============================================================================
