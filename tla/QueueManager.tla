---------------------------- MODULE QueueManager ----------------------------
(***************************************************************************)
(* The QueueManager's runtime of one gateway: its lazy provisioning, the   *)
(* worker pool that concurrent calls scale, pausing, and the shutdown. A   *)
(* call is an enqueue, a pause, a resume or a setWorkerPoolSize for the    *)
(* gateway. A runtime is named after the call that provisioned it; all     *)
(* runtimes of a gateway share one BullMQ queue.                           *)
(***************************************************************************)
EXTENDS Integers, FiniteSets, Sequences, SequencesExt

CONSTANTS
  Calls,
  Workers,    \* BullMQ workers; an element is used again once it is closed
  None,       \* no runtime, or no worker
  PoolSize,   \* config.queue.workerPoolSize
  Sizes,      \* the sizes setWorkerPoolSize is called with
  ColdStart   \* calls may overlap while the gateway is not provisioned yet

ASSUME PoolAssumption ==
  /\ None \notin Calls \cup Workers
  /\ PoolSize \in Nat /\ Sizes \subseteq Int
  /\ ColdStart \in BOOLEAN

VARIABLES
  phase,       \* up, closing (onApplicationShutdown runs) or down
  registered,  \* the gateway's entry of the runtimes map
  pool,        \* runtime.workers of each runtime
  worker,      \* what each worker is doing
  closing,     \* workers whose close was called
  call,        \* where each call is
  op,          \* what each call is for
  runtime,     \* the runtime each call works on
  stage,       \* whose scaleWorkers each call is in: ensureGateway's or its own
  target,      \* the target of that scaleWorkers
  held,        \* the worker each call waits for, to be ready or to be closed
  jobs,        \* jobs waiting in the queue
  paused,      \* the queue is paused
  dropped,     \* jobs whose worker was closed by force
  asked        \* history: the targets scaleWorkers was called with

callVars == <<call, op, runtime, stage, target, held>>
vars == <<phase, registered, pool, worker, closing, callVars, jobs, paused, dropped, asked>>

CallState == {"idle", "provision", "starting", "stopping", "apply", "done"}
Kinds == {"enqueue", "pause", "resume", "resize"}
WorkerState == {"closed", "free", "busy"}
Live == {w \in Workers : worker[w] # "closed"}

Init ==
  /\ phase = "up" /\ registered = None
  /\ pool = [c \in Calls |-> <<>>]
  /\ worker = [w \in Workers |-> "closed"] /\ closing = {}
  /\ call = [c \in Calls |-> "idle"]
  /\ op = [c \in Calls |-> [kind |-> "enqueue", size |-> 0]]
  /\ runtime = [c \in Calls |-> None]
  /\ stage = [c \in Calls |-> "ensure"]
  /\ target = [c \in Calls |-> 0]
  /\ held = [c \in Calls |-> None]
  /\ jobs = 0 /\ paused = FALSE /\ dropped = 0
  /\ asked = [c \in Calls |-> {}]

-----------------------------------------------------------------------------
(* scaleWorkers by call c on runtime r, whose workers array is p by now,   *)
(* up to its next await. n is the target, next what follows when it ends.  *)

Become(c, state, w) ==
  /\ call' = [call EXCEPT ![c] = state]
  /\ held' = [held EXCEPT ![c] = w]

\* Mutant: the pool is never shrunk.
ScaleUpOnly(c, r, p, n, next, nowClosing) ==
  /\ Become(c, next, None)
  /\ pool' = [pool EXCEPT ![r] = p]
  /\ closing' = nowClosing

\* The second loop pops a worker and waits for its close.
ScaleDown(c, r, p, n, next, nowClosing) ==
  \/ /\ Len(p) > n /\ p # <<>>
     /\ Become(c, "stopping", Last(p))
     /\ pool' = [pool EXCEPT ![r] = Front(p)]
     /\ closing' = nowClosing \cup {Last(p)}
  \/ /\ Len(p) <= n
     /\ Become(c, next, None)
     /\ pool' = [pool EXCEPT ![r] = p]
     /\ closing' = nowClosing

\* The first loop creates a worker and waits until it is ready.
ScaleUp(c, r, p, n, next) ==
  \/ /\ Len(p) < n
     /\ \E w \in Workers \ Live :
          /\ worker' = [worker EXCEPT ![w] = "free"]
          /\ Become(c, "starting", w)
     /\ pool' = [pool EXCEPT ![r] = p]
     /\ UNCHANGED closing
  \/ /\ Len(p) >= n
     /\ ScaleDown(c, r, p, n, next, closing)
     /\ UNCHANGED worker

\* What follows scaleWorkers: the operation itself, or the end of the resize.
After(c) == IF stage[c] = "ensure" THEN "apply" ELSE "done"

NotScaling == <<phase, registered, op, runtime, stage, target, jobs, paused, dropped, asked>>

\* Mutant: the new worker is not remembered.
WorkerReadyUnpushed(c) ==
  /\ call[c] = "starting"
  /\ ScaleUp(c, runtime[c], pool[runtime[c]], target[c], After(c))
  /\ UNCHANGED NotScaling

\* waitUntilReady resolved: the worker is pushed and the first loop goes on.
WorkerReady(c) ==
  /\ call[c] = "starting"
  /\ ScaleUp(c, runtime[c], Append(pool[runtime[c]], held[c]), target[c], After(c))
  /\ UNCHANGED NotScaling

\* close resolved, after the worker's job: the second loop goes on.
WorkerStopped(c) ==
  /\ call[c] = "stopping"
  /\ worker[held[c]] = "free"
  /\ worker' = [worker EXCEPT ![held[c]] = "closed"]
  /\ ScaleDown(c, runtime[c], pool[runtime[c]], target[c], After(c), closing \ {held[c]})
  /\ UNCHANGED NotScaling

-----------------------------------------------------------------------------
(* The calls.                                                              *)

\* Mutant: setWorkerPoolSize takes any size.
AnySize(o) == TRUE

\* setWorkerPoolSize throws unless its size is a non-negative integer.
Accepted(o) == o.kind = "resize" => o.size >= 0

\* ensureGateway returns the registered runtime, or opens a queue of its own.
BeginCall(c, o) ==
  /\ phase = "up" /\ call[c] = "idle" /\ Accepted(o)
  /\ ColdStart \/ registered # None \/ \A d \in Calls : call[d] # "provision"
  /\ call' = [call EXCEPT ![c] = IF registered = None THEN "provision" ELSE "apply"]
  /\ op' = [op EXCEPT ![c] = o]
  /\ runtime' = [runtime EXCEPT ![c] = registered]
  /\ UNCHANGED <<phase, registered, pool, worker, closing, stage, target, held,
                 jobs, paused, dropped, asked>>

\* The queue is ready: the runtime is put into the map, over whatever is there
\* by now, and its pool is filled.
Provision(c) ==
  /\ call[c] = "provision"
  /\ registered' = c
  /\ runtime' = [runtime EXCEPT ![c] = c]
  /\ target' = [target EXCEPT ![c] = PoolSize]
  /\ asked' = [asked EXCEPT ![c] = @ \cup {PoolSize}]
  /\ ScaleUp(c, c, <<>>, PoolSize, "apply")
  /\ UNCHANGED <<phase, op, stage, jobs, paused, dropped>>

\* queue.add, queue.pause or queue.resume.
ApplyToQueue(c) ==
  /\ call[c] = "apply" /\ op[c].kind # "resize"
  /\ call' = [call EXCEPT ![c] = "done"]
  /\ jobs' = IF op[c].kind = "enqueue" THEN jobs + 1 ELSE jobs
  /\ paused' = CASE op[c].kind = "pause" -> TRUE
                 [] op[c].kind = "resume" -> FALSE
                 [] OTHER -> paused
  /\ UNCHANGED <<phase, registered, pool, worker, closing, op, runtime, stage, target,
                 held, dropped, asked>>

SetWorkerPoolSize(c) ==
  /\ call[c] = "apply" /\ op[c].kind = "resize"
  /\ stage' = [stage EXCEPT ![c] = "resize"]
  /\ target' = [target EXCEPT ![c] = op[c].size]
  /\ asked' = [asked EXCEPT ![runtime[c]] = @ \cup {op[c].size}]
  /\ ScaleUp(c, runtime[c], pool[runtime[c]], op[c].size, "done")
  /\ UNCHANGED <<phase, registered, op, runtime, jobs, paused, dropped>>

-----------------------------------------------------------------------------
(* The workers and the shutdown.                                           *)

NotWorkers == <<registered, pool, callVars, asked>>

TakeJob(w) ==
  /\ phase # "down" /\ worker[w] = "free" /\ w \notin closing
  /\ jobs > 0 /\ ~paused
  /\ worker' = [worker EXCEPT ![w] = "busy"]
  /\ jobs' = jobs - 1
  /\ UNCHANGED <<NotWorkers, phase, closing, paused, dropped>>

FinishJob(w) ==
  /\ phase # "down" /\ worker[w] = "busy"
  /\ worker' = [worker EXCEPT ![w] = "free"]
  /\ UNCHANGED <<NotWorkers, phase, closing, jobs, paused, dropped>>

\* The workers that onApplicationShutdown finds in the map.
Registered == IF registered = None THEN {} ELSE ToSet(pool[registered])

\* Nest has answered every request before it calls onApplicationShutdown, which
\* closes all workers at once.
Shutdown ==
  /\ phase = "up" /\ \A c \in Calls : call[c] \in {"idle", "done"}
  /\ phase' = "closing"
  /\ closing' = closing \cup Registered
  /\ UNCHANGED <<NotWorkers, worker, jobs, paused, dropped>>

\* A graceful close ends with the worker's job.
CloseWorker(w) ==
  /\ phase = "closing" /\ w \in closing /\ worker[w] = "free"
  /\ worker' = [worker EXCEPT ![w] = "closed"]
  /\ closing' = closing \ {w}
  /\ UNCHANGED <<NotWorkers, phase, jobs, paused, dropped>>

\* Mutant: there is no grace period.
NeverForce(w) == FALSE /\ UNCHANGED vars

\* After graceMs the worker is closed by force, its job left behind.
ForceClose(w) ==
  /\ phase = "closing" /\ w \in closing /\ worker[w] = "busy"
  /\ worker' = [worker EXCEPT ![w] = "closed"]
  /\ closing' = closing \ {w}
  /\ dropped' = dropped + 1
  /\ UNCHANGED <<NotWorkers, phase, jobs, paused>>

\* Mutant: the shutdown does not wait for the workers.
DownAtOnce ==
  /\ phase = "closing"
  /\ phase' = "down"
  /\ UNCHANGED <<NotWorkers, worker, closing, jobs, paused, dropped>>

\* Every close has settled: the clients are disconnected and the process exits.
Down ==
  /\ phase = "closing" /\ closing = {}
  /\ phase' = "down"
  /\ UNCHANGED <<NotWorkers, worker, closing, jobs, paused, dropped>>

Stopped == phase = "down" /\ UNCHANGED vars

Ops == {[kind |-> k, size |-> 0] : k \in Kinds \ {"resize"}}
       \cup {[kind |-> "resize", size |-> n] : n \in Sizes}

Next ==
  \/ \E c \in Calls :
       \/ \E o \in Ops : BeginCall(c, o)
       \/ Provision(c) \/ ApplyToQueue(c) \/ SetWorkerPoolSize(c)
       \/ WorkerReady(c) \/ WorkerStopped(c)
  \/ \E w \in Workers : TakeJob(w) \/ FinishJob(w) \/ CloseWorker(w) \/ ForceClose(w)
  \/ Shutdown \/ Down \/ Stopped

Spec == Init /\ [][Next]_vars

\* The shutdown's own steps are taken; a job may take for ever.
FairSpec ==
  /\ Spec
  /\ WF_vars(Down)
  /\ \A w \in Workers : WF_vars(CloseWorker(w) \/ ForceClose(w))

-----------------------------------------------------------------------------
TypeOK ==
  /\ phase \in {"up", "closing", "down"}
  /\ registered \in Calls \cup {None}
  /\ pool \in [Calls -> Seq(Workers)]
  /\ worker \in [Workers -> WorkerState] /\ closing \subseteq Workers
  /\ call \in [Calls -> CallState] /\ op \in [Calls -> Ops]
  /\ runtime \in [Calls -> Calls \cup {None}]
  /\ stage \in [Calls -> {"ensure", "resize"}]
  /\ target \in [Calls -> Nat]
  /\ held \in [Calls -> Workers \cup {None}]
  /\ jobs \in Nat /\ paused \in BOOLEAN /\ dropped \in Nat

Users(w) == {c \in Calls : w \in ToSet(pool[c])}
Holders(w) == {c \in Calls : held[c] = w}

\* However calls interleave in scaleWorkers, no worker is lost or handled
\* twice: while the application is up, a worker with an open connection is in
\* exactly one pool, once, or in the hands of exactly one call.
WorkersAccounted ==
  phase = "up" => \A w \in Workers :
    Cardinality(Users(w)) + Cardinality(Holders(w)) = IF w \in Live THEN 1 ELSE 0

\* When all scaling of a runtime is over, its pool has a size that somebody
\* asked for: overshooting calls trim what they added.
PoolIsAsked ==
  \A r \in Calls :
    (asked[r] # {} /\ \A c \in Calls : runtime[c] = r => call[c] \notin {"starting", "stopping"})
      => Len(pool[r]) \in asked[r]

\* "close() on all queues and active workers on SIGTERM without dropping jobs":
\* when the process exits no worker is left, let alone one inside a job.
ShutdownDrains == phase = "down" => Live = {}

\* "so a wedged job cannot hang application shutdown forever".
ShutdownEnds == phase = "closing" ~> phase = "down"
=============================================================================
