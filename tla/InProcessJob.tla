---------------------------- MODULE InProcessJob ----------------------------
(***************************************************************************)
(* One InProcessJob of internal/scheduletooling, executed by several       *)
(* goroutines of the quartz scheduler at once: the latch on runningCount   *)
(* (job.go), the middleware that wraps the job function                    *)
(* (worker/middleware.go), its panic recovery and its metrics              *)
(* (worker/collector.go).  An execution goes through                       *)
(*                                                                         *)
(*   idle -> latched -> executing -> finishing -> unwinding -> idle        *)
(*                          \------- panic -------^                        *)
(*                                                                         *)
(* "finishing" is the deferred finished(err), which the middleware defers  *)
(* only after the job function has returned; "unwinding" is the rest of    *)
(* the deferred calls, up to the one of Execute that gives the slot back.  *)
(***************************************************************************)
EXTENDS Integers, FiniteSets

CONSTANTS
  Executors,        \* goroutines that call Execute
  MaxRunningCount,  \* maxRunningCount of the job
  MaxCalls          \* bound: Execute is not called after that many runs and skips

ASSUME MaxRunningCountAssumption == MaxRunningCount \in Nat \ {0}
ASSUME MaxCallsAssumption == MaxCalls \in Nat
ASSUME ExecutorsAssumption == IsFiniteSet(Executors)

VARIABLES
  pc,            \* where each executor is in Execute
  outcome,       \* the status of what the job function returned
  runningCount,  \* InProcessJob.runningCount, behind a mutex
  nonPositive,   \* reports of "running count is non-positive"
  runs,          \* cloud_background_job_runs
  skips,         \* cloud_background_job_skips
  inProgress,    \* cloud_background_jobs_in_progress
  status,        \* cloud_background_job_status
  panics         \* panics that handlePanic has recovered and reported

vars == <<pc, outcome, runningCount, nonPositive, runs, skips, inProgress,
          status, panics>>
metrics == <<runs, skips, inProgress, status, panics>>

\* The values of errToStatus.
Statuses == {"success", "timeout", "canceled", "unhandled"}

PCs == {"idle", "latched", "executing", "finishing", "unwinding"}

TypeOK ==
  /\ pc \in [Executors -> PCs]
  /\ outcome \in [Executors -> Statuses]
  /\ runningCount \in Nat
  /\ nonPositive \in Nat
  /\ runs \in Nat
  /\ skips \in Nat
  /\ inProgress \in Int
  /\ status \in [Statuses -> Nat]
  /\ panics \in Nat

Init ==
  /\ pc = [e \in Executors |-> "idle"]
  /\ outcome = [e \in Executors |-> "success"]
  /\ runningCount = 0
  /\ nonPositive = 0
  /\ runs = 0
  /\ skips = 0
  /\ inProgress = 0
  /\ status = [s \in Statuses |-> 0]
  /\ panics = 0

Goto(e, from, to) ==
  /\ pc[e] = from
  /\ pc' = [pc EXCEPT ![e] = to]

-----------------------------------------------------------------------------
\* Mutant: one execution too many passes the latch.
TakeLatchOffByOne(e) ==
  /\ runs + skips < MaxCalls
  /\ runningCount <= MaxRunningCount
  /\ Goto(e, "idle", "latched")
  /\ runningCount' = runningCount + 1
  /\ UNCHANGED <<outcome, nonPositive, metrics>>

(* Execute takes the latch: test and increment are one Update of Value,    *)
(* under its mutex.                                                        *)
TakeLatch(e) ==
  /\ runs + skips < MaxCalls
  /\ runningCount < MaxRunningCount
  /\ Goto(e, "idle", "latched")
  /\ runningCount' = runningCount + 1
  /\ UNCHANGED <<outcome, nonPositive, metrics>>

(* The latch is full: SkippedJob is counted and Execute returns an error.  *)
Skip(e) ==
  /\ runs + skips < MaxCalls
  /\ runningCount >= MaxRunningCount
  /\ pc[e] = "idle"
  /\ skips' = skips + 1
  /\ UNCHANGED <<pc, outcome, runningCount, nonPositive, runs, inProgress,
                 status, panics>>

(* Middleware.Execute calls JobStarted, then the job function.             *)
JobStarted(e) ==
  /\ Goto(e, "latched", "executing")
  /\ inProgress' = inProgress + 1
  /\ runs' = runs + 1
  /\ UNCHANGED <<outcome, runningCount, nonPositive, skips, status, panics>>

(* The job function returns nil or an error, which errToStatus classifies. *)
ExecReturns(e) ==
  /\ Goto(e, "executing", "finishing")
  /\ \E s \in Statuses : outcome' = [outcome EXCEPT ![e] = s]
  /\ UNCHANGED <<runningCount, nonPositive, metrics>>

\* Mutant: the panic goes past the call that gives the slot back.
ExecPanicsPastRelease(e) ==
  /\ Goto(e, "executing", "idle")
  /\ panics' = panics + 1
  /\ UNCHANGED <<outcome, runningCount, nonPositive, runs, skips, inProgress,
                 status>>

(* The job function panics.  finished has not been deferred yet, so the    *)
(* first deferred call that runs is handlePanic: it recovers and reports.  *)
ExecPanics(e) ==
  /\ Goto(e, "executing", "unwinding")
  /\ panics' = panics + 1
  /\ UNCHANGED <<outcome, runningCount, nonPositive, runs, skips, inProgress,
                 status>>

\* Mutant: the gauge is not decremented.
FinishedForgetsGauge(e) ==
  /\ Goto(e, "finishing", "unwinding")
  /\ status' = [status EXCEPT ![outcome[e]] = @ + 1]
  /\ UNCHANGED <<outcome, runningCount, nonPositive, runs, skips, inProgress,
                 panics>>

(* The deferred finished(err).                                             *)
Finished(e) ==
  /\ Goto(e, "finishing", "unwinding")
  /\ status' = [status EXCEPT ![outcome[e]] = @ + 1]
  /\ inProgress' = inProgress - 1
  /\ UNCHANGED <<outcome, runningCount, nonPositive, runs, skips, panics>>

(* The deferred call of Execute gives the slot back.                       *)
Release(e) ==
  /\ Goto(e, "unwinding", "idle")
  /\ IF runningCount <= 0
     THEN runningCount' = 0 /\ nonPositive' = nonPositive + 1
     ELSE runningCount' = runningCount - 1 /\ UNCHANGED nonPositive
  /\ UNCHANGED <<outcome, metrics>>

Step(e) ==
  \/ TakeLatch(e)
  \/ Skip(e)
  \/ JobStarted(e)
  \/ ExecReturns(e)
  \/ ExecPanics(e)
  \/ Finished(e)
  \/ Release(e)

Next == \E e \in Executors : Step(e)

Spec == Init /\ [][Next]_vars

-----------------------------------------------------------------------------
Holders == {e \in Executors : pc[e] # "idle"}
Executing == {e \in Executors : pc[e] = "executing"}
\* Between JobStarted and the end of the deferred finished(err).
Counted == {e \in Executors : pc[e] \in {"executing", "finishing"}}

\* job.go, Execute: the counter is exactly the number of executions between
\* the two updates, also when the job function panicked in between.
LatchCountsHolders == runningCount = Cardinality(Holders)

\* job_test.go, TestMultipleExecution ("only one job should run"): at no time
\* do more executions run the job function than the latch has slots.
AtMostMaxExecuting == Cardinality(Executing) <= MaxRunningCount

\* job.go:89 ("this should never happen"): the deferred decrement never finds
\* the counter at zero.
NeverNonPositive == nonPositive = 0

\* job.go, Execute: an execution is skipped only while every slot is held by
\* an execution that is not over, so the counter that the latch tests is never
\* above the executions there are: neither an error nor a panic between its
\* two updates uses up a slot.
SkippedOnlyWhenFull ==
  [][skips' # skips => Cardinality(Holders) = MaxRunningCount]_vars

\* collector.go: the gauge never reads less than the number of executions that
\* are in progress, and as long as no job function has panicked it is that
\* number, and every run that was started is in progress or has one status.
MetricsBalance ==
  /\ inProgress >= Cardinality(Counted)
  /\ panics = 0 =>
       /\ inProgress = Cardinality(Counted)
       /\ runs = Cardinality(Counted) + status["success"] + status["timeout"]
                 + status["canceled"] + status["unhandled"]

\* worker/metrics.go:45 ("Number of in progress background jobs"): the gauge
\* shows no more jobs in progress than there are executions that have not
\* given their slot back.  It does not hold: see the findings.
GaugeIsInProgress == inProgress <= Cardinality(Holders)

Slots == INSTANCE JobSlots WITH holders <- Holders

\* The counter behind a mutex implements the set of slots of JobSlots.
ImplementsSlots == Slots!Spec
=============================================================================
