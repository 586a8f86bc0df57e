----------------------------- MODULE Scheduler ------------------------------
(***************************************************************************)
(* scheduletooling.Scheduler: the wrapper around a quartz scheduler that   *)
(* starts jobs, follows their live configuration and closes them at        *)
(* shutdown.  Four parties run concurrently:                               *)
(*                                                                         *)
(*   - the caller of Add, Start, Stop and Wait;                            *)
(*   - the rescheduler goroutine of update.go, on a timer;                 *)
(*   - the execution loop of quartz, which fires queued jobs;              *)
(*   - the goroutines quartz spawns, one per fired execution.              *)
(*                                                                         *)
(* jobsMutex excludes Start's scheduling, a rescheduler tick and the part  *)
(* of Wait that collects the jobs to close.  quartz has a lock of its own, *)
(* taken by each of its calls: the loop may fire between any two of them.  *)
(* The latch of a job is the abstraction that InProcessJob implements.     *)
(***************************************************************************)
EXTENDS Integers, FiniteSets

CONSTANTS
  Jobs,              \* the jobs the application constructs
  Schedulable,       \* those whose key quartz accepts (a non-empty name)
  Configs,           \* configurations the live source can hold
  NoCron,            \* the empty CronExpression
  BadCrons,          \* cron expressions that do not parse
  BuiltTriggers,     \* triggers of the configurations given at construction
  MaxRunningCount,   \* maxRunningCount of every job
  MaxInFlight,       \* bound: fired executions not over yet, per job
  MaxConfigChanges,  \* bound: changes of the live configuration
  Unreadable         \* getFreshConfig returns an error

ASSUME SchedulableAssumption == Schedulable \subseteq Jobs
ASSUME ConfigsAssumption ==
  \A c \in Configs : c.enabled \in BOOLEAN /\ c.interval \in Nat
ASSUME BoundsAssumption ==
  /\ MaxRunningCount \in Nat \ {0}
  /\ MaxInFlight \in Nat
  /\ MaxConfigChanges \in Nat

VARIABLES
  fresh,        \* what getFreshConfig of each job would return now
  changes,      \* number of configuration changes so far
  collected,    \* collectedJobsToSchedule
  jobs,         \* keys of s.jobs
  startPC,      \* progress of Start: "new", "started", "scheduling", "done"
  mutex,        \* holder of jobsMutex: "none", "start" or "tick"
  todo,         \* jobs the holder's loop has not visited yet
  rescheduler,  \* the goroutine of updateSchedules: "off", "on" or "gone"
  known,        \* keys of oldConfigs
  old,          \* oldConfigs (meaningful on known)
  trigger,      \* InProcessJob.trigger
  queue,        \* jobs in the queue of quartz
  loop,         \* execution loop of quartz: "off", "on", "stopping", "gone"
  fired,        \* executions spawned, not at the latch yet, per job
  running,      \* executions that hold a slot of the latch, per job
  startCtx,     \* the context given to Start: "live" or "done"
  waitCtx,      \* the context given to Wait: "live" or "done"
  waitPC,       \* progress of Stop and Wait
  drain,        \* how quartz.Wait returned: "pending", "clean", "abandoned"
  closing,      \* jobs whose Close is running
  closed        \* jobs whose Close has returned

cfgVars == <<fresh, changes>>
startVars == <<collected, jobs, startPC>>
tickVars == <<rescheduler, known, old, trigger>>
execVars == <<fired, running>>
stopVars == <<startCtx, waitCtx, waitPC, drain, closing, closed>>
vars == <<cfgVars, startVars, mutex, todo, tickVars, queue, loop, execVars,
          stopVars>>

-----------------------------------------------------------------------------
(* Configuration (cfg.go).                                                 *)

ZeroConfig == [enabled |-> FALSE, interval |-> 0, cron |-> NoCron]

Valid(c) ==
  /\ c.enabled => (c.interval # 0 \/ c.cron # NoCron)
  /\ c.cron \notin BadCrons

\* GetTriggerValidated: a cron expression has precedence over the interval.
TriggerOf(c) ==
  IF c.cron # NoCron THEN <<"cron", c.cron>> ELSE <<"simple", c.interval>>

Readable(j) == fresh[j] # Unreadable /\ Valid(fresh[j])

\* GetConfig returns Config{} along with every error.
GetConfig(j) == IF Readable(j) THEN fresh[j] ELSE ZeroConfig

Triggers ==
  BuiltTriggers \cup {TriggerOf(c) : c \in Configs \cup {ZeroConfig}}

-----------------------------------------------------------------------------
TypeOK ==
  /\ fresh \in [Jobs -> Configs \cup {Unreadable}]
  /\ changes \in 0..MaxConfigChanges
  /\ collected \subseteq Jobs
  /\ jobs \subseteq Jobs
  /\ startPC \in {"new", "started", "scheduling", "done"}
  /\ mutex \in {"none", "start", "tick"}
  /\ todo \subseteq Jobs
  /\ rescheduler \in {"off", "on", "gone"}
  /\ known \subseteq Jobs
  /\ old \in [Jobs -> Configs \cup {ZeroConfig}]
  /\ trigger \in [Jobs -> Triggers]
  /\ queue \subseteq Jobs
  /\ loop \in {"off", "on", "stopping", "gone"}
  /\ fired \in [Jobs -> Nat]
  /\ running \in [Jobs -> Nat]
  /\ startCtx \in {"live", "done"}
  /\ waitCtx \in {"live", "done"}
  /\ waitPC \in {"idle", "draining", "locking", "closing", "returned"}
  /\ drain \in {"pending", "clean", "abandoned"}
  /\ closing \subseteq Jobs
  /\ closed \subseteq Jobs

Init ==
  /\ fresh \in [Jobs -> Configs \cup {Unreadable}]
  /\ changes = 0
  /\ collected = {}
  /\ jobs = {}
  /\ startPC = "new"
  /\ mutex = "none"
  /\ todo = {}
  /\ rescheduler = "off"
  /\ known = {}
  /\ old = [j \in Jobs |-> ZeroConfig]
  /\ trigger \in [Jobs -> BuiltTriggers]
  /\ queue = {}
  /\ loop = "off"
  /\ fired = [j \in Jobs |-> 0]
  /\ running = [j \in Jobs |-> 0]
  /\ startCtx = "live"
  /\ waitCtx = "live"
  /\ waitPC = "idle"
  /\ drain = "pending"
  /\ closing = {}
  /\ closed = {}

\* The live configuration of a job changes, or becomes (un)readable.
ChangeConfig(j) ==
  /\ changes < MaxConfigChanges
  /\ \E c \in (Configs \cup {Unreadable}) \ {fresh[j]} :
       fresh' = [fresh EXCEPT ![j] = c]
  /\ changes' = changes + 1
  /\ UNCHANGED <<startVars, mutex, todo, tickVars, queue, loop, execVars,
                 stopVars>>

-----------------------------------------------------------------------------
(* Add and Start.                                                          *)

\* Add refuses a running scheduler and an unreadable configuration, and
\* ignores a job that is disabled at this moment.
Add(j) ==
  /\ startPC = "new"
  /\ Readable(j)
  /\ fresh[j].enabled
  /\ j \notin collected
  /\ collected' = collected \cup {j}
  /\ UNCHANGED <<cfgVars, jobs, startPC, mutex, todo, tickVars, queue, loop,
                 execVars, stopVars>>

\* Start: isRunning is set, updateSchedules remembers the configuration of
\* every job of s.jobs (there is none yet), the rescheduler goroutine and
\* then the loop of quartz are started.
Start ==
  /\ startPC = "new"
  /\ startPC' = "started"
  /\ rescheduler' = "on"
  /\ loop' = "on"
  /\ UNCHANGED <<cfgVars, collected, jobs, mutex, todo, known, old, trigger,
                 queue, execVars, stopVars>>

\* scheduleCollectedJobs, a step for the lock and one per job.
StartLock ==
  /\ startPC = "started"
  /\ mutex = "none"
  /\ mutex' = "start"
  /\ startPC' = "scheduling"
  /\ todo' = collected
  /\ UNCHANGED <<cfgVars, collected, jobs, tickVars, queue, loop, execVars,
                 stopVars>>

\* DeleteJob followed by ScheduleJob: the job is queued at its next fire
\* time, unless quartz refuses its key, which is only logged.
ScheduleSilently(j) ==
  queue' = (queue \ {j}) \cup ({j} \cap Schedulable)

StopScheduling(j) == queue' = queue \ {j}

StartJob(j) ==
  /\ startPC = "scheduling"
  /\ j \in todo
  /\ todo' = todo \ {j}
  /\ jobs' = jobs \cup {j}
  /\ ScheduleSilently(j)
  /\ UNCHANGED <<cfgVars, collected, startPC, mutex, tickVars, loop, execVars,
                 stopVars>>

StartUnlock ==
  /\ startPC = "scheduling"
  /\ todo = {}
  /\ mutex' = "none"
  /\ startPC' = "done"
  /\ UNCHANGED <<cfgVars, collected, jobs, todo, tickVars, queue, loop,
                 execVars, stopVars>>

-----------------------------------------------------------------------------
(* The rescheduler (update.go).                                            *)

\* Mutant: the timer is not reset once every job has been seen.
TickBeginOneShot ==
  /\ rescheduler = "on"
  /\ mutex = "none"
  /\ known = jobs => jobs = {}
  /\ mutex' = "tick"
  /\ todo' = jobs
  /\ UNCHANGED <<cfgVars, startVars, tickVars, queue, loop, execVars,
                 stopVars>>

\* The timer fires: the tick takes jobsMutex and visits every job.  When the
\* context is done as well, select may still choose the timer.
TickBegin ==
  /\ rescheduler = "on"
  /\ mutex = "none"
  /\ mutex' = "tick"
  /\ todo' = jobs
  /\ UNCHANGED <<cfgVars, startVars, tickVars, queue, loop, execVars,
                 stopVars>>

Remember(j) ==
  /\ mutex = "tick"
  /\ j \in todo
  /\ todo' = todo \ {j}
  /\ known' = known \cup {j}
  /\ old' = [old EXCEPT ![j] = GetConfig(j)]
  /\ UNCHANGED <<cfgVars, startVars, mutex, rescheduler, loop, execVars,
                 stopVars>>

TurnOnOrOff(j) ==
  IF GetConfig(j).enabled THEN ScheduleSilently(j) ELSE StopScheduling(j)

\* A job seen for the first time gets all its settings.
TickFirst(j) ==
  /\ Remember(j)
  /\ j \notin known
  /\ trigger' = [trigger EXCEPT ![j] = TriggerOf(GetConfig(j))]
  /\ TurnOnOrOff(j)

\* Mutant: the new setting is remembered but not passed to quartz.
TickToggledOnlyRemembers(j) ==
  /\ Remember(j)
  /\ j \in known
  /\ old[j].enabled # GetConfig(j).enabled
  /\ UNCHANGED <<trigger, queue>>

\* The job was turned on or off: the trigger is left as it is.
TickToggled(j) ==
  /\ Remember(j)
  /\ j \in known
  /\ old[j].enabled # GetConfig(j).enabled
  /\ TurnOnOrOff(j)
  /\ UNCHANGED trigger

\* The interval changed: it applies when quartz next asks for a fire time.
TickInterval(j) ==
  /\ Remember(j)
  /\ j \in known
  /\ old[j].enabled = GetConfig(j).enabled
  /\ old[j].interval # GetConfig(j).interval
  /\ trigger' = [trigger EXCEPT ![j] = TriggerOf(GetConfig(j))]
  /\ UNCHANGED queue

\* Nothing changed, or only what is not supported (the cron expression).
TickIgnored(j) ==
  /\ Remember(j)
  /\ j \in known
  /\ old[j].enabled = GetConfig(j).enabled
  /\ old[j].interval = GetConfig(j).interval
  /\ UNCHANGED <<trigger, queue>>

TickJob(j) ==
  TickFirst(j) \/ TickToggled(j) \/ TickInterval(j) \/ TickIgnored(j)

TickEnd ==
  /\ mutex = "tick"
  /\ todo = {}
  /\ mutex' = "none"
  /\ UNCHANGED <<cfgVars, startVars, todo, tickVars, queue, loop, execVars,
                 stopVars>>

\* The context of Start is done: between two ticks the goroutine returns.
ReschedulerReturns ==
  /\ rescheduler = "on"
  /\ startCtx = "done"
  /\ mutex # "tick"
  /\ rescheduler' = "gone"
  /\ UNCHANGED <<cfgVars, startVars, mutex, todo, known, old, trigger, queue,
                 loop, execVars, stopVars>>

-----------------------------------------------------------------------------
(* quartz (external) and the executions it spawns.                         *)

\* The loop pops a due job, queues it again at its next fire time and runs
\* it in a goroutine of its own.  After Stop the loop may still choose a
\* timer that has expired.
Fire(j) ==
  /\ loop \in {"on", "stopping"}
  /\ j \in queue
  /\ fired[j] + running[j] < MaxInFlight
  /\ fired' = [fired EXCEPT ![j] = @ + 1]
  /\ UNCHANGED <<cfgVars, startVars, mutex, todo, tickVars, queue, loop,
                 running, stopVars>>

\* The loop sees its context done: Stop or the context of Start.
LoopReturns ==
  /\ \/ loop = "stopping"
     \/ loop = "on" /\ startCtx = "done"
  /\ loop' = "gone"
  /\ UNCHANGED <<cfgVars, startVars, mutex, todo, tickVars, queue, execVars,
                 stopVars>>

\* Execute takes a slot of the latch.
ExecuteBegin(j) ==
  /\ fired[j] > 0
  /\ running[j] < MaxRunningCount
  /\ fired' = [fired EXCEPT ![j] = @ - 1]
  /\ running' = [running EXCEPT ![j] = @ + 1]
  /\ UNCHANGED <<cfgVars, startVars, mutex, todo, tickVars, queue, loop,
                 stopVars>>

\* Execute finds the latch full and returns.
ExecuteSkip(j) ==
  /\ fired[j] > 0
  /\ running[j] >= MaxRunningCount
  /\ fired' = [fired EXCEPT ![j] = @ - 1]
  /\ UNCHANGED <<cfgVars, startVars, mutex, todo, tickVars, queue, loop,
                 running, stopVars>>

\* The job function returned or panicked and the slot is given back.
ExecuteEnd(j) ==
  /\ running[j] > 0
  /\ running' = [running EXCEPT ![j] = @ - 1]
  /\ UNCHANGED <<cfgVars, startVars, mutex, todo, tickVars, queue, loop,
                 fired, stopVars>>

-----------------------------------------------------------------------------
(* Shutdown: the application calls Stop, then Wait, once Start is over.    *)

CancelStartCtx ==
  /\ startCtx = "live"
  /\ startPC # "new"
  /\ startCtx' = "done"
  /\ UNCHANGED <<cfgVars, startVars, mutex, todo, tickVars, queue, loop,
                 execVars, waitCtx, waitPC, drain, closing, closed>>

Stop ==
  /\ startPC = "done"
  /\ waitPC = "idle"
  /\ waitPC' = "draining"
  /\ loop' = IF loop = "on" THEN "stopping" ELSE loop
  /\ UNCHANGED <<cfgVars, startVars, mutex, todo, tickVars, queue, execVars,
                 startCtx, waitCtx, drain, closing, closed>>

\* The time limit of the shutdown.
WaitTimesOut ==
  /\ waitPC \in {"draining", "locking", "closing"}
  /\ waitCtx = "live"
  /\ waitCtx' = "done"
  /\ UNCHANGED <<cfgVars, startVars, mutex, todo, tickVars, queue, loop,
                 execVars, startCtx, waitPC, drain, closing, closed>>

NothingInFlight == \A j \in Jobs : fired[j] = 0 /\ running[j] = 0

\* quartz.Wait: the loop and all the executions are over, or the time is up.
WaitDrained ==
  /\ waitPC = "draining"
  /\ waitPC' = "locking"
  /\ \/ loop = "gone" /\ NothingInFlight /\ drain' = "clean"
     \/ waitCtx = "done" /\ drain' = "abandoned"
  /\ UNCHANGED <<cfgVars, startVars, mutex, todo, tickVars, queue, loop,
                 execVars, startCtx, waitCtx, closing, closed>>

\* Mutant: quartz is not waited for before the jobs are closed.
WaitClosesAtOnce ==
  /\ waitPC \in {"draining", "locking"}
  /\ mutex = "none"
  /\ waitPC' = "closing"
  /\ closing' = jobs
  /\ UNCHANGED <<cfgVars, startVars, mutex, todo, tickVars, queue, loop,
                 execVars, startCtx, waitCtx, drain, closed>>

\* A goroutine that calls Close is started for every job, under jobsMutex.
WaitCloses ==
  /\ waitPC = "locking"
  /\ mutex = "none"
  /\ waitPC' = "closing"
  /\ closing' = jobs
  /\ UNCHANGED <<cfgVars, startVars, mutex, todo, tickVars, queue, loop,
                 execVars, startCtx, waitCtx, drain, closed>>

CloseReturns(j) ==
  /\ j \in closing
  /\ closing' = closing \ {j}
  /\ closed' = closed \cup {j}
  /\ UNCHANGED <<cfgVars, startVars, mutex, todo, tickVars, queue, loop,
                 execVars, startCtx, waitCtx, waitPC, drain>>

\* Mutant: the time limit does not apply to closing.
WaitReturnsClosed ==
  /\ waitPC = "closing"
  /\ closing = {}
  /\ waitPC' = "returned"
  /\ UNCHANGED <<cfgVars, startVars, mutex, todo, tickVars, queue, loop,
                 execVars, startCtx, waitCtx, drain, closing, closed>>

WaitReturns ==
  /\ waitPC = "closing"
  /\ closing = {} \/ waitCtx = "done"
  /\ waitPC' = "returned"
  /\ UNCHANGED <<cfgVars, startVars, mutex, todo, tickVars, queue, loop,
                 execVars, startCtx, waitCtx, drain, closing, closed>>

-----------------------------------------------------------------------------
JobStep(j) ==
  \/ ChangeConfig(j)
  \/ Add(j)
  \/ StartJob(j)
  \/ TickJob(j)
  \/ Fire(j)
  \/ ExecuteBegin(j)
  \/ ExecuteSkip(j)
  \/ ExecuteEnd(j)
  \/ CloseReturns(j)

Next ==
  \/ \E j \in Jobs : JobStep(j)
  \/ Start
  \/ StartLock
  \/ StartUnlock
  \/ TickBegin
  \/ TickEnd
  \/ ReschedulerReturns
  \/ LoopReturns
  \/ CancelStartCtx
  \/ Stop
  \/ WaitTimesOut
  \/ WaitDrained
  \/ WaitCloses
  \/ WaitReturns

\* Goroutines that can run are run, timers expire, and sync.Mutex lets no
\* waiter starve (strong fairness of the steps that compete with the ticks).
\* getFreshConfig is assumed to return, with a configuration or an error.
\* Nothing is assumed about the job functions, their Close, or about the
\* caller ever stopping the scheduler.
Fairness ==
  /\ SF_vars(StartLock) /\ WF_vars(StartUnlock)
  /\ WF_vars(TickBegin) /\ WF_vars(TickEnd)
  /\ WF_vars(LoopReturns)
  /\ WF_vars(WaitTimesOut) /\ WF_vars(WaitDrained)
  /\ SF_vars(WaitCloses) /\ WF_vars(WaitReturns)
  /\ \A j \in Jobs : WF_vars(StartJob(j)) /\ WF_vars(TickJob(j))

Spec == Init /\ [][Next]_vars

FairSpec == Spec /\ Fairness

-----------------------------------------------------------------------------
(* Properties.                                                             *)

\* update.go: what quartz has in its queue follows the configuration the
\* rescheduler last saw, for every job it has seen, at any point of a tick:
\* enabled jobs are scheduled, disabled ones are not.
QueueFollowsSeenConfig ==
  \A j \in known \cap Schedulable : j \in queue <=> old[j].enabled

\* update.go: the rescheduler looks only at jobs Start has registered, and
\* nothing else is ever fired: a job that Add ignored never runs.
OnlyRegisteredJobsRun ==
  /\ known \cup queue \subseteq jobs
  /\ jobs \subseteq collected
  /\ \A j \in Jobs \ jobs : fired[j] = 0 /\ running[j] = 0

\* Start registers the jobs, all of them before it returns and none of them
\* twice: until it has the mutex there is nothing a tick could visit, and a
\* tick that comes in between finds only jobs that are already registered.
StartRegistersOnce ==
  /\ startPC = "scheduling" <=> mutex = "start"
  /\ startPC = "new" => loop = "off"
  /\ startPC \in {"new", "started"} => jobs = {}
  /\ startPC = "scheduling" => todo = collected \ jobs
  /\ mutex = "tick" => todo \subseteq jobs
  /\ startPC = "done" => jobs = collected

\* Stop and Wait come after Start: no job is registered any more when the
\* jobs to close are collected, and each one is either being closed or closed.
ClosingAccountsForJobs ==
  /\ waitPC # "idle" => startPC = "done"
  /\ waitPC \in {"idle", "draining"} => drain = "pending"
  /\ waitPC \in {"idle", "draining", "locking"} => closing \cup closed = {}
  /\ waitPC \in {"closing", "returned"} => closing \cup closed = jobs

\* How the wait for quartz ended: with nothing in flight and the loop gone, or
\* because the time was up.
DrainAccountsForExecutions ==
  /\ drain = "clean" => loop = "gone" /\ NothingInFlight
  /\ drain = "abandoned" => waitCtx = "done"
  /\ waitPC \in {"locking", "closing", "returned"} => drain # "pending"

\* scheduletooling.go, Wait: jobs are closed after the wait for quartz, so an
\* execution overlaps the Close of its job, or begins after it, only when the
\* time limit has abandoned that wait; a rescheduler that goes on ticking
\* after Stop and puts jobs into the queue again makes no difference.
NoCloseUnderExecution ==
  \A j \in closing \cup closed : fired[j] + running[j] > 0 => waitCtx = "done"

\* scheduletooling.go, Wait: when Wait returns before the time limit, every
\* registered job, enabled or not, has been closed.
CleanWaitClosedEverything ==
  waitPC = "returned" /\ waitCtx = "live" => closing = {} /\ closed = jobs

\* scheduletooling.go:20 ("enables/reschedules Job when config changes"): once
\* the configuration stops changing and can be read, a registered job ends up
\* in the queue exactly if it is enabled, unless the context of Start is
\* cancelled.
ConfigEventuallyApplied ==
  [](startCtx = "live") =>
    \A j \in Schedulable :
      <>[]Readable(j) => <>[](j \in jobs => (j \in queue <=> GetConfig(j).enabled))

\* update.go:55 ("could not get config, skipping job"): a tick that cannot read
\* the configuration of a job leaves the job as it is.  It does not hold: see
\* the findings.
UnreadableIsSkipped ==
  [][\A j \in Jobs :
       mutex = "tick" /\ j \in todo /\ j \notin todo' /\ ~Readable(j)
         => (j \in queue' <=> j \in queue) /\ trigger'[j] = trigger[j]]_vars

\* scheduletooling.go, Wait: the time limit bounds the wait, whatever the job
\* functions and the Close functions do.
WaitIsBounded == (waitPC = "draining") ~> (waitPC = "returned")

=============================================================================
