--------------------------- MODULE SchedulerProofs --------------------------
(***************************************************************************)
(* The safety properties of Scheduler, for every set of jobs, of           *)
(* configurations and every bound.  The inductive invariant SchedInv is    *)
(* the conjunction of the properties themselves with the two facts that    *)
(* order the phases: Start registers each job once and before a tick can   *)
(* visit it, and nothing is registered any more when Wait collects the     *)
(* jobs to close.                                                          *)
(***************************************************************************)
EXTENDS Scheduler, TLAPS

SchedInv ==
  /\ TypeOK
  /\ QueueFollowsSeenConfig
  /\ OnlyRegisteredJobsRun
  /\ StartRegistersOnce
  /\ ClosingAccountsForJobs
  /\ DrainAccountsForExecutions
  /\ CleanWaitClosedEverything

USE DEF TypeOK

\* What GetConfig returns is a configuration, the zero one on an error.
LEMMA GetConfigType ==
  ASSUME TypeOK, NEW j \in Jobs
  PROVE  GetConfig(j) \in Configs \cup {ZeroConfig}
BY DEF GetConfig, Readable

\* Only a tick writes old and trigger; both stay within their types.
LEMMA TickTypes ==
  ASSUME TypeOK, NEW j \in Jobs, TickJob(j)
  PROVE  TypeOK'
<1>1. GetConfig(j) \in Configs \cup {ZeroConfig}
  BY GetConfigType
<1>2. TriggerOf(GetConfig(j)) \in Triggers
  BY <1>1 DEF Triggers
<1>3. Remember(j)
  BY DEF TickJob, TickFirst, TickToggled, TickInterval, TickIgnored
<1>4. /\ todo' = todo \ {j} /\ known' = known \cup {j}
      /\ old' \in [Jobs -> Configs \cup {ZeroConfig}]
      /\ UNCHANGED <<cfgVars, startVars, mutex, rescheduler, loop, execVars,
                     stopVars>>
  BY <1>1, <1>3 DEF Remember
<1>5. trigger' \in [Jobs -> Triggers] /\ queue' \subseteq Jobs
  BY <1>2 DEF TickJob, TickFirst, TickToggled, TickInterval, TickIgnored,
              TurnOnOrOff, ScheduleSilently, StopScheduling
<1> QED
  BY <1>4, <1>5 DEF cfgVars, startVars, execVars, stopVars

\* Every step keeps the types.
LEMMA TypeStep ==
  ASSUME TypeOK, [Next]_vars
  PROVE  TypeOK'
<1> USE DEF cfgVars, startVars, tickVars, execVars, stopVars
<1>1. ASSUME NEW j \in Jobs, ChangeConfig(j) PROVE TypeOK'
  BY <1>1, BoundsAssumption DEF ChangeConfig
<1>2. ASSUME NEW j \in Jobs, Add(j) PROVE TypeOK'
  BY <1>2 DEF Add
<1>3. ASSUME NEW j \in Jobs, StartJob(j) PROVE TypeOK'
  BY <1>3 DEF StartJob, ScheduleSilently
<1>4. ASSUME NEW j \in Jobs, TickJob(j) PROVE TypeOK'
  BY <1>4, TickTypes
<1>5. ASSUME NEW j \in Jobs, Fire(j) PROVE TypeOK'
  BY <1>5 DEF Fire
<1>6. ASSUME NEW j \in Jobs, ExecuteBegin(j) PROVE TypeOK'
  BY <1>6 DEF ExecuteBegin
<1>7. ASSUME NEW j \in Jobs, ExecuteSkip(j) PROVE TypeOK'
  BY <1>7 DEF ExecuteSkip
<1>8. ASSUME NEW j \in Jobs, ExecuteEnd(j) PROVE TypeOK'
  BY <1>8 DEF ExecuteEnd
<1>9. ASSUME NEW j \in Jobs, CloseReturns(j) PROVE TypeOK'
  BY <1>9 DEF CloseReturns
<1>10. CASE Start \/ StartLock \/ StartUnlock
  BY <1>10 DEF Start, StartLock, StartUnlock
<1>11. CASE TickBegin \/ TickEnd \/ ReschedulerReturns \/ LoopReturns
  BY <1>11 DEF TickBegin, TickEnd, ReschedulerReturns, LoopReturns
<1>12. CASE CancelStartCtx \/ Stop \/ WaitTimesOut
  BY <1>12 DEF CancelStartCtx, Stop, WaitTimesOut
<1>13. CASE WaitDrained \/ WaitCloses \/ WaitReturns
  BY <1>13 DEF WaitDrained, WaitCloses, WaitReturns
<1>14. CASE UNCHANGED vars
  BY <1>14 DEF vars
<1> QED
  BY <1>1, <1>2, <1>3, <1>4, <1>5, <1>6, <1>7, <1>8, <1>9, <1>10, <1>11,
     <1>12, <1>13, <1>14 DEF Next, JobStep

\* update.go: a tick leaves the queue as the configuration it read asks for.
LEMMA TickQueue ==
  ASSUME SchedInv, NEW j \in Jobs, TickJob(j)
  PROVE  QueueFollowsSeenConfig' /\ OnlyRegisteredJobsRun'
<1> USE DEF SchedInv
<1>1. /\ mutex = "tick" /\ j \in todo /\ known' = known \cup {j}
      /\ old' = [old EXCEPT ![j] = GetConfig(j)]
      /\ jobs' = jobs /\ collected' = collected
      /\ fired' = fired /\ running' = running
  BY DEF TickJob, TickFirst, TickToggled, TickInterval, TickIgnored, Remember,
         startVars, execVars
<1>2. j \in jobs
  BY <1>1 DEF StartRegistersOnce
<1>3. queue' \subseteq queue \cup {j} /\ queue \ {j} \subseteq queue'
  BY DEF TickJob, TickFirst, TickToggled, TickInterval, TickIgnored,
         TurnOnOrOff, ScheduleSilently, StopScheduling
<1>4. j \in Schedulable => (j \in queue' <=> GetConfig(j).enabled)
  <2>1. CASE TickFirst(j) \/ TickToggled(j)
    BY <2>1 DEF TickFirst, TickToggled, TurnOnOrOff, ScheduleSilently,
                StopScheduling
  <2>2. CASE TickInterval(j) \/ TickIgnored(j)
    BY <2>2 DEF TickInterval, TickIgnored, QueueFollowsSeenConfig
  <2> QED
    BY <2>1, <2>2 DEF TickJob
<1>5. QueueFollowsSeenConfig'
  BY <1>1, <1>3, <1>4 DEF QueueFollowsSeenConfig
<1>6. OnlyRegisteredJobsRun'
  BY <1>1, <1>2, <1>3 DEF OnlyRegisteredJobsRun
<1> QED
  BY <1>5, <1>6

\* update.go: a tick does not touch what the other parts of SchedInv are about.
LEMMA TickOthers ==
  ASSUME SchedInv, NEW j \in Jobs, TickJob(j)
  PROVE  /\ StartRegistersOnce' /\ ClosingAccountsForJobs'
         /\ DrainAccountsForExecutions' /\ CleanWaitClosedEverything'
<1>1. /\ mutex = "tick" /\ todo' = todo \ {j}
      /\ UNCHANGED <<cfgVars, startVars, mutex, rescheduler, loop, execVars,
                     stopVars>>
  BY DEF TickJob, TickFirst, TickToggled, TickInterval, TickIgnored, Remember
<1> QED
  BY <1>1
  DEF SchedInv, startVars, execVars, stopVars, StartRegistersOnce,
      ClosingAccountsForJobs, DrainAccountsForExecutions, NothingInFlight,
      CleanWaitClosedEverything

\* Every step keeps the invariant.
LEMMA SchedStep ==
  ASSUME SchedInv, [Next]_vars
  PROVE  SchedInv'
<1> USE DEF SchedInv, cfgVars, startVars, tickVars, execVars, stopVars
<1>t. TypeOK'
  BY TypeStep
<1>4. ASSUME NEW j \in Jobs, TickJob(j) PROVE SchedInv'
  BY <1>4, <1>t, TickQueue, TickOthers
<1> USE DEF QueueFollowsSeenConfig, OnlyRegisteredJobsRun, StartRegistersOnce,
            ClosingAccountsForJobs, DrainAccountsForExecutions,
            NothingInFlight, CleanWaitClosedEverything
<1>1. ASSUME NEW j \in Jobs, ChangeConfig(j) PROVE SchedInv'
  BY <1>1, <1>t DEF ChangeConfig
<1>2. ASSUME NEW j \in Jobs, Add(j) PROVE SchedInv'
  BY <1>2, <1>t DEF Add
<1>3. ASSUME NEW j \in Jobs, StartJob(j) PROVE SchedInv'
  BY <1>3, <1>t DEF StartJob, ScheduleSilently
<1>5. ASSUME NEW j \in Jobs, Fire(j) PROVE SchedInv'
  BY <1>5, <1>t DEF Fire
<1>6. ASSUME NEW j \in Jobs, ExecuteBegin(j) PROVE SchedInv'
  BY <1>6, <1>t DEF ExecuteBegin
<1>7. ASSUME NEW j \in Jobs, ExecuteSkip(j) PROVE SchedInv'
  BY <1>7, <1>t DEF ExecuteSkip
<1>8. ASSUME NEW j \in Jobs, ExecuteEnd(j) PROVE SchedInv'
  BY <1>8, <1>t DEF ExecuteEnd
<1>9. ASSUME NEW j \in Jobs, CloseReturns(j) PROVE SchedInv'
  BY <1>9, <1>t DEF CloseReturns
<1>10. CASE Start
  BY <1>10, <1>t DEF Start
<1>11. CASE StartLock
  BY <1>11, <1>t DEF StartLock
<1>12. CASE StartUnlock
  BY <1>12, <1>t DEF StartUnlock
<1>13. CASE TickBegin
  BY <1>13, <1>t DEF TickBegin
<1>14. CASE TickEnd
  BY <1>14, <1>t DEF TickEnd
<1>15. CASE ReschedulerReturns
  BY <1>15, <1>t DEF ReschedulerReturns
<1>16. CASE LoopReturns
  BY <1>16, <1>t DEF LoopReturns
<1>17. CASE CancelStartCtx
  BY <1>17, <1>t DEF CancelStartCtx
<1>18. CASE Stop
  BY <1>18, <1>t DEF Stop
<1>19. CASE WaitTimesOut
  BY <1>19, <1>t DEF WaitTimesOut
<1>20. CASE WaitDrained
  BY <1>20, <1>t DEF WaitDrained
<1>21. CASE WaitCloses
  BY <1>21, <1>t DEF WaitCloses
<1>22. CASE WaitReturns
  BY <1>22, <1>t DEF WaitReturns
<1>23. CASE UNCHANGED vars
  BY <1>23, <1>t DEF vars
<1> QED
  BY <1>1, <1>2, <1>3, <1>4, <1>5, <1>6, <1>7, <1>8, <1>9, <1>10, <1>11,
     <1>12, <1>13, <1>14, <1>15, <1>16, <1>17, <1>18, <1>19, <1>20, <1>21,
     <1>22, <1>23 DEF Next, JobStep

\* Nothing is registered, queued, known or closed initially.
LEMMA SchedInit == Init => SchedInv
BY BoundsAssumption
DEF Init, SchedInv, Triggers, QueueFollowsSeenConfig, OnlyRegisteredJobsRun,
    StartRegistersOnce, ClosingAccountsForJobs, DrainAccountsForExecutions,
    NothingInFlight, CleanWaitClosedEverything

\* The invariant of the scheduler holds in every behaviour.
THEOREM SchedInvariant == Spec => []SchedInv
BY SchedInit, SchedStep, PTL DEF Spec

\* The variables of the scheduler keep their types.
THEOREM SchedTypeCorrect == Spec => []TypeOK
<1>1. SchedInv => TypeOK
  BY DEF SchedInv
<1> QED
  BY <1>1, SchedInvariant, PTL

\* update.go: for every job the rescheduler has seen, the queue of quartz
\* agrees with the configuration it saw, whatever the interleaving of ticks,
\* configuration changes, firings and shutdown.
THEOREM QueueAgreesWithConfig == Spec => []QueueFollowsSeenConfig
<1>1. SchedInv => QueueFollowsSeenConfig
  BY DEF SchedInv
<1> QED
  BY <1>1, SchedInvariant, PTL

\* scheduletooling.go, Wait: a job is closed while an execution of it runs, or
\* one begins later, only after the time limit has abandoned the wait.
THEOREM ClosedAfterExecutions == Spec => []NoCloseUnderExecution
<1>1. SchedInv => NoCloseUnderExecution
  <2> SUFFICES ASSUME SchedInv, NEW j \in closing \cup closed, waitCtx # "done"
               PROVE  ~(fired[j] + running[j] > 0)
    BY DEF NoCloseUnderExecution
  <2>1. waitPC \in {"closing", "returned"}
    BY DEF SchedInv, ClosingAccountsForJobs
  <2>2. drain = "clean"
    BY <2>1 DEF SchedInv, DrainAccountsForExecutions
  <2>3. j \in Jobs /\ fired[j] = 0 /\ running[j] = 0
    BY <2>2 DEF SchedInv, DrainAccountsForExecutions, NothingInFlight
  <2> QED
    BY <2>3
<1> QED
  BY <1>1, SchedInvariant, PTL

\* scheduletooling.go, Wait: returning before the time limit means that every
\* registered job has been closed.
THEOREM CleanWaitCloses == Spec => []CleanWaitClosedEverything
<1>1. SchedInv => CleanWaitClosedEverything
  BY DEF SchedInv
<1> QED
  BY <1>1, SchedInvariant, PTL
=============================================================================
