----------------------------- MODULE Application ----------------------------
(***************************************************************************)
(* internal/application: the checks before the start, the servers and the  *)
(* scheduler it starts, and Shutdown, which closes all of them in parallel *)
(* under one time limit and does not wait longer than that.                *)
(*                                                                         *)
(* The scheduler is seen from outside: Stop, then a Wait that returns when *)
(* nothing runs any more or when its context is done (module Scheduler     *)
(* shows that).  http.Server and the exporter of traces are external.      *)
(***************************************************************************)
EXTENDS Integers, Sequences, FiniteSets

CONSTANTS
  Checkers,   \* the readiness checkers in the order they were added: optional or not
  Servers,    \* components of the application, openapiapp.App each
  Callers,    \* goroutines that call Shutdown
  MaxActive   \* requests in flight on a server, and executions of jobs

ASSUME ApplicationAssumption ==
  /\ MaxActive \in Nat \ {0}
  /\ "scheduler" \notin Servers /\ "otel" \notin Servers

VARIABLES
  phase,      \* "checking", "running", or "dead" after logger.Fatal
  check,      \* the checker IsReady has come to
  late,       \* the time limit of the current check has passed
  appCtx,     \* the context of Start: "live" or "canceled"
  server,     \* each server: "new", "spawned", "serving" or "closed"
  shut,       \* servers whose Shutdown has been called
  active,     \* what is in flight: requests of each server, executions of jobs
  broken,     \* servers that had a request canceled by appCtx
  scheduler,  \* "new", "started" or "stopped"
  mutex,      \* shutdownMu
  pc,         \* of each caller of Shutdown
  timer,      \* callers whose shutdownCtx is done
  sub,        \* the goroutine of each call for each subsystem
  outcome     \* of each call: "none", "clean", "late"; "raced" if both were ready

ready == <<check, late>>
traffic == <<appCtx, server, shut, active, broken, scheduler>>
closing == <<mutex, pc, timer, sub, outcome>>
vars == <<phase, ready, traffic, closing>>

Subsystems == Servers \cup {"scheduler", "otel"}

Init ==
  /\ phase = "checking" /\ check = 1 /\ late = FALSE
  /\ appCtx = "live" /\ server = [s \in Servers |-> "new"] /\ shut = {}
  /\ active = [x \in Servers \cup {"scheduler"} |-> 0] /\ broken = {}
  /\ scheduler = "new"
  /\ mutex = "none" /\ pc = [c \in Callers |-> "idle"] /\ timer = {}
  /\ sub = [c \in Callers |-> [x \in Subsystems |-> "none"]]
  /\ outcome = [c \in Callers |-> "none"]

-----------------------------------------------------------------------------
\* Readiness.IsReady: one checker after the other, each until it is ready.

NextCheck == check' = check + 1 /\ late' = FALSE

CheckReady ==
  /\ phase = "checking" /\ check <= Len(Checkers)
  /\ NextCheck
  /\ UNCHANGED <<phase, traffic, closing>>

\* An error ends the check of an optional dependency; another is asked again
\* until its time is over, and then the application is not ready.  Nor is it
\* if the context ends meanwhile, which retry.Do reports for either kind.
CheckFails ==
  /\ phase = "checking" /\ check <= Len(Checkers)
  /\ \/ Checkers[check] = "optional" /\ NextCheck /\ UNCHANGED phase
     \/ /\ Checkers[check] # "optional" \/ appCtx = "canceled"
        /\ phase' = IF late \/ appCtx = "canceled" THEN "dead" ELSE phase
        /\ UNCHANGED <<check, late>>
  /\ UNCHANGED <<traffic, closing>>

CheckTimer ==
  /\ phase = "checking" /\ ~late /\ check <= Len(Checkers)
  /\ late' = TRUE
  /\ UNCHANGED <<phase, check, traffic, closing>>

\* Application.Start: Sentry may refuse its settings; else a goroutine for
\* every server, and the scheduler.
Start ==
  /\ phase = "checking" /\ check > Len(Checkers)
  /\ \/ phase' = "dead" /\ UNCHANGED <<server, scheduler>>
     \/ /\ phase' = "running"
        /\ server' = [s \in Servers |-> "spawned"]
        /\ scheduler' = "started"
  /\ UNCHANGED <<ready, appCtx, shut, active, broken, closing>>

-----------------------------------------------------------------------------
\* The running application.

\* App.StartServer: ListenAndServe of a server that was shut down returns at
\* once; a port in use is fatal.
ListenAndServe(s) ==
  /\ phase = "running" /\ server[s] = "spawned"
  /\ \/ server' = [server EXCEPT ![s] = IF s \in shut THEN "closed" ELSE "serving"]
        /\ UNCHANGED phase
     \/ s \notin shut /\ phase' = "dead" /\ UNCHANGED server
  /\ UNCHANGED <<ready, appCtx, shut, active, broken, scheduler, closing>>

\* A request arrives, or quartz fires a job.
Begin(x) ==
  /\ phase = "running" /\ active[x] < MaxActive
  /\ IF x \in Servers THEN server[x] = "serving" /\ x \notin shut ELSE scheduler = "started"
  /\ active' = [active EXCEPT ![x] = @ + 1]
  /\ UNCHANGED <<phase, ready, appCtx, server, shut, broken, scheduler, closing>>

End(x) ==
  /\ phase = "running" /\ active[x] > 0
  /\ active' = [active EXCEPT ![x] = @ - 1]
  /\ UNCHANGED <<phase, ready, appCtx, server, shut, broken, scheduler, closing>>

\* context.WithoutCancel: the values of the context, not its end.
BaseContext(ctx) == "live"

\* A signal ends the context of Start, and requests whose context ends with it.
Signal ==
  /\ phase \in {"checking", "running"} /\ appCtx = "live"
  /\ appCtx' = "canceled"
  /\ broken' = {s \in Servers : active[s] > 0 /\ BaseContext("canceled") = "canceled"}
  /\ UNCHANGED <<phase, ready, server, shut, active, scheduler, closing>>

-----------------------------------------------------------------------------
\* Application.Shutdown.

ShutdownCalled(c) ==
  /\ phase = "running" /\ pc[c] = "idle"
  /\ pc' = [pc EXCEPT ![c] = "called"]
  /\ UNCHANGED <<phase, ready, traffic, mutex, timer, sub, outcome>>

ShutdownLock(c) ==
  /\ phase = "running" /\ pc[c] = "called" /\ mutex = "none"
  /\ mutex' = c /\ pc' = [pc EXCEPT ![c] = "spawning"]
  /\ UNCHANGED <<phase, ready, traffic, timer, sub, outcome>>

\* The time limit starts, and a goroutine for each subsystem.
Spawn(c) ==
  /\ phase = "running" /\ pc[c] = "spawning"
  /\ pc' = [pc EXCEPT ![c] = "spawned"]
  /\ sub' = [sub EXCEPT ![c] = [x \in Subsystems |-> "run"]]
  /\ UNCHANGED <<phase, ready, traffic, mutex, timer, outcome>>

Done(c) == \A x \in Subsystems : sub[c][x] = "done"

\* The call comes to its select; if both cases are ready it takes either.
Select(c) ==
  /\ phase = "running" /\ pc[c] = "spawned"
  /\ outcome' = [outcome EXCEPT ![c] =
                   IF c \in timer /\ Done(c) THEN "raced"
                   ELSE IF c \in timer THEN "late" ELSE IF Done(c) THEN "clean" ELSE "none"]
  /\ pc' = [pc EXCEPT ![c] = "select"]
  /\ UNCHANGED <<phase, ready, traffic, mutex, timer, sub>>

\* shutdownCtx is done, which wakes the call if it sleeps in its select.
Timer(c) ==
  /\ phase = "running" /\ pc[c] \in {"spawning", "spawned", "select"} /\ c \notin timer
  /\ timer' = timer \cup {c}
  /\ outcome' = [outcome EXCEPT ![c] = IF pc[c] = "select" /\ @ = "none" THEN "late" ELSE @]
  /\ UNCHANGED <<phase, ready, traffic, mutex, pc, sub>>

\* A goroutine has returned; the last one closes sig and wakes the call.
SubReturns(c, x) ==
  LET rest == \A y \in Subsystems \ {x} : sub[c][y] = "done" IN
  /\ sub' = [sub EXCEPT ![c][x] = "done"]
  /\ outcome' = [outcome EXCEPT ![c] = IF rest /\ pc[c] = "select" /\ @ = "none" THEN "clean" ELSE @]
  /\ UNCHANGED <<phase, ready, mutex, pc, timer>>

\* Mutant: nothing is closed once the time is over.
MutShutdownServerLate(c, s) ==
  /\ phase = "running" /\ sub[c][s] = "run"
  /\ shut' = IF c \in timer THEN shut ELSE shut \cup {s}
  /\ server' = [server EXCEPT ![s] = IF @ = "serving" /\ c \notin timer THEN "closed" ELSE @]
  /\ sub' = [sub EXCEPT ![c][s] = "waits"]
  /\ UNCHANGED <<phase, ready, appCtx, active, broken, scheduler, mutex, pc, timer, outcome>>

\* App.ShutdownServer: no new requests from here on; wait for the others.
ShutdownServer(c, s) ==
  /\ phase = "running" /\ sub[c][s] = "run"
  /\ shut' = shut \cup {s}
  /\ server' = [server EXCEPT ![s] = IF @ = "serving" THEN "closed" ELSE @]
  /\ sub' = [sub EXCEPT ![c][s] = "waits"]
  /\ UNCHANGED <<phase, ready, appCtx, active, broken, scheduler, mutex, pc, timer, outcome>>

\* Mutant: a server is closed without waiting for its requests.
MutServerClose(c, s) ==
  /\ phase = "running" /\ sub[c][s] = "waits"
  /\ SubReturns(c, s) /\ UNCHANGED traffic

ServerDrained(c, s) ==
  /\ phase = "running" /\ sub[c][s] = "waits"
  /\ active[s] = 0 \/ c \in timer
  /\ SubReturns(c, s) /\ UNCHANGED traffic

\* Scheduler.Stop and Scheduler.Wait.
StopScheduler(c) ==
  /\ phase = "running" /\ sub[c]["scheduler"] = "run"
  /\ scheduler' = "stopped"
  /\ sub' = [sub EXCEPT ![c]["scheduler"] = "waits"]
  /\ UNCHANGED <<phase, ready, appCtx, server, shut, active, broken, mutex, pc, timer, outcome>>

SchedulerWaited(c) ==
  /\ phase = "running" /\ sub[c]["scheduler"] = "waits"
  /\ active["scheduler"] = 0 \/ c \in timer
  /\ SubReturns(c, "scheduler") /\ UNCHANGED traffic

\* The exporter of traces takes as long as it likes.
OtelShutdown(c) ==
  /\ phase = "running" /\ sub[c]["otel"] = "run"
  /\ SubReturns(c, "otel") /\ UNCHANGED traffic

\* Mutant: the mutex is kept.
MutNoUnlock(c) ==
  /\ phase = "running" /\ pc[c] = "select" /\ outcome[c] # "none"
  /\ pc' = [pc EXCEPT ![c] = "returned"]
  /\ UNCHANGED <<phase, ready, traffic, mutex, timer, sub, outcome>>

\* Shutdown returns: the mutex is free again.
ShutdownReturns(c) ==
  /\ phase = "running" /\ pc[c] = "select" /\ outcome[c] # "none"
  /\ pc' = [pc EXCEPT ![c] = "returned"] /\ mutex' = "none"
  /\ UNCHANGED <<phase, ready, traffic, timer, sub, outcome>>

Call(c) ==
  \/ ShutdownCalled(c) \/ ShutdownLock(c) \/ Spawn(c) \/ Select(c) \/ ShutdownReturns(c)

Work(c) ==
  \/ \E s \in Servers : ShutdownServer(c, s) \/ ServerDrained(c, s)
  \/ StopScheduler(c) \/ SchedulerWaited(c)

Next ==
  \/ CheckReady \/ CheckFails \/ CheckTimer \/ Start \/ Signal
  \/ \E s \in Servers : ListenAndServe(s)
  \/ \E x \in Servers \cup {"scheduler"} : Begin(x) \/ End(x)
  \/ \E c \in Callers : Call(c) \/ Timer(c) \/ Work(c) \/ OtelShutdown(c)

\* Goroutines run and timers fire; handlers, jobs and the exporter may hang,
\* and nobody has to call Shutdown.
Fairness ==
  \A c \in Callers :
    /\ WF_vars(Spawn(c)) /\ WF_vars(Select(c)) /\ WF_vars(ShutdownReturns(c))
    /\ SF_vars(ShutdownLock(c))
    /\ WF_vars(Timer(c)) /\ WF_vars(Work(c))

Spec == Init /\ [][Next]_vars /\ Fairness

-----------------------------------------------------------------------------
\* A shutdown that is reported clean has drained everything: no server takes
\* requests, none is in flight or was canceled by the signal, no job runs and
\* none will.  If the time is over before the call comes to its select it may
\* report a clean shutdown regardless, which is the outcome "raced".
CleanMeansDrained ==
  \A c \in Callers : outcome[c] = "clean" =>
    /\ shut = Servers /\ broken = {} /\ scheduler = "stopped"
    /\ \A s \in Servers : server[s] # "serving"
    /\ \A x \in DOMAIN active : active[x] = 0

\* Shutdown returns although requests, jobs and the exporter may hang, and
\* although another call holds its mutex ("We have to put a time limit on
\* shutdown context").
ShutdownIsBounded ==
  \A c \in Callers : pc[c] = "called" ~> (pc[c] = "returned" \/ phase = "dead")

\* A call of Shutdown makes all servers and the scheduler stop taking on
\* work, be it after its time limit ("Shutdown makes application stop
\* accepting new traffic").
TrafficStops ==
  \A c \in Callers :
    pc[c] = "called" ~> ((shut = Servers /\ scheduler = "stopped") \/ phase = "dead")
=============================================================================
