-------------------------- MODULE ApplicationProofs -------------------------
(***************************************************************************)
(* A clean shutdown has drained the application, for every set of servers, *)
(* any number of concurrent calls of Shutdown and any traffic; and what a  *)
(* server of the application says about a request (to the client, in the   *)
(* logs, to the metrics and to Sentry) agrees, for every well-ordered      *)
(* chain of middlewares and errors of any length.                          *)
(*                                                                         *)
(* CleanMeansDrained is not inductive: it looks at the application at the  *)
(* moment the select reports "clean", and that moment is reached through   *)
(* the goroutines of the call.  DrainInv therefore follows each goroutine: *)
(* once past its first step its subsystem takes no work, for good; if it   *)
(* returned before the time limit its subsystem is empty; and a call that  *)
(* sleeps in its select has not been timed out, so the goroutine that      *)
(* wakes it found an empty subsystem like all the others.                  *)
(*                                                                         *)
(* The properties of a request look at the end of it.  ServerInv follows   *)
(* the request: which contexts the layers outside have filled on the way   *)
(* down, what each writer remembers on the way up, and what a panic has    *)
(* left behind when the recovery stops it.                                 *)
(***************************************************************************)
EXTENDS Application, HttpServer, FiniteSetTheorems, WellFoundedInduction, NaturalsInduction, TLAPS

Types ==
  /\ phase \in {"checking", "running", "dead"}
  /\ server \in [Servers -> {"new", "spawned", "serving", "closed"}]
  /\ shut \subseteq Servers
  /\ active \in [Servers \cup {"scheduler"} -> Nat]
  /\ scheduler \in {"new", "started", "stopped"}
  /\ pc \in [Callers -> {"idle", "called", "spawning", "spawned", "select", "returned"}]
  /\ timer \subseteq Callers
  /\ sub \in [Callers -> [Subsystems -> {"none", "run", "waits", "done"}]]
  /\ outcome \in [Callers -> {"none", "clean", "late", "raced"}]

\* Nobody calls Shutdown before Start has returned, no goroutine of a call
\* exists before it spawns them, and nothing is reported before the select.
CallOrder(c) ==
  /\ phase = "checking" => pc[c] = "idle"
  /\ pc[c] \in {"idle", "called", "spawning"} => \A x \in Subsystems : sub[c][x] = "none"
  /\ outcome[c] # "none" => pc[c] \in {"select", "returned"}
  /\ pc[c] = "select" /\ outcome[c] = "none" => c \notin timer

\* A goroutine past its first step has closed its subsystem.
Closed(c) ==
  /\ \A s \in Servers : sub[c][s] \in {"waits", "done"} => s \in shut
  /\ sub[c]["scheduler"] \in {"waits", "done"} => scheduler = "stopped"

\* A goroutine that returned before the time limit left it empty.
Drained(c) ==
  c \notin timer =>
    \A x \in Servers \cup {"scheduler"} : sub[c][x] = "done" => active[x] = 0

\* What a clean report promises, apart from the servers themselves.
Quiet ==
  /\ shut = Servers /\ scheduler = "stopped"
  /\ \A x \in Servers \cup {"scheduler"} : active[x] = 0

DrainInv ==
  /\ Types
  /\ broken = {}
  /\ \A s \in shut : server[s] # "serving"
  /\ \A c \in Callers : CallOrder(c) /\ Closed(c) /\ Drained(c)
  /\ \A c \in Callers : outcome[c] = "clean" => Quiet

\* The parts of the state that most steps leave alone.
USE DEF ready, traffic, closing, Subsystems

\* A step that moves no call and no goroutine keeps DrainInv if it reopens
\* nothing and starts nothing in an empty subsystem.
LEMMA NothingReopens ==
  ASSUME DrainInv, Types', broken' = {}, \A s \in shut' : server'[s] # "serving",
         UNCHANGED <<pc, timer, sub, outcome>>,
         phase' = "checking" => phase = "checking",
         shut \subseteq shut', scheduler = "stopped" => scheduler' = "stopped",
         \A x \in Servers \cup {"scheduler"} : active[x] = 0 => active'[x] = 0
  PROVE  DrainInv'
<1>1. \A c \in Callers : CallOrder(c)'
  BY DEF DrainInv, CallOrder
<1>2. \A c \in Callers : Closed(c)' /\ Drained(c)'
  BY DEF DrainInv, Closed, Drained
<1>3. Quiet => Quiet'
  BY DEF Quiet, Types
<1> QED
  BY <1>1, <1>2, <1>3 DEF DrainInv

\* Readiness and Start: nobody has called Shutdown yet, so a start cannot undo
\* what a goroutine closed.
LEMMA StartKeeps ==
  ASSUME DrainInv, CheckReady \/ CheckFails \/ CheckTimer \/ Start
  PROVE  DrainInv'
<1>1. CASE CheckReady \/ CheckTimer \/ CheckFails
  <2>1. phase' \in {phase, "dead"} /\ UNCHANGED <<traffic, closing>>
    BY <1>1 DEF CheckReady, CheckTimer, CheckFails
  <2>2. Types'
    BY <2>1 DEF DrainInv, Types
  <2> QED
    BY <2>1, <2>2, NothingReopens DEF DrainInv
<1>2. CASE Start
  <2>1. \A c \in Callers : /\ pc[c] = "idle" /\ outcome[c] = "none"
                          /\ \A x \in Subsystems : sub[c][x] = "none"
    BY <1>2 DEF Start, DrainInv, CallOrder, Types
  <2>2. Types' /\ broken' = {} /\ \A s \in shut' : server'[s] # "serving"
    BY <1>2 DEF Start, DrainInv, Types
  <2>3. \A c \in Callers : CallOrder(c)' /\ Closed(c)' /\ Drained(c)'
    BY <1>2, <2>1 DEF Start, CallOrder, Closed, Drained
  <2> QED
    BY <1>2, <2>1, <2>2, <2>3 DEF Start, DrainInv
<1> QED
  BY <1>1, <1>2

\* Requests and executions: none begins in a subsystem that is closed.
LEMMA TrafficKeeps ==
  ASSUME DrainInv,
         \/ Signal
         \/ \E s \in Servers : ListenAndServe(s)
         \/ \E x \in Servers \cup {"scheduler"} : Begin(x) \/ End(x)
  PROVE  DrainInv'
<1>1. CASE Signal
  <2>1. broken' = {} /\ UNCHANGED <<phase, server, shut, active, scheduler, closing>>
    BY <1>1 DEF Signal, BaseContext
  <2>2. Types'
    BY <2>1 DEF DrainInv, Types
  <2> QED
    BY <2>1, <2>2, NothingReopens DEF DrainInv
<1>2. ASSUME NEW s \in Servers, ListenAndServe(s) PROVE DrainInv'
  <2>1. /\ phase' \in {"running", "dead"}
        /\ UNCHANGED <<shut, active, broken, scheduler, closing>>
    BY <1>2 DEF ListenAndServe
  <2>2. /\ server' \in [Servers -> {"new", "spawned", "serving", "closed"}]
        /\ \A t \in shut : server'[t] # "serving"
    BY <1>2 DEF ListenAndServe, DrainInv, Types
  <2>3. Types'
    BY <2>1, <2>2 DEF DrainInv, Types
  <2> QED
    BY <2>1, <2>2, <2>3, NothingReopens DEF DrainInv
<1>3. ASSUME NEW x \in Servers \cup {"scheduler"}, Begin(x) PROVE DrainInv'
  <2>1. x \in Servers => x \notin shut
    BY <1>3 DEF Begin
  <2>2. x \notin Servers => x = "scheduler" /\ scheduler # "stopped"
    BY <1>3 DEF Begin
  <2>3. Types' /\ broken' = {} /\ \A s \in shut' : server'[s] # "serving"
    <3>1. active' \in [Servers \cup {"scheduler"} -> Nat]
      BY <1>3 DEF Begin, DrainInv, Types
    <3> QED
      BY <1>3, <3>1 DEF Begin, DrainInv, Types
  <2>4. \A c \in Callers : CallOrder(c)' /\ Closed(c)'
    BY <1>3 DEF Begin, DrainInv, CallOrder, Closed
  <2>5. ASSUME NEW c \in Callers PROVE sub[c][x] # "done"
    BY <2>1, <2>2 DEF DrainInv, Closed
  <2>6. \A c \in Callers : Drained(c)'
    BY <1>3, <2>5 DEF Begin, DrainInv, Drained, Types
  <2>7. ~ Quiet
    BY <2>1, <2>2 DEF Quiet
  <2> QED
    BY <1>3, <2>3, <2>4, <2>6, <2>7 DEF Begin, DrainInv
<1>4. ASSUME NEW x \in Servers \cup {"scheduler"}, End(x) PROVE DrainInv'
  <2>1. /\ active' \in [Servers \cup {"scheduler"} -> Nat]
        /\ \A y \in Servers \cup {"scheduler"} : active[y] = 0 => active'[y] = 0
    BY <1>4 DEF End, DrainInv, Types
  <2>2. UNCHANGED <<phase, server, shut, broken, scheduler, closing>>
    BY <1>4 DEF End
  <2>3. Types'
    BY <2>1, <2>2 DEF DrainInv, Types
  <2> QED
    BY <2>1, <2>2, <2>3, NothingReopens DEF DrainInv
<1> QED
  BY <1>1, <1>2, <1>3, <1>4

\* The call itself: it reports "clean" at its select only if all goroutines
\* are done and the time is not over.
LEMMA CallKeeps ==
  ASSUME DrainInv, NEW c \in Callers, Call(c) \/ Timer(c)
  PROVE  DrainInv'
<1>1. UNCHANGED <<phase, traffic>>
  BY DEF Call, Timer, ShutdownCalled, ShutdownLock, Spawn, Select, ShutdownReturns
<1>2. ASSUME Types', \A d \in Callers : CallOrder(d)' /\ Closed(d)' /\ Drained(d)',
             \A d \in Callers : outcome'[d] = "clean" => outcome[d] = "clean" \/ Quiet
      PROVE  DrainInv'
  BY <1>1, <1>2 DEF DrainInv, Quiet
<1>3. CASE ShutdownCalled(c) \/ ShutdownLock(c) \/ ShutdownReturns(c)
  <2>1. UNCHANGED <<timer, sub, outcome>>
    BY <1>3 DEF ShutdownCalled, ShutdownLock, ShutdownReturns
  <2>2. Types'
    BY <1>1, <1>3, <2>1 DEF ShutdownCalled, ShutdownLock, ShutdownReturns, DrainInv, Types
  <2>3. \A d \in Callers : CallOrder(d)'
    BY <1>1, <1>3, <2>1 DEF ShutdownCalled, ShutdownLock, ShutdownReturns, DrainInv, Types,
                            CallOrder
  <2>4. \A d \in Callers : Closed(d)' /\ Drained(d)'
    BY <1>1, <2>1 DEF DrainInv, Closed, Drained
  <2> QED
    BY <1>2, <2>1, <2>2, <2>3, <2>4
<1>4. CASE Spawn(c)
  <2>1. Types' /\ \A d \in Callers : CallOrder(d)'
    BY <1>1, <1>4 DEF Spawn, DrainInv, Types, CallOrder
  <2>2. \A d \in Callers : Closed(d)' /\ Drained(d)'
    BY <1>1, <1>4 DEF Spawn, DrainInv, Types, Closed, Drained
  <2> QED
    BY <1>2, <1>4, <2>1, <2>2 DEF Spawn
<1>5. CASE Timer(c)
  <2>1. Types'
    BY <1>1, <1>5 DEF Timer, DrainInv, Types
  <2>2. \A d \in Callers : CallOrder(d)'
    BY <1>1, <1>5 DEF Timer, DrainInv, Types, CallOrder
  <2>3. \A d \in Callers : Closed(d)' /\ Drained(d)'
    BY <1>1, <1>5 DEF Timer, DrainInv, Closed, Drained
  <2>4. \A d \in Callers : outcome'[d] = "clean" => outcome[d] = "clean"
    BY <1>5 DEF Timer, DrainInv, Types
  <2> QED
    BY <1>2, <2>1, <2>2, <2>3, <2>4
<1>6. CASE Select(c)
  <2>1. c \notin timer /\ Done(c) => Quiet
    BY DEF Done, DrainInv, Types, Closed, Drained, Quiet
  <2>2. Types'
    BY <1>1, <1>6 DEF Select, DrainInv, Types
  <2>3. \A d \in Callers : CallOrder(d)'
    BY <1>1, <1>6 DEF Select, DrainInv, Types, CallOrder
  <2>4. \A d \in Callers : Closed(d)' /\ Drained(d)'
    BY <1>1, <1>6 DEF Select, DrainInv, Closed, Drained
  <2>5. \A d \in Callers : outcome'[d] = "clean" => outcome[d] = "clean" \/ Quiet
    BY <1>6, <2>1 DEF Select, DrainInv, Types
  <2> QED
    BY <1>2, <2>2, <2>3, <2>4, <2>5
<1> QED
  BY <1>3, <1>4, <1>5, <1>6 DEF Call

\* A goroutine that returns wakes the call if it is the last one; by then all
\* of them have drained their subsystems.
LEMMA SubReturnsKeeps ==
  ASSUME DrainInv, NEW c \in Callers, NEW x \in Subsystems,
         phase = "running", SubReturns(c, x), UNCHANGED traffic,
         sub[c][x] # "none",
         \/ x = "otel"
         \/ sub[c][x] = "waits" /\ (active[x] = 0 \/ c \in timer)
  PROVE  DrainInv'
<1>1. /\ sub' = [sub EXCEPT ![c][x] = "done"]
      /\ UNCHANGED <<phase, pc, timer, traffic>>
  BY DEF SubReturns
<1>2. Types' /\ broken' = {} /\ \A s \in shut' : server'[s] # "serving"
  <2>1. outcome' \in [Callers -> {"none", "clean", "late", "raced"}]
    BY DEF SubReturns, DrainInv, Types
  <2>2. Types'
    BY <1>1, <2>1 DEF DrainInv, Types
  <2> QED
    BY <1>1, <2>2 DEF DrainInv
<1>3. \A d \in Callers : Closed(d)' /\ Drained(d)'
  BY <1>1, ApplicationAssumption DEF DrainInv, Types, Closed, Drained
<1>4. ASSUME outcome'[c] # outcome[c]
      PROVE  pc[c] = "select" /\ outcome[c] = "none" /\ Done(c)' /\ c \notin timer
  BY <1>1, <1>4 DEF SubReturns, Done, DrainInv, Types, CallOrder
<1>5. \A d \in Callers : CallOrder(d)'
  BY <1>1, <1>4 DEF SubReturns, DrainInv, Types, CallOrder
<1>6. Done(c)' /\ c \notin timer => Quiet'
  <2> SUFFICES ASSUME Done(c)', c \notin timer PROVE Quiet'
    OBVIOUS
  <2>1. \A y \in Servers \cup {"scheduler"} : sub'[c][y] = "done"
    BY DEF Done
  <2>2. \A y \in Servers \cup {"scheduler"} : active'[y] = 0
    BY <1>1, <1>3, <2>1 DEF Drained
  <2>3. scheduler' = "stopped" /\ shut' = Servers
    BY <1>2, <1>3, <2>1 DEF Types, Closed
  <2> QED
    BY <2>2, <2>3 DEF Quiet
<1>7. \A d \in Callers : outcome'[d] = "clean" => Quiet'
  BY <1>1, <1>4, <1>6 DEF SubReturns, DrainInv, Types, Quiet
<1> QED
  BY <1>2, <1>3, <1>5, <1>7 DEF DrainInv

\* The goroutines of a call: first close, then wait.
LEMMA WorkKeeps ==
  ASSUME DrainInv, NEW c \in Callers, Work(c) \/ OtelShutdown(c)
  PROVE  DrainInv'
<1>1. ASSUME NEW s \in Servers, ShutdownServer(c, s) PROVE DrainInv'
  <2>1. /\ shut' = shut \cup {s} /\ sub' = [sub EXCEPT ![c][s] = "waits"]
        /\ UNCHANGED <<phase, active, broken, scheduler, pc, timer, outcome>>
    BY <1>1 DEF ShutdownServer
  <2>2. Types' /\ \A t \in shut' : server'[t] # "serving"
    BY <1>1 DEF ShutdownServer, DrainInv, Types
  <2>3. \A d \in Callers : CallOrder(d)'
    BY <1>1, <2>1 DEF ShutdownServer, DrainInv, Types, CallOrder
  <2>4. \A d \in Callers : Closed(d)' /\ Drained(d)'
    BY <2>1, ApplicationAssumption DEF DrainInv, Types, Closed, Drained
  <2>5. Quiet => Quiet'
    BY <2>1 DEF Quiet
  <2> QED
    BY <2>1, <2>2, <2>3, <2>4, <2>5 DEF DrainInv
<1>2. ASSUME NEW s \in Servers, ServerDrained(c, s) PROVE DrainInv'
  BY <1>2, SubReturnsKeeps DEF ServerDrained
<1>3. CASE StopScheduler(c)
  <2>1. /\ scheduler' = "stopped" /\ sub' = [sub EXCEPT ![c]["scheduler"] = "waits"]
        /\ UNCHANGED <<phase, server, shut, active, broken, pc, timer, outcome>>
    BY <1>3 DEF StopScheduler
  <2>2. Types'
    BY <2>1 DEF DrainInv, Types
  <2>3. \A d \in Callers : CallOrder(d)'
    BY <1>3, <2>1 DEF StopScheduler, DrainInv, Types, CallOrder
  <2>4. \A d \in Callers : Closed(d)' /\ Drained(d)'
    BY <2>1, ApplicationAssumption DEF DrainInv, Types, Closed, Drained
  <2>5. Quiet => Quiet'
    BY <2>1 DEF Quiet
  <2> QED
    BY <2>1, <2>2, <2>3, <2>4, <2>5 DEF DrainInv
<1>4. CASE SchedulerWaited(c)
  BY <1>4, SubReturnsKeeps DEF SchedulerWaited
<1>5. CASE OtelShutdown(c)
  BY <1>5, SubReturnsKeeps DEF OtelShutdown
<1> QED
  BY <1>1, <1>2, <1>3, <1>4, <1>5 DEF Work

\* Application.Shutdown, for any number of calls at once: DrainInv is inductive.
THEOREM DrainInvHolds == Spec => []DrainInv
<1>1. Init => DrainInv
  BY DEF Init, DrainInv, Types, CallOrder, Closed, Drained, Quiet
<1>2. DrainInv /\ [Next]_vars => DrainInv'
  <2> SUFFICES ASSUME DrainInv, [Next]_vars PROVE DrainInv'
    OBVIOUS
  <2>1. CASE UNCHANGED vars
    <3>1. Types'
      BY <2>1 DEF vars, DrainInv, Types
    <3> QED
      BY <2>1, <3>1, NothingReopens DEF vars, DrainInv
  <2> QED
    BY <2>1, StartKeeps, TrafficKeeps, CallKeeps, WorkKeeps DEF Next
<1> QED
  BY <1>1, <1>2, PTL DEF Spec

\* Application.Shutdown: if a call reports a clean shutdown then no server takes
\* requests, none is in flight or was canceled, no job runs and none will.
THEOREM CleanShutdownDrained == Spec => []CleanMeansDrained
<1>1. DrainInv => CleanMeansDrained
  BY DEF DrainInv, Types, CleanMeansDrained, Quiet
<1> QED
  BY <1>1, DrainInvHolds, PTL

-----------------------------------------------------------------------------
\* A set of natural numbers has a least one.
LEMMA LeastNatural ==
  ASSUME NEW T \in SUBSET Nat, T # {}
  PROVE  \E x \in T : \A y \in T : x <= y
<1>1. PICK x \in T : \A y \in T : ~(<<y, x>> \in OpToRel(<, Nat))
  BY NatLessThanWellFounded, WFMin
<1>2. \A y \in T : y < x => <<y, x>> \in OpToRel(<, Nat)
  <2>1. OpToRel(<, Nat) = {ss \in Nat \X Nat : ss[1] < ss[2]}
    BY DEF OpToRel
  <2>2. ASSUME NEW y \in Nat, NEW z \in Nat, y < z
        PROVE  <<y, z>> \in {ss \in Nat \X Nat : ss[1] < ss[2]}
    BY <2>2
  <2> QED
    BY <2>1, <2>2
<1>3. \A y \in T : ~(y < x)
  BY <1>1, <1>2, Zenon
<1> QED
  BY <1>3

\* errors.As returns the first node that fits, and 0 if none does.
LEMMA AsFinds ==
  ASSUME NEW err, NEW X, err.nodes \in Seq(X), NEW types
  PROVE  /\ As(err, types) \in 0 .. Len(err.nodes)
         /\ As(err, types) = 0 <=> \A i \in 1 .. Len(err.nodes) : err.nodes[i].type \notin types
         /\ As(err, types) # 0 => err.nodes[As(err, types)].type \in types
         /\ \A i \in 1 .. Len(err.nodes) : err.nodes[i].type \in types => As(err, types) <= i
<1> DEFINE hits == {i \in DOMAIN err.nodes : err.nodes[i].type \in types}
<1>1. Len(err.nodes) \in Nat /\ DOMAIN err.nodes = 1 .. Len(err.nodes)
  OBVIOUS
<1>2. CASE hits = {}
  BY <1>1, <1>2 DEF As
<1>3. CASE hits # {}
  <2>1. \E x \in hits : \A y \in hits : x <= y
    <3>1. hits \in SUBSET Nat
      BY <1>1
    <3> HIDE DEF hits
    <3> QED
      BY <1>3, <3>1, LeastNatural
  <2>2. As(err, types) \in hits /\ \A y \in hits : As(err, types) <= y
    BY <1>3, <2>1 DEF As
  <2> QED
    BY <1>1, <1>3, <2>2
<1> QED
  BY <1>2, <1>3

\* errors.Is answers whether a node fits.
LEMMA IsFinds ==
  ASSUME NEW err, err.nodes \in Seq(Nodes), NEW type
  PROVE  Is(err, type) <=> \E i \in 1 .. Len(err.nodes) : err.nodes[i].type = type
BY AsFinds DEF Is

\* The tables of codes.
LEMMA TablesFit ==
  /\ \A c \in Codes : HTTP[c] \in 400 .. 503
  /\ \A s \in Semantics : SemanticErrorToHTTP[s] \in 200 .. 503
  /\ \A s \in Semantics : codeFromSemantic[s] \in Codes \cup {"none"}
<1>1. \A c \in Codes : HTTP[c] \in 400 .. 503
  BY DEF HTTP, Codes
<1>2. \A s \in Semantics : SemanticErrorToHTTP[s] \in 200 .. 503
  BY DEF SemanticErrorToHTTP, Semantics
<1>3. \A s \in Semantics : codeFromSemantic[s] \in Codes \cup {"none"}
  BY DEF codeFromSemantic, Semantics, Codes
<1> QED
  BY <1>1, <1>2, <1>3

Apart == {"NotImplemented", "Canceled", "SkipError", "PartialSuccess", "Unknown"}

\* The two tables agree on the other semantics.
LEMMA TablesAgree ==
  ASSUME NEW s \in Semantics \ Apart
  PROVE  codeFromSemantic[s] # "none" /\ HTTP[codeFromSemantic[s]] = SemanticErrorToHTTP[s]
<1>1. /\ codeFromSemantic["InvalidInput"] = "InvalidArgument" /\ codeFromSemantic["Authentication"] = "Unauthenticated"
      /\ codeFromSemantic["Forbidden"] = "PermissionDenied" /\ codeFromSemantic["NotFound"] = "NotFound"
      /\ codeFromSemantic["FailedPrecondition"] = "FailedPrecondition" /\ codeFromSemantic["AlreadyExists"] = "AlreadyExists"
      /\ codeFromSemantic["ResourceLocked"] = "Locked" /\ codeFromSemantic["TooManyRequests"] = "TooManyRequests"
      /\ codeFromSemantic["Unprocessable"] = "Unprocessable" /\ codeFromSemantic["NotAcceptable"] = "NotAcceptable"
      /\ codeFromSemantic["Timeout"] = "DeadlineExceeded" /\ codeFromSemantic["Unavailable"] = "Unavailable"
      /\ codeFromSemantic["Internal"] = "Internal"
  BY DEF codeFromSemantic, Semantics
<1>2. /\ HTTP["InvalidArgument"] = 400 /\ HTTP["Unauthenticated"] = 401
      /\ HTTP["PermissionDenied"] = 404 /\ HTTP["NotFound"] = 404
      /\ HTTP["FailedPrecondition"] = 412 /\ HTTP["AlreadyExists"] = 409
      /\ HTTP["Locked"] = 423 /\ HTTP["TooManyRequests"] = 429
      /\ HTTP["Unprocessable"] = 422 /\ HTTP["NotAcceptable"] = 406
      /\ HTTP["DeadlineExceeded"] = 408 /\ HTTP["Unavailable"] = 503
      /\ HTTP["Internal"] = 500
  BY DEF HTTP, Codes
<1>3. /\ SemanticErrorToHTTP["InvalidInput"] = 400 /\ SemanticErrorToHTTP["Authentication"] = 401
      /\ SemanticErrorToHTTP["Forbidden"] = 404 /\ SemanticErrorToHTTP["NotFound"] = 404
      /\ SemanticErrorToHTTP["FailedPrecondition"] = 412 /\ SemanticErrorToHTTP["AlreadyExists"] = 409
      /\ SemanticErrorToHTTP["ResourceLocked"] = 423 /\ SemanticErrorToHTTP["TooManyRequests"] = 429
      /\ SemanticErrorToHTTP["Unprocessable"] = 422 /\ SemanticErrorToHTTP["NotAcceptable"] = 406
      /\ SemanticErrorToHTTP["Timeout"] = 408 /\ SemanticErrorToHTTP["Unavailable"] = 503
      /\ SemanticErrorToHTTP["Internal"] = 500
  BY DEF SemanticErrorToHTTP, Semantics
<1> QED
  BY <1>1, <1>2, <1>3 DEF Semantics, Apart

\* FromError finds a code, whatever the error.
LEMMA FromErrorFits ==
  ASSUME NEW err, IsError(err)
  PROVE  FromError(err) \in Codes
<1>1. /\ codeFromContext(err) \in Codes \cup {"none"}
      /\ codeFromDNSErr(err) \in Codes \cup {"none"}
      /\ codeFromOgenerr(err) \in Codes \cup {"none"}
      /\ codeFromPGDriver(err) \in Codes \cup {"none"}
      /\ codeFromNetworkErr(err) \in Codes \cup {"none"}
  BY DEF codeFromContext, codeFromDNSErr, codeFromOgenerr, codeFromPGDriver, codeFromNetworkErr, Codes
<1>2. codeFromSemerr(err) \in Codes \cup {"none"}
  BY AsFinds, TablesFit DEF codeFromSemerr, AsSemanticError, Semantic, IsError
<1>3. As(err, {"status"}) # 0 => err.nodes[As(err, {"status"})].value \in Codes
  BY AsFinds DEF IsError
<1>4. "Unknown" \in Codes
  BY DEF Codes
<1> QED
  BY <1>1, <1>2, <1>3, <1>4 DEF FromError, OrElse

\* e has the nodes of err but the first d.
IsTail(e, err, d) ==
  /\ d \in 0 .. Len(err.nodes)
  /\ e.nodes \in Seq(Nodes) /\ Len(e.nodes) = Len(err.nodes) - d
  /\ \A k \in 1 .. Len(e.nodes) : e.nodes[k] = err.nodes[k + d]

\* What a wrapper wraps is a tail of the chain, and so is what starts at a wrapper.
LEMMA BelowIsTail ==
  ASSUME NEW err, err.nodes \in Seq(Nodes), NEW c \in 1 .. Len(err.nodes)
  PROVE  IsTail(Below(err, c), err, c)
BY DEF Below, IsTail

LEMMA FromIsTail ==
  ASSUME NEW err, err.nodes \in Seq(Nodes), NEW i \in 1 .. Len(err.nodes), i <= err.spine
  PROVE  IsTail(From(err, i), err, i - 1)
<1>1. From(err, i).nodes = SubSeq(err.nodes, i, Len(err.nodes))
  BY DEF From
<1> QED
  BY <1>1 DEF IsTail

\* A wrapper is put before the chain.
LEMMA WrapFits ==
  ASSUME NEW err, err.nodes \in Seq(Nodes), NEW node \in Nodes
  PROVE  /\ Wrap(node, err).nodes \in Seq(Nodes)
         /\ Len(Wrap(node, err).nodes) = Len(err.nodes) + 1
         /\ Wrap(node, err).nodes[1] = node
         /\ \A k \in 1 .. Len(err.nodes) : Wrap(node, err).nodes[k + 1] = err.nodes[k]
BY DEF Wrap

\* A codeerr wraps an error.
LEMMA BelowFits ==
  ASSUME NEW err, IsError(err), NEW c \in 1 .. Len(err.nodes), err.nodes[c].type = "codeerr"
  PROVE  IsError(Below(err, c))
<1> DEFINE e == Below(err, c)
<1>1. IsTail(e, err, c) /\ c <= err.spine /\ c < Len(err.nodes)
  BY BelowIsTail DEF IsError
<1>2. e.spine = err.spine - c /\ err.spine \in 0 .. Len(err.nodes)
  BY DEF Below, IsError
<1> HIDE DEF e
<1>3. Len(err.nodes) \in Nat
  BY DEF IsError
<1> SUFFICES IsError(e)
  BY DEF e
<1>4. ASSUME NEW i \in 1 .. Len(e.nodes)
      PROVE  /\ e.nodes[i] = err.nodes[i + c] /\ i + c \in 1 .. Len(err.nodes)
             /\ i + c <= err.spine <=> i <= e.spine
             /\ i + c < Len(err.nodes) <=> i < Len(e.nodes)
  <2> DEFINE m == Len(e.nodes)
             n == Len(err.nodes)
  <2>1. e.nodes[i] = err.nodes[i + c]
    BY <1>1 DEF IsTail
  <2>2. m = n - c /\ n \in Nat /\ c \in 1 .. n /\ c < n /\ i \in 1 .. m
    BY <1>1, <1>3 DEF IsTail
  <2> HIDE DEF m, n
  <2>3. i + c \in 1 .. n /\ (i + c < n <=> i < m)
    BY <2>2
  <2>4. i + c <= err.spine <=> i <= e.spine
    BY <1>2, <2>2 DEF n
  <2> QED
    BY <2>1, <2>3, <2>4 DEF m, n
<1>5. \A i \in 1 .. Len(e.nodes) :
       /\ e.nodes[i].type = "semerr" => e.nodes[i].value \in Semantics
       /\ e.nodes[i].type = "status" => e.nodes[i].value \in Codes
       /\ e.nodes[i].type \in {"codeerr", "fields"} => i <= e.spine /\ i < Len(e.nodes)
       /\ i <= e.spine /\ i < Len(e.nodes) => e.nodes[i].type \in WrapperTypes
  BY <1>4 DEF IsError
<1> QED
  BY <1>1, <1>2, <1>3, <1>5 DEF IsError, IsTail

\* mapNonSemantic knows a semantics for every error.
LEMMA MapFits ==
  ASSUME NEW err
  PROVE  SemanticNode(mapNonSemantic(err)) \in Nodes /\ mapNonSemantic(err) \in Semantics
BY DEF mapNonSemantic, Semantics, SemanticNode, Node, Nodes, WrapperTypes

\* What is presented starts with a semantic error.
LEMMA WrapWithSemanticFits ==
  ASSUME NEW err, IsError(err)
  PROVE  LET p == wrapWithSemantic(err) IN
         /\ p.nodes \in Seq(Nodes) /\ 1 <= Len(p.nodes)
         /\ p.nodes[1].type = "semerr" /\ p.nodes[1].value \in Semantics
<1> DEFINE s == AsSemanticError(err)
<1>0. err.nodes \in Seq(Nodes) /\ Len(err.nodes) \in Nat
  BY DEF IsError
<1>1. CASE s = 0
  <2>1. wrapWithSemantic(err) = Wrap(SemanticNode(mapNonSemantic(err)), err)
    BY <1>1 DEF wrapWithSemantic
  <2>2. /\ SemanticNode(mapNonSemantic(err)).type = "semerr"
        /\ SemanticNode(mapNonSemantic(err)).value = mapNonSemantic(err)
    BY DEF SemanticNode, Node
  <2> QED
    BY <1>0, <2>1, <2>2, MapFits, WrapFits
<1>2. CASE s # 0
  <2>1. s \in 1 .. Len(err.nodes) /\ err.nodes[s].type = "semerr" /\ err.nodes[s].value \in Semantics
    BY <1>0, <1>2, AsFinds DEF AsSemanticError, IsError
  <2>2. wrapWithSemantic(err) = From(err, s)
    BY <1>2 DEF wrapWithSemantic
  <2>3. CASE s <= err.spine
    <3>1. IsTail(From(err, s), err, s - 1)
      BY <1>0, <2>1, <2>3, FromIsTail
    <3>2. From(err, s).nodes[1] = err.nodes[s] /\ 1 <= Len(From(err, s).nodes)
          /\ From(err, s).nodes \in Seq(Nodes)
      BY <1>0, <2>1, <3>1 DEF IsTail
    <3> QED
      BY <2>1, <2>2, <3>2
  <2>4. CASE ~(s <= err.spine)
    <3>1. From(err, s).nodes = <<err.nodes[s]>>
      BY <2>4 DEF From, Leaf
    <3>2. err.nodes[s] \in Nodes
      BY <1>0, <2>1
    <3> QED
      BY <2>1, <2>2, <3>1, <3>2
  <2> QED
    BY <2>3, <2>4
<1> QED
  BY <1>1, <1>2

\* A chain that starts with a semantic error has that one's semantics.
LEMMA FirstIsSemantic ==
  ASSUME NEW p, p.nodes \in Seq(Nodes), 1 <= Len(p.nodes), p.nodes[1].type = "semerr"
  PROVE  AsSemanticError(p) = 1 /\ Semantic(p) = p.nodes[1].value
<1>1. AsSemanticError(p) = 1
  BY AsFinds DEF AsSemanticError
<1> QED
  BY <1>1 DEF Semantic

\* PresentError has an HTTP code for every error.
LEMMA PresentedFits ==
  ASSUME NEW err, IsError(err)
  PROVE  CodeFromSemanticError(Presented(err)) \in 200 .. 503
<1> DEFINE c == As(err, {"codeerr"})
           e == IF c = 0 THEN err ELSE Below(err, c)
<1>1. IsError(e)
  <2>1. c # 0 => c \in 1 .. Len(err.nodes) /\ err.nodes[c].type = "codeerr"
    BY AsFinds DEF IsError
  <2> QED
    BY <2>1, BelowFits
<1>2. Presented(err) = wrapWithSemantic(e)
  BY DEF Presented
<1> HIDE DEF e
<1>3. Semantic(Presented(err)) \in Semantics
  BY <1>1, <1>2, WrapWithSemanticFits, FirstIsSemantic
<1> QED
  BY <1>3, TablesFit DEF CodeFromSemanticError

-----------------------------------------------------------------------------
\* Chains without joins: only the last node is a foreign error.

Straight(e) == \A i \in 1 .. Len(e.nodes) : i < Len(e.nodes) => e.nodes[i].type \in WrapperTypes

LastType(e) == IF Len(e.nodes) = 0 THEN "none" ELSE e.nodes[Len(e.nodes)].type

\* A foreign error can only be found at the end of a straight chain.
LEMMA ForeignIsLast ==
  ASSUME NEW e, e.nodes \in Seq(Nodes), Straight(e), NEW types \in SUBSET Foreign
  PROVE  /\ As(e, types) # 0 <=> LastType(e) \in types
         /\ As(e, types) # 0 => e.nodes[As(e, types)].type = LastType(e)
<1> DEFINE a == As(e, types)
<1>1. /\ a \in 0 .. Len(e.nodes) /\ Len(e.nodes) \in Nat
      /\ a = 0 <=> \A i \in 1 .. Len(e.nodes) : e.nodes[i].type \notin types
      /\ a # 0 => e.nodes[a].type \in types
  BY AsFinds
<1>2. \A t \in types : t \notin WrapperTypes /\ t # "none"
  BY DEF Foreign, Ogen, WrapperTypes
<1> HIDE DEF a
<1>3. a # 0 => a = Len(e.nodes)
  BY <1>1, <1>2 DEF Straight
<1>4. a # 0 <=> LastType(e) \in types
  BY <1>1, <1>2, <1>3 DEF LastType
<1>5. a # 0 => e.nodes[a].type = LastType(e)
  BY <1>1, <1>3 DEF LastType
<1> QED
  BY <1>4, <1>5 DEF a

LEMMA IsLast ==
  ASSUME NEW e, e.nodes \in Seq(Nodes), Straight(e), NEW type \in Foreign
  PROVE  Is(e, type) <=> LastType(e) = type
<1>1. {type} \in SUBSET Foreign
  OBVIOUS
<1> QED
  BY <1>1, ForeignIsLast DEF Is

\* What each translation makes of the last node.
LEMMA ByLast ==
  ASSUME NEW e, e.nodes \in Seq(Nodes), Straight(e)
  PROVE  LET t == LastType(e) IN
         /\ codeFromContext(e) = IF t = "canceled" THEN "Canceled"
                                 ELSE IF t = "deadline" THEN "DeadlineExceeded" ELSE "none"
         /\ codeFromDNSErr(e) = IF t = "dnsCanceled" THEN "Canceled" ELSE "none"
         /\ codeFromOgenerr(e) = IF t = "security" THEN "Unauthenticated"
                                 ELSE IF t \in {"decodeParams", "decodeRequest"} THEN "InvalidArgument"
                                 ELSE "none"
         /\ codeFromPGDriver(e) = IF t = "pgConnection" THEN "Unavailable"
                                  ELSE IF t = "pgOther" THEN "Unknown" ELSE "none"
         /\ IsNetworkErrTranslatesToUnavailable(e) <=> t \in {"reset", "refused", "timeout", "deadline"}
<1> DEFINE t == LastType(e)
<1>1. \A x \in Foreign : Is(e, x) <=> t = x
  BY IsLast
<1>2. \A types \in SUBSET Foreign : /\ As(e, types) # 0 <=> t \in types
                                    /\ As(e, types) # 0 => e.nodes[As(e, types)].type = t
  BY ForeignIsLast
<1> HIDE DEF t
<1>3. /\ {"canceled", "deadline", "dnsCanceled", "reset", "refused"} \subseteq Foreign
      /\ Ogen \in SUBSET Foreign /\ {"pgConnection", "pgOther"} \in SUBSET Foreign
      /\ {"timeout", "deadline", "dnsCanceled", "epipe"} \in SUBSET Foreign
  BY DEF Foreign
<1>4. codeFromContext(e) = IF t = "canceled" THEN "Canceled"
                           ELSE IF t = "deadline" THEN "DeadlineExceeded" ELSE "none"
  BY <1>1, <1>3 DEF codeFromContext
<1>5. codeFromDNSErr(e) = IF t = "dnsCanceled" THEN "Canceled" ELSE "none"
  BY <1>1, <1>3 DEF codeFromDNSErr
<1>6. codeFromOgenerr(e) = IF t = "security" THEN "Unauthenticated"
                           ELSE IF t \in {"decodeParams", "decodeRequest"} THEN "InvalidArgument"
                           ELSE "none"
  <2>1. /\ As(e, Ogen) # 0 <=> t \in Ogen
        /\ As(e, Ogen) # 0 => e.nodes[As(e, Ogen)].type = t
    BY <1>2, <1>3
  <2> QED
    BY <2>1 DEF codeFromOgenerr, Ogen
<1>7. codeFromPGDriver(e) = IF t = "pgConnection" THEN "Unavailable"
                            ELSE IF t = "pgOther" THEN "Unknown" ELSE "none"
  <2> DEFINE pg == {"pgConnection", "pgOther"}
  <2>1. /\ As(e, pg) # 0 <=> t \in pg
        /\ As(e, pg) # 0 => e.nodes[As(e, pg)].type = t
    BY <1>2, <1>3
  <2> QED
    BY <2>1 DEF codeFromPGDriver
<1>8. IsNetworkErrTranslatesToUnavailable(e) <=> t \in {"reset", "refused", "timeout", "deadline"}
  <2> DEFINE net == {"timeout", "deadline", "dnsCanceled", "epipe"}
  <2>1. /\ As(e, net) # 0 <=> t \in net
        /\ As(e, net) # 0 => e.nodes[As(e, net)].type = t
    BY <1>2, <1>3
  <2>2. (Is(e, "reset") <=> t = "reset") /\ (Is(e, "refused") <=> t = "refused")
    BY <1>1, <1>3
  <2> QED
    BY <2>1, <2>2 DEF IsNetworkErrTranslatesToUnavailable
<1> QED
  BY <1>4, <1>5, <1>6, <1>7, <1>8 DEF t

\* What mapNonSemantic makes of the last node.
LEMMA MapByLast ==
  ASSUME NEW e, e.nodes \in Seq(Nodes), Straight(e)
  PROVE  LET t == LastType(e) IN
         mapNonSemantic(e) =
           IF t = "canceled" THEN "Canceled"
           ELSE IF t \in {"decodeParams", "decodeRequest"} THEN "InvalidInput"
           ELSE IF t = "security" THEN "Authentication"
           ELSE IF t \in {"pgConnection", "reset", "refused", "timeout", "deadline"} THEN "Unavailable"
           ELSE IF t = "dnsCanceled" THEN "Canceled" ELSE "Internal"
<1> DEFINE t == LastType(e)
<1>1. \A x \in {"canceled", "decodeParams", "decodeRequest", "security", "dnsCanceled"} : Is(e, x) <=> t = x
  BY IsLast DEF Foreign, Ogen
<1>2. semerrFromPGDriver(e) <=> t = "pgConnection"
  BY ByLast DEF semerrFromPGDriver
<1>3. IsNetworkErrTranslatesToUnavailable(e) <=> t \in {"reset", "refused", "timeout", "deadline"}
  BY ByLast
<1> HIDE DEF t
<1> QED
  BY <1>1, <1>2, <1>3 DEF mapNonSemantic, t

\* A tail that is not empty is straight and ends in the same node.
LEMMA TailIsStraight ==
  ASSUME NEW err, err.nodes \in Seq(Nodes), Straight(err), NEW e, NEW d, IsTail(e, err, d),
         d < Len(err.nodes)
  PROVE  Straight(e) /\ LastType(e) = LastType(err)
<1>1. Len(err.nodes) \in Nat /\ d \in 0 .. Len(err.nodes) /\ Len(e.nodes) = Len(err.nodes) - d
  BY DEF IsTail
<1>2. Straight(e)
  <2> SUFFICES ASSUME NEW i \in 1 .. Len(e.nodes), i < Len(e.nodes)
               PROVE  e.nodes[i].type \in WrapperTypes
    BY DEF Straight
  <2>1. e.nodes[i] = err.nodes[i + d]
    BY DEF IsTail
  <2>2. i + d \in 1 .. Len(err.nodes) /\ i + d < Len(err.nodes)
    BY <1>1
  <2> QED
    BY <2>1, <2>2 DEF Straight
<1>3. e.nodes[Len(e.nodes)] = err.nodes[Len(err.nodes)]
  BY <1>1 DEF IsTail
<1> QED
  BY <1>1, <1>2, <1>3 DEF LastType

\* The first semantic error of a tail that has it.
LEMMA SemanticOfTail ==
  ASSUME NEW err, err.nodes \in Seq(Nodes), NEW e, NEW d, IsTail(e, err, d)
  PROVE  /\ AsSemanticError(err) = 0 => AsSemanticError(e) = 0
         /\ d < AsSemanticError(err) => AsSemanticError(e) = AsSemanticError(err) - d
<1> DEFINE s == AsSemanticError(err)
           r == AsSemanticError(e)
<1>1. /\ s \in 0 .. Len(err.nodes)
      /\ s = 0 <=> \A i \in 1 .. Len(err.nodes) : err.nodes[i].type # "semerr"
      /\ s # 0 => err.nodes[s].type = "semerr"
      /\ \A i \in 1 .. Len(err.nodes) : err.nodes[i].type = "semerr" => s <= i
  BY AsFinds DEF AsSemanticError
<1>2. /\ r \in 0 .. Len(e.nodes)
      /\ r = 0 <=> \A i \in 1 .. Len(e.nodes) : e.nodes[i].type # "semerr"
      /\ r # 0 => e.nodes[r].type = "semerr"
      /\ \A i \in 1 .. Len(e.nodes) : e.nodes[i].type = "semerr" => r <= i
  <2>1. e.nodes \in Seq(Nodes)
    BY DEF IsTail
  <2> QED
    BY <2>1, AsFinds DEF AsSemanticError
<1> HIDE DEF s, r
<1>3. Len(err.nodes) \in Nat /\ d \in 0 .. Len(err.nodes) /\ Len(e.nodes) = Len(err.nodes) - d
      /\ \A k \in 1 .. Len(e.nodes) : e.nodes[k] = err.nodes[k + d] /\ k + d \in 1 .. Len(err.nodes)
  BY DEF IsTail
<1>4. s = 0 => r = 0
  BY <1>1, <1>2, <1>3
<1>5. ASSUME d < s
      PROVE  r = s - d
  <2>1. s - d \in 1 .. Len(e.nodes) /\ e.nodes[s - d] = err.nodes[s]
    BY <1>1, <1>3, <1>5
  <2>2. err.nodes[s].type = "semerr"
    BY <1>1, <1>3, <1>5
  <2>3. r # 0 /\ r <= s - d
    BY <1>2, <2>1, <2>2
  <2>4. r \in 1 .. Len(e.nodes) /\ e.nodes[r].type = "semerr"
    BY <1>2, <1>3, <2>3
  <2>5. e.nodes[r] = err.nodes[r + d] /\ r + d \in 1 .. Len(err.nodes)
    BY <1>3, <2>4
  <2>6. s <= r + d
    BY <1>1, <2>4, <2>5
  <2> QED
    BY <1>1, <1>2, <1>3, <2>3, <2>6
<1> QED
  BY <1>4, <1>5 DEF s, r

\* What PresentStatus finds in a chain without a Status, a deadline or a
\* canceled lookup.
LEMMA StatusOf ==
  ASSUME NEW err, IsError(err), Straight(err), As(err, {"status"}) = 0,
         LastType(err) \notin {"deadline", "dnsCanceled"}
  PROVE  LET t == LastType(err) IN
         FromError(err) =
           IF t = "canceled" THEN "Canceled"
           ELSE IF codeFromSemerr(err) # "none" THEN codeFromSemerr(err)
           ELSE IF t = "security" THEN "Unauthenticated"
           ELSE IF t \in {"decodeParams", "decodeRequest"} THEN "InvalidArgument"
           ELSE IF t \in {"pgConnection", "reset", "refused", "timeout"} THEN "Unavailable"
           ELSE "Unknown"
<1>1. err.nodes \in Seq(Nodes)
  BY DEF IsError
<1> DEFINE t == LastType(err)
<1>2. /\ codeFromContext(err) = IF t = "canceled" THEN "Canceled"
                                 ELSE IF t = "deadline" THEN "DeadlineExceeded" ELSE "none"
      /\ codeFromDNSErr(err) = IF t = "dnsCanceled" THEN "Canceled" ELSE "none"
      /\ codeFromOgenerr(err) = IF t = "security" THEN "Unauthenticated"
                                ELSE IF t \in {"decodeParams", "decodeRequest"} THEN "InvalidArgument"
                                ELSE "none"
      /\ codeFromPGDriver(err) = IF t = "pgConnection" THEN "Unavailable"
                                 ELSE IF t = "pgOther" THEN "Unknown" ELSE "none"
      /\ codeFromNetworkErr(err) = IF t \in {"reset", "refused", "timeout", "deadline"}
                                   THEN "Unavailable" ELSE "none"
  BY <1>1, ByLast DEF codeFromNetworkErr
<1> HIDE DEF t
<1>3. t \notin {"deadline", "dnsCanceled"}
  BY DEF t
<1> QED
  BY <1>2, <1>3 DEF FromError, OrElse, t

\* errors.go and compat.go, for chains of any length.
LEMMA SameCode ==
  ASSUME NEW err, IsError(err), err.spine = Len(err.nodes),
         \A type \in {"status", "deadline", "dnsCanceled"} : ~Is(err, type),
         As(err, {"codeerr"}) < AsSemanticError(err) \/ AsSemanticError(err) = 0,
         AsSemanticError(err) # 0 => Semantic(err) \notin Apart
  PROVE  CodeFromSemanticError(Presented(err)) = HTTP[FromError(err)]
<1> DEFINE c == As(err, {"codeerr"})
           s == AsSemanticError(err)
           e == IF c = 0 THEN err ELSE Below(err, c)
           p == Presented(err)
           t == LastType(err)
<1>1. err.nodes \in Seq(Nodes) /\ Len(err.nodes) \in Nat /\ Straight(err)
  BY DEF IsError, Straight
<1>2. As(err, {"status"}) = 0 /\ t \notin {"deadline", "dnsCanceled"}
  <2>1. ~Is(err, "status") /\ ~Is(err, "deadline") /\ ~Is(err, "dnsCanceled")
    OBVIOUS
  <2>2. "deadline" \in Foreign /\ "dnsCanceled" \in Foreign
    BY DEF Foreign
  <2> QED
    BY <1>1, <2>1, <2>2, IsLast DEF Is
<1>3. c \in 0 .. Len(err.nodes) /\ (c # 0 => c < Len(err.nodes))
  BY <1>1, AsFinds DEF IsError
<1>4. IsTail(e, err, c) /\ e.spine = Len(e.nodes)
  <2>1. CASE c = 0
    BY <1>1, <2>1 DEF IsTail
  <2>2. CASE c # 0
    <3>1. c \in 1 .. Len(err.nodes) /\ e = Below(err, c)
      BY <1>3, <2>2
    <3>2. IsTail(e, err, c)
      BY <1>1, <3>1, BelowIsTail
    <3>3. e.spine = err.spine - c
      BY <3>1 DEF Below
    <3> QED
      BY <3>2, <3>3 DEF IsTail
  <2> QED
    BY <2>1, <2>2
<1>5. Straight(e) /\ LastType(e) = t /\ e.nodes \in Seq(Nodes) /\ Len(e.nodes) \in Nat
  <2>1. CASE c = 0
    BY <1>1, <2>1
  <2>2. CASE c # 0
    <3> HIDE DEF e, c
    <3>1. c < Len(err.nodes)
      BY <1>3, <2>2
    <3>2. Straight(e) /\ LastType(e) = LastType(err)
      BY <1>1, <1>4, <3>1, TailIsStraight
    <3>3. e.nodes \in Seq(Nodes)
      BY <1>4 DEF IsTail
    <3> QED
      BY <3>2, <3>3
  <2> QED
    BY <2>1, <2>2
<1>6. p = wrapWithSemantic(e)
  BY DEF Presented
<1>7. "canceled" \in Foreign
  BY DEF Foreign
<1>8. HTTP["Canceled"] = 499
  BY DEF HTTP, Codes
<1>9. CASE s = 0
  <2>1. AsSemanticError(e) = 0
    <3> HIDE DEF e, c
    <3> QED
      BY <1>1, <1>4, <1>9, SemanticOfTail
  <2> DEFINE m == mapNonSemantic(e)
  <2>2. p = Wrap(SemanticNode(m), e)
    BY <1>6, <2>1 DEF wrapWithSemantic
  <2>3. SemanticNode(m) \in Nodes /\ SemanticNode(m).type = "semerr" /\ SemanticNode(m).value = m
    BY MapFits DEF SemanticNode, Node
  <2> HIDE DEF e, m, p, c, s, t
  <2>4. /\ p.nodes \in Seq(Nodes) /\ Len(p.nodes) = Len(e.nodes) + 1 /\ p.nodes[1] = SemanticNode(m)
        /\ \A k \in 1 .. Len(e.nodes) : p.nodes[k + 1] = e.nodes[k]
    BY <1>5, <2>2, <2>3, WrapFits
  <2>5. Semantic(p) = m
    BY <1>5, <2>3, <2>4, FirstIsSemantic
  <2>6. Is(p, "canceled") <=> t = "canceled"
    <3>1. Is(e, "canceled") <=> t = "canceled"
      BY <1>5, <1>7, IsLast
    <3>2. Is(p, "canceled") <=> \E i \in 1 .. Len(p.nodes) : p.nodes[i].type = "canceled"
      BY <2>4, IsFinds
    <3>3. Is(e, "canceled") <=> \E i \in 1 .. Len(e.nodes) : e.nodes[i].type = "canceled"
      BY <1>5, IsFinds
    <3>4. ASSUME NEW i \in 1 .. Len(p.nodes), p.nodes[i].type = "canceled"
          PROVE  \E k \in 1 .. Len(e.nodes) : e.nodes[k].type = "canceled"
      <4>1. i # 1
        BY <2>3, <2>4, <3>4
      <4>2. i - 1 \in 1 .. Len(e.nodes) /\ p.nodes[(i - 1) + 1] = e.nodes[i - 1] /\ (i - 1) + 1 = i
        BY <1>5, <2>4, <4>1
      <4> QED
        BY <3>4, <4>2
    <3>5. ASSUME NEW k \in 1 .. Len(e.nodes), e.nodes[k].type = "canceled"
          PROVE  \E i \in 1 .. Len(p.nodes) : p.nodes[i].type = "canceled"
      <4>1. k + 1 \in 1 .. Len(p.nodes) /\ p.nodes[k + 1].type = "canceled"
        BY <1>5, <2>4, <3>5
      <4> QED
        BY <4>1
    <3> QED
      BY <3>1, <3>2, <3>3, <3>4, <3>5
  <2>7. m = IF t = "canceled" THEN "Canceled"
            ELSE IF t \in {"decodeParams", "decodeRequest"} THEN "InvalidInput"
            ELSE IF t = "security" THEN "Authentication"
            ELSE IF t \in {"pgConnection", "reset", "refused", "timeout", "deadline"} THEN "Unavailable"
            ELSE IF t = "dnsCanceled" THEN "Canceled" ELSE "Internal"
    BY <1>5, MapByLast DEF m
  <2>8. codeFromSemerr(err) = "none"
    BY <1>9 DEF codeFromSemerr, s
  <2>9. FromError(err) = IF t = "canceled" THEN "Canceled"
           ELSE IF t = "security" THEN "Unauthenticated"
           ELSE IF t \in {"decodeParams", "decodeRequest"} THEN "InvalidArgument"
           ELSE IF t \in {"pgConnection", "reset", "refused", "timeout"} THEN "Unavailable"
           ELSE "Unknown"
    BY <1>1, <1>2, <2>8, StatusOf DEF t
  <2>10. /\ HTTP["Unauthenticated"] = 401 /\ HTTP["InvalidArgument"] = 400
         /\ HTTP["Unavailable"] = 503 /\ HTTP["Unknown"] = 500
    BY DEF HTTP, Codes
  <2>11. /\ SemanticErrorToHTTP["Authentication"] = 401 /\ SemanticErrorToHTTP["InvalidInput"] = 400
         /\ SemanticErrorToHTTP["Unavailable"] = 503 /\ SemanticErrorToHTTP["Internal"] = 500
    BY DEF SemanticErrorToHTTP, Semantics
  <2>12. CodeFromSemanticError(p) = IF t = "canceled" THEN 499 ELSE SemanticErrorToHTTP[m]
    BY <2>5, <2>6 DEF CodeFromSemanticError
  <2> QED
    BY <1>2, <1>8, <2>7, <2>9, <2>10, <2>11, <2>12 DEF p
<1>10. CASE s # 0
  <2>1. s \in 1 .. Len(err.nodes) /\ err.nodes[s].type = "semerr" /\ err.nodes[s].value \in Semantics
    BY <1>1, <1>10, AsFinds DEF AsSemanticError, IsError
  <2>2. c < s
    BY <1>10
  <2>3. AsSemanticError(e) = s - c /\ s - c \in 1 .. Len(e.nodes)
    <3> HIDE DEF e, c, s
    <3>1. AsSemanticError(e) = s - c
      BY <1>1, <1>4, <2>2, SemanticOfTail DEF s
    <3> QED
      BY <1>1, <1>3, <1>4, <2>1, <2>2, <3>1 DEF IsTail
  <2>4. p = From(e, s - c)
    BY <1>6, <2>2, <2>3, <1>3 DEF wrapWithSemantic
  <2> HIDE DEF e, c, s, t, p
  <2>5. IsTail(p, e, s - c - 1)
    BY <1>4, <1>5, <2>3, <2>4, FromIsTail
  <2>6. Straight(p) /\ LastType(p) = t /\ p.nodes \in Seq(Nodes) /\ 1 <= Len(p.nodes)
        /\ p.nodes[1] = e.nodes[s - c]
    <3>1. s - c - 1 < Len(e.nodes) /\ s - c \in Int
      BY <1>5, <2>3
    <3>2. Straight(p) /\ LastType(p) = t
      BY <1>5, <2>5, <3>1, TailIsStraight
    <3> QED
      BY <1>5, <2>3, <2>5, <3>1, <3>2 DEF IsTail
  <2>7. e.nodes[s - c] = err.nodes[s]
    BY <1>1, <1>3, <1>4, <2>1, <2>3 DEF IsTail
  <2>8. Semantic(p) = err.nodes[s].value
    BY <2>1, <2>6, <2>7, FirstIsSemantic
  <2>9. Is(p, "canceled") <=> t = "canceled"
    BY <1>7, <2>6, IsLast
  <2>10. Semantic(err) = err.nodes[s].value /\ err.nodes[s].value \in Semantics \ Apart
    <3>1. Semantic(err) = err.nodes[s].value
      BY DEF Semantic, s
    <3> QED
      BY <1>10, <2>1, <3>1 DEF s
  <2>11. codeFromSemerr(err) = codeFromSemantic[err.nodes[s].value]
    BY <1>10, <2>10 DEF codeFromSemerr, s
  <2>12. /\ codeFromSemerr(err) # "none"
         /\ HTTP[codeFromSemerr(err)] = SemanticErrorToHTTP[err.nodes[s].value]
    BY <2>10, <2>11, TablesAgree
  <2>13. FromError(err) = IF t = "canceled" THEN "Canceled" ELSE codeFromSemerr(err)
    BY <1>1, <1>2, <2>12, StatusOf DEF t
  <2>14. CodeFromSemanticError(p) = IF t = "canceled" THEN 499 ELSE SemanticErrorToHTTP[err.nodes[s].value]
    BY <2>8, <2>9 DEF CodeFromSemanticError
  <2> QED
    BY <1>8, <2>12, <2>13, <2>14 DEF p
<1> QED
  BY <1>9, <1>10

-----------------------------------------------------------------------------
\* The two presenters give every error of a handler the same HTTP code, but for
\* the chains that PresentersAgree names (PresentError and PresentStatus of
\* openapiapp, over chains of any length).
THEOREM PresentersGiveOneCode == ServerSpec => []PresentersAgree
<1>1. ServerInit => plan \in Plans
  BY DEF ServerInit
<1>2. plan \in Plans /\ [ServerNext]_serverVars => (plan \in Plans)'
  <2>1. ASSUME plan \in Plans, [ServerNext]_serverVars
        PROVE  plan' = plan
    BY <2>1 DEF ServerNext, PassDown, SentryDown, TracingDown, MetricsDown, LoggingDown, HandlerAnswers,
                HandlerFails, HandlerPanics, PassUp, MetricsUp, LoggingUp, LoggingPanic, RecoveryPanic,
                Finish, serverVars
  <2> QED
    BY <2>1
<1>3. plan \in Plans => PresentersAgree
  <2> SUFFICES ASSUME plan \in Plans
               PROVE  PresentersAgree
    OBVIOUS
  <2> DEFINE err == plan.err
             semantics == {err.nodes[i].value : i \in {j \in DOMAIN err.nodes : err.nodes[j].type = "semerr"}}
  <2>1. IsError(err)
    BY PlansAssumption
  <2>2. ASSUME semantics \cap Apart = {}, AsSemanticError(err) # 0
        PROVE  Semantic(err) \notin Apart
    <3>1. /\ AsSemanticError(err) \in 1 .. Len(err.nodes)
          /\ err.nodes[AsSemanticError(err)].type = "semerr"
          /\ DOMAIN err.nodes = 1 .. Len(err.nodes)
      BY <2>1, <2>2, AsFinds DEF IsError, AsSemanticError
    <3>2. err.nodes[AsSemanticError(err)].value \in semantics
      BY <3>1
    <3> QED
      BY <3>2, <2>2 DEF Semantic
  <2> HIDE DEF semantics
  <2>3. ASSUME err.spine = Len(err.nodes), \A type \in {"status", "deadline", "dnsCanceled"} : ~Is(err, type),
               As(err, {"codeerr"}) < AsSemanticError(err) \/ AsSemanticError(err) = 0,
               semantics \cap Apart = {}
        PROVE  CodeFromSemanticError(Presented(err)) = HTTP[FromError(err)]
    BY <2>1, <2>2, <2>3, SameCode
  <2> QED
    BY <2>3 DEF PresentersAgree, semantics, Apart
<1> QED
  BY <1>1, <1>2, <1>3, PTL DEF ServerSpec

-----------------------------------------------------------------------------
Panics == {"panic", "headerThenPanic"}
Detached == Entry("detached", 0)
LoggedPanic == Entry("panic", 500)

\* A middleware of this kind is at layer n or outside it.
Within(name, n) == \E i \in 1 .. Len(chain) : i <= n /\ chain[i] = name

ServerTypes ==
  /\ chain \in Chains /\ plan \in Plans
  /\ pos \in 0 .. Len(chain) + 1 /\ dir \in {"down", "up", "panic"}
  /\ hdr \in Nat /\ reports \in Nat
  /\ saved \in [1 .. Len(chain) -> Nat]
  /\ objs \in [{1, 2} -> [sentry : BOOLEAN, place : BOOLEAN]]
  /\ counted \in Seq(Nat)

\* On the way down nothing is said about the request, and the context a layer
\* sees has what the layers outside it have put there.
GoingDown ==
  dir = "down" =>
    /\ 1 <= pos
    /\ hdr = 0 /\ logs = << >> /\ counted = << >> /\ reports = 0
    /\ Within("Sentry", pos - 1) => objs[Obj(pos)].sentry
    /\ Within("Logging", pos - 1) => objs[Obj(pos)].place

\* After a handler that has returned every writer above remembers the status
\* of the client, and what was said about the request says the same.
GoingUp ==
  dir = "up" /\ plan.how \notin Panics =>
    /\ pos <= Len(chain)
    /\ hdr = IF plan.how = "ok" THEN 200 ELSE CodeOf(plan.err)
    /\ \A i \in 1 .. Len(chain) : i <= pos /\ chain[i] \in {"Logging", "Metrics"} => saved[i] = hdr
    /\ \A i \in 1 .. Len(counted) : counted[i] = hdr
    /\ IF Within("Logging", pos) THEN logs = << >>
       ELSE \E kind \in {"success", "error", "canceled"} : logs = <<Entry(kind, hdr)>>
    /\ plan.how = "error" => reports = IF shouldSkipSentry(PresentedBy(plan.err)) THEN 0 ELSE 1

\* A panic has not passed the recovery, and has been logged on its way.
Unwinding ==
  dir = "panic" =>
    /\ plan.how \in Panics /\ 1 <= pos /\ pos <= Len(chain)
    /\ thrown = UnwrapPanic(plan.err)
    /\ plan.how = "panic" => hdr = 0
    /\ logs = IF Within("Logging", pos) \/ Is(thrown, "abort") THEN << >> ELSE <<LoggedPanic>>

\* The recovery has answered, or has been silent on purpose.
Recovered ==
  dir = "up" /\ plan.how \in Panics =>
    /\ pos = 0
    /\ thrown = UnwrapPanic(plan.err)
    /\ plan.how = "panic" /\ ~Hushed(thrown) => hdr = CodeOf(thrown)
    /\ IF Is(thrown, "abort") THEN logs = << >>
       ELSE logs \in {<<LoggedPanic>>, <<LoggedPanic, Detached>>}

ServerInv == ServerTypes /\ GoingDown /\ GoingUp /\ Unwinding /\ Recovered

\* What the order of the middlewares says about a layer.
LEMMA ChainOrder ==
  ASSUME chain \in Chains
  PROVE  /\ Len(chain) \in Nat /\ 1 <= Len(chain)
         /\ DOMAIN chain = 1 .. Len(chain)
         /\ \A i \in 1 .. Len(chain) : chain[i] \in Middlewares /\ (chain[i] = "Recovery" <=> i = 1)
         /\ Within("Logging", Len(chain)) /\ Within("Sentry", Len(chain))
         /\ \A n \in 1 .. Len(chain) :
              /\ chain[n] = "Logging" => ~Within("Logging", n - 1) /\ Within("Sentry", n - 1)
              /\ chain[n] = "Tracing" => ~Within("Logging", n - 1)
<1>1. WellOrdered(chain)
  BY ChainsAssumption
<1>2. /\ Len(chain) \in Nat /\ 1 <= Len(chain) /\ DOMAIN chain = 1 .. Len(chain)
      /\ \A i \in 1 .. Len(chain) : chain[i] \in Middlewares /\ (chain[i] = "Recovery" <=> i = 1)
  BY <1>1 DEF WellOrdered
<1>3. PICK i \in 1 .. Len(chain), j \in 1 .. Len(chain) :
        /\ i < j /\ chain[i] = "Sentry" /\ chain[j] = "Logging"
        /\ \A k \in 1 .. Len(chain) : (chain[k] = "Logging" => k = j) /\ (chain[k] = "Tracing" => k < j)
  BY <1>1 DEF WellOrdered
<1> QED
  BY <1>2, <1>3 DEF Within

\* A layer further in, one more middleware has been met.
LEMMA OneMore ==
  ASSUME chain \in Chains, NEW n \in 1 .. Len(chain), NEW name
  PROVE  Within(name, n) <=> Within(name, n - 1) \/ chain[n] = name
BY ChainOrder DEF Within

\* Nothing is outside the outermost layer.
LEMMA NoneAtTop ==
  ASSUME chain \in Chains, NEW name
  PROVE  ~Within(name, 0)
BY ChainOrder DEF Within

\* The copy of the request begins below the tracing.
LEMMA WhichRequest ==
  ASSUME chain \in Chains, NEW n \in 1 .. Len(chain)
  PROVE  /\ Obj(n) \in {1, 2}
         /\ Obj(n + 1) = IF chain[n] = "Tracing" THEN 2 ELSE Obj(n)
         /\ chain[n] = "Tracing" => Obj(n) = 1
<1>1. Len(chain) \in Nat /\ DOMAIN chain = 1 .. Len(chain)
  BY ChainOrder
<1>2. \A i, j \in 1 .. Len(chain) : chain[i] = "Tracing" /\ chain[j] = "Tracing" => i = j
  BY ChainsAssumption DEF WellOrdered
<1>3. Obj(n) \in {1, 2}
  BY DEF Obj
<1>4. Obj(n + 1) = IF chain[n] = "Tracing" THEN 2 ELSE Obj(n)
  BY <1>1 DEF Obj
<1>5. chain[n] = "Tracing" => Obj(n) = 1
  BY <1>1, <1>2 DEF Obj
<1> QED
  BY <1>3, <1>4, <1>5

\* Every error has a code, with any error handler.
LEMMA CodeFits ==
  ASSUME plan \in Plans, NEW err, IsError(err)
  PROVE  CodeOf(err) \in 200 .. 503
<1>1. CodeFromSemanticError(Presented(err)) \in 200 .. 503
  BY PresentedFits
<1>2. HTTP[FromError(err)] \in 200 .. 503
  <2>1. HTTP[FromError(err)] \in 400 .. 503
    BY FromErrorFits, TablesFit
  <2> QED
    BY <2>1
<1> QED
  BY <1>1, <1>2 DEF CodeOf

\* What a panic is turned into is an error.
LEMMA PanicIsError ==
  ASSUME plan \in Plans
  PROVE  IsError(plan.err) /\ IsError(UnwrapPanic(plan.err))
<1>1. IsError(plan.err)
  BY PlansAssumption
<1>2. IsError(Leaf(SemanticNode("Internal")))
  <2> DEFINE e == Leaf(SemanticNode("Internal"))
  <2>1. SemanticNode("Internal") \in Nodes /\ SemanticNode("Internal").type = "semerr"
        /\ SemanticNode("Internal").value \in Semantics
    BY DEF SemanticNode, Node, Nodes, WrapperTypes, Semantics
  <2>2. e.nodes = <<SemanticNode("Internal")>> /\ e.spine = 1
    BY DEF Leaf
  <2> HIDE DEF e
  <2>3. e.nodes \in Seq(Nodes) /\ Len(e.nodes) = 1 /\ e.nodes[1] = SemanticNode("Internal")
    BY <2>1, <2>2
  <2>4. IsError(e)
    BY <2>1, <2>2, <2>3 DEF IsError
  <2> QED
    BY <2>4 DEF e
<1> QED
  BY <1>1, <1>2 DEF UnwrapPanic

\* Where a request is, by the layer it is in.
LEMMA AtLayer ==
  ASSUME ServerTypes
  PROVE  /\ Layer # "handler" => pos \in 1 .. Len(chain) /\ Layer = chain[pos]
         /\ Layer = "handler" /\ 1 <= pos => pos = Len(chain) + 1
<1>1. /\ Len(chain) \in Nat /\ DOMAIN chain = 1 .. Len(chain)
      /\ \A i \in 1 .. Len(chain) : chain[i] \in Middlewares
  BY ChainOrder DEF ServerTypes
<1>2. pos \in 0 .. Len(chain) + 1
  BY DEF ServerTypes
<1> QED
  BY <1>1, <1>2 DEF Layer, Middlewares

\* A request that has just arrived satisfies the invariant.
LEMMA ServerStarts == ServerInit => ServerInv
<1> SUFFICES ASSUME ServerInit
             PROVE  ServerInv
  OBVIOUS
<1>1. /\ Len(chain) \in Nat /\ 1 <= Len(chain) /\ DOMAIN chain = 1 .. Len(chain)
  BY ChainOrder DEF ServerInit
<1>2. ServerTypes
  <2>1. saved \in [1 .. Len(chain) -> Nat]
    BY <1>1 DEF ServerInit
  <2>2. objs \in [{1, 2} -> [sentry : BOOLEAN, place : BOOLEAN]]
    BY DEF ServerInit
  <2> QED
    BY <1>1, <2>1, <2>2 DEF ServerInit, ServerTypes
<1>3. GoingDown
  <2>1. ~Within("Sentry", pos - 1) /\ ~Within("Logging", pos - 1)
    BY <1>1 DEF ServerInit, Within
  <2> QED
    BY <2>1 DEF ServerInit, GoingDown
<1> QED
  BY <1>2, <1>3 DEF ServerInit, ServerInv, GoingUp, Unwinding, Recovered

\* A step inwards keeps the invariant if it leaves in the context what the
\* layers outside the next one have put there.
LEMMA DownKeeps ==
  ASSUME ServerInv, dir = "down", pos \in 1 .. Len(chain), Descend,
         chain' = chain, plan' = plan, hdr' = hdr, logs' = logs, counted' = counted, reports' = reports,
         saved' \in [1 .. Len(chain) -> Nat],
         objs' \in [{1, 2} -> [sentry : BOOLEAN, place : BOOLEAN]],
         Within("Sentry", pos) => objs'[Obj(pos + 1)].sentry,
         Within("Logging", pos) => objs'[Obj(pos + 1)].place
  PROVE  ServerInv'
<1>1. Len(chain) \in Nat /\ chain \in Chains
  BY ChainOrder DEF ServerInv, ServerTypes
<1>2. pos' = pos + 1 /\ dir' = "down"
  BY DEF Descend
<1>3. ServerTypes'
  BY <1>1, <1>2 DEF ServerInv, ServerTypes
<1>4. GoingDown'
  <2>1. /\ Within("Sentry", pos - 1)' <=> Within("Sentry", pos)
        /\ Within("Logging", pos - 1)' <=> Within("Logging", pos)
    BY <1>1, <1>2 DEF Within
  <2>2. Obj(pos)' = Obj(pos + 1)
    BY <1>2 DEF Obj
  <2>3. hdr = 0 /\ logs = << >> /\ counted = << >> /\ reports = 0
    BY DEF ServerInv, GoingDown
  <2> QED
    BY <1>2, <2>1, <2>2, <2>3 DEF GoingDown
<1> QED
  BY <1>2, <1>3, <1>4 DEF ServerInv, GoingUp, Unwinding, Recovered

\* Each middleware on the way down.
LEMMA StepDown ==
  ASSUME ServerInv, PassDown \/ SentryDown \/ TracingDown \/ MetricsDown \/ LoggingDown
  PROVE  ServerInv'
<1>1. ServerTypes /\ chain \in Chains /\ Len(chain) \in Nat
  BY ChainOrder DEF ServerInv, ServerTypes
<1>2. dir = "down" /\ Layer # "handler"
  BY DEF PassDown, SentryDown, TracingDown, MetricsDown, LoggingDown
<1>3. pos \in 1 .. Len(chain) /\ Layer = chain[pos]
  BY <1>1, <1>2, AtLayer
<1>4. /\ Within("Sentry", pos) <=> Within("Sentry", pos - 1) \/ chain[pos] = "Sentry"
      /\ Within("Logging", pos) <=> Within("Logging", pos - 1) \/ chain[pos] = "Logging"
  BY <1>1, <1>3, OneMore
<1>5. /\ Within("Sentry", pos - 1) => objs[Obj(pos)].sentry
      /\ Within("Logging", pos - 1) => objs[Obj(pos)].place
  BY <1>2 DEF ServerInv, GoingDown
<1>6. /\ Obj(pos) \in {1, 2}
      /\ Obj(pos + 1) = IF chain[pos] = "Tracing" THEN 2 ELSE Obj(pos)
      /\ chain[pos] = "Tracing" => Obj(pos) = 1
  BY <1>1, <1>3, WhichRequest
<1>7. saved \in [1 .. Len(chain) -> Nat] /\ objs \in [{1, 2} -> [sentry : BOOLEAN, place : BOOLEAN]]
  BY <1>1 DEF ServerTypes
<1>8. [saved EXCEPT ![pos] = 200] \in [1 .. Len(chain) -> Nat]
  BY <1>7
<1> DEFINE o == Obj(pos)
<1> HIDE DEF o
<1>9. o \in {1, 2} /\ objs[o] \in [sentry : BOOLEAN, place : BOOLEAN]
  BY <1>6, <1>7 DEF o
<1>10. CASE PassDown
  <2>1. /\ Descend /\ chain' = chain /\ plan' = plan /\ hdr' = hdr /\ logs' = logs /\ counted' = counted
        /\ reports' = reports /\ saved' = saved /\ objs' = objs /\ chain[pos] \in {"Recovery", "Security"}
    BY <1>10, <1>3 DEF PassDown, answer, sinks
  <2> QED
    BY <1>2, <1>3, <1>4, <1>5, <1>6, <1>7, <2>1, DownKeeps
<1>11. CASE SentryDown
  <2>1. /\ Descend /\ chain' = chain /\ plan' = plan /\ hdr' = hdr /\ logs' = logs /\ counted' = counted
        /\ reports' = reports /\ saved' = saved /\ chain[pos] = "Sentry"
        /\ objs' = [objs EXCEPT ![o].sentry = TRUE]
    BY <1>11, <1>3 DEF SentryDown, answer, sinks, o
  <2>2. /\ objs' \in [{1, 2} -> [sentry : BOOLEAN, place : BOOLEAN]]
        /\ objs'[o].sentry /\ objs'[o].place = objs[o].place
    BY <1>7, <1>9, <2>1
  <2>3. Obj(pos + 1) = o /\ Obj(pos) = o
    BY <1>6, <2>1 DEF o
  <2> QED
    BY <1>2, <1>3, <1>4, <1>5, <1>7, <2>1, <2>2, <2>3, DownKeeps
<1>12. CASE TracingDown
  <2>1. /\ Descend /\ chain' = chain /\ plan' = plan /\ hdr' = hdr /\ logs' = logs /\ counted' = counted
        /\ reports' = reports /\ saved' = saved /\ chain[pos] = "Tracing"
        /\ objs' = [objs EXCEPT ![2] = objs[1]]
    BY <1>12, <1>3 DEF TracingDown, answer, sinks
  <2>2. /\ objs' \in [{1, 2} -> [sentry : BOOLEAN, place : BOOLEAN]]
        /\ objs'[2] = objs[1]
    BY <1>7, <2>1
  <2>3. Obj(pos + 1) = 2 /\ Obj(pos) = 1
    BY <1>6, <2>1
  <2> QED
    BY <1>2, <1>3, <1>4, <1>5, <1>7, <2>1, <2>2, <2>3, DownKeeps
<1>13. CASE MetricsDown
  <2>1. /\ Descend /\ chain' = chain /\ plan' = plan /\ hdr' = hdr /\ logs' = logs /\ counted' = counted
        /\ reports' = reports /\ saved' \in {saved, [saved EXCEPT ![pos] = 200]} /\ objs' = objs
        /\ chain[pos] = "Metrics"
    BY <1>13, <1>3 DEF MetricsDown, sinks
  <2> QED
    BY <1>2, <1>3, <1>4, <1>5, <1>6, <1>7, <1>8, <2>1, DownKeeps
<1>14. CASE LoggingDown
  <2>1. chain[pos] = "Logging"
    BY <1>14, <1>3 DEF LoggingDown
  <2>2. objs[Obj(pos)].sentry
    BY <1>1, <1>3, <1>5, <2>1, ChainOrder
  <2>3. /\ Descend /\ chain' = chain /\ plan' = plan /\ hdr' = hdr /\ logs' = logs /\ counted' = counted
        /\ reports' = reports /\ saved' = [saved EXCEPT ![pos] = 200]
        /\ objs' = [objs EXCEPT ![o].place = TRUE]
    BY <1>14, <2>2 DEF LoggingDown, sinks, o
  <2>4. /\ objs' \in [{1, 2} -> [sentry : BOOLEAN, place : BOOLEAN]]
        /\ objs'[o].place /\ objs'[o].sentry = objs[o].sentry
    BY <1>7, <1>9, <2>3
  <2>5. Obj(pos + 1) = o /\ Obj(pos) = o
    BY <1>6, <2>1 DEF o
  <2> QED
    BY <1>2, <1>3, <1>4, <1>5, <1>8, <2>1, <2>2, <2>3, <2>4, <2>5, DownKeeps
<1> QED
  BY <1>10, <1>11, <1>12, <1>13, <1>14

\* A handler that returns leaves its status with the client and every writer.
LEMMA ReturnKeeps ==
  ASSUME ServerInv, dir = "down", Layer = "handler", plan.how \notin Panics, Ascend,
         WriteHeader(IF plan.how = "ok" THEN 200 ELSE CodeOf(plan.err)),
         chain' = chain, plan' = plan, objs' = objs, counted' = counted, logs' = logs, reports' \in Nat,
         plan.how = "error" => reports' = IF shouldSkipSentry(PresentedBy(plan.err)) THEN 0 ELSE 1
  PROVE  ServerInv'
<1> DEFINE code == IF plan.how = "ok" THEN 200 ELSE CodeOf(plan.err)
<1>1. /\ ServerTypes /\ chain \in Chains /\ plan \in Plans /\ Len(chain) \in Nat
      /\ DOMAIN chain = 1 .. Len(chain) /\ Within("Logging", Len(chain))
  BY ChainOrder DEF ServerInv, ServerTypes
<1>2. code \in Nat
  <2>1. CodeOf(plan.err) \in 200 .. 503
    BY <1>1, CodeFits, PanicIsError
  <2> QED
    BY <2>1
<1>3. /\ hdr' = IF hdr = 0 THEN code ELSE hdr
      /\ saved' = [i \in DOMAIN chain |->
                     IF i < pos /\ chain[i] \in {"Logging", "Metrics"} THEN code ELSE saved[i]]
  BY DEF WriteHeader
<1>4. code' = code
  BY DEF CodeOf
<1> HIDE DEF code
<1>5. /\ 1 <= pos /\ hdr = 0 /\ logs = << >> /\ counted = << >>
  BY DEF ServerInv, GoingDown
<1>6. pos = Len(chain) + 1 /\ pos' = Len(chain) /\ dir' = "up"
  BY <1>1, <1>5, AtLayer DEF Ascend
<1>7. /\ saved' \in [1 .. Len(chain) -> Nat]
      /\ \A i \in 1 .. Len(chain) : chain[i] \in {"Logging", "Metrics"} => saved'[i] = code
  <2>1. saved \in [1 .. Len(chain) -> Nat]
    BY <1>1 DEF ServerTypes
  <2> QED
    BY <1>1, <1>2, <1>3, <1>6, <2>1
<1>8. ServerTypes'
  BY <1>1, <1>2, <1>3, <1>5, <1>6, <1>7 DEF ServerTypes
<1>9. GoingUp'
  <2>1. Within("Logging", pos)'
    BY <1>1, <1>6 DEF Within
  <2>2. hdr' = (IF plan.how = "ok" THEN 200 ELSE CodeOf(plan.err))'
    BY <1>3, <1>4, <1>5 DEF code
  <2>3. (\A i \in 1 .. Len(chain) : i <= pos /\ chain[i] \in {"Logging", "Metrics"} => saved[i] = hdr)'
    BY <1>3, <1>5, <1>7
  <2>4. (plan.how = "error" => reports = IF shouldSkipSentry(PresentedBy(plan.err)) THEN 0 ELSE 1)'
    BY DEF PresentedBy
  <2>5. (pos <= Len(chain))' /\ (\A i \in 1 .. Len(counted) : counted[i] = hdr)' /\ (logs = << >>)'
    BY <1>1, <1>5, <1>6
  <2> QED
    BY <2>1, <2>2, <2>3, <2>4, <2>5 DEF GoingUp
<1> QED
  BY <1>6, <1>8, <1>9 DEF ServerInv, GoingDown, Unwinding, Recovered

\* Each way a handler can end.
LEMMA StepHandler ==
  ASSUME ServerInv, HandlerAnswers \/ HandlerFails \/ HandlerPanics
  PROVE  ServerInv'
<1>1. /\ ServerTypes /\ chain \in Chains /\ plan \in Plans /\ Len(chain) \in Nat /\ 1 <= Len(chain)
      /\ DOMAIN chain = 1 .. Len(chain) /\ Within("Logging", Len(chain)) /\ Within("Sentry", Len(chain))
  BY ChainOrder DEF ServerInv, ServerTypes
<1>2. dir = "down" /\ Layer = "handler"
  BY DEF HandlerAnswers, HandlerFails, HandlerPanics
<1>3. /\ 1 <= pos /\ hdr = 0 /\ logs = << >> /\ counted = << >> /\ reports = 0
      /\ Within("Sentry", pos - 1) => objs[Obj(pos)].sentry
      /\ Within("Logging", pos - 1) => objs[Obj(pos)].place
  BY <1>2 DEF ServerInv, GoingDown
<1>4. pos = Len(chain) + 1 /\ pos - 1 = Len(chain)
  BY <1>1, <1>2, <1>3, AtLayer
<1>5. objs[Obj(pos)].sentry /\ objs[Obj(pos)].place
  BY <1>1, <1>3, <1>4
<1>6. CASE HandlerAnswers
  <2>1. /\ plan.how = "ok" /\ WriteHeader(200) /\ Ascend
        /\ chain' = chain /\ plan' = plan /\ objs' = objs /\ counted' = counted /\ logs' = logs
        /\ reports' = reports
    BY <1>6 DEF HandlerAnswers, sinks
  <2>2. plan.how \notin Panics /\ plan.how # "error" /\ reports' \in Nat
    BY <1>3, <2>1 DEF Panics
  <2>3. WriteHeader(IF plan.how = "ok" THEN 200 ELSE CodeOf(plan.err))
    BY <2>1
  <2> QED
    BY <1>2, <2>1, <2>2, <2>3, ReturnKeeps
<1>7. CASE HandlerFails
  <2>1. /\ plan.how = "error" /\ ErrorHandler(plan.err) /\ Ascend
        /\ chain' = chain /\ plan' = plan /\ objs' = objs /\ counted' = counted
    BY <1>7 DEF HandlerFails
  <2>2. /\ Report(PresentedBy(plan.err)) /\ SetErrorInContext(PresentedBy(plan.err))
        /\ WriteHeader(CodeOf(plan.err))
    BY <1>1, <2>1, PlansAssumption DEF ErrorHandler, ServerTypes
  <2>3. logs' = logs
    BY <1>5, <2>2 DEF SetErrorInContext
  <2>4. reports' = IF shouldSkipSentry(PresentedBy(plan.err)) THEN 0 ELSE 1
    BY <1>3, <1>5, <2>2 DEF Report
  <2>5. plan.how \notin Panics /\ plan.how # "ok" /\ reports' \in Nat
    BY <2>1, <2>4 DEF Panics
  <2>6. WriteHeader(IF plan.how = "ok" THEN 200 ELSE CodeOf(plan.err))
    BY <2>2, <2>5
  <2> QED
    BY <1>2, <2>1, <2>3, <2>4, <2>5, <2>6, ReturnKeeps
<1>8. CASE HandlerPanics
  <2>1. /\ plan.how \in Panics
        /\ IF plan.how = "panic" THEN UNCHANGED answer ELSE WriteHeader(200)
        /\ Panic(UnwrapPanic(plan.err))
        /\ chain' = chain /\ plan' = plan /\ objs' = objs /\ counted' = counted /\ logs' = logs
        /\ reports' = reports
    BY <1>8 DEF HandlerPanics, sinks, Panics
  <2>2. pos' = Len(chain) /\ dir' = "panic" /\ thrown' = UnwrapPanic(plan.err)
    BY <1>1, <1>4, <2>1 DEF Panic
  <2>3. hdr' \in Nat /\ (plan.how = "panic" => hdr' = 0)
    BY <1>3, <2>1 DEF answer, WriteHeader
  <2>4. saved' \in [1 .. Len(chain) -> Nat]
    <3>1. saved \in [1 .. Len(chain) -> Nat]
      BY <1>1 DEF ServerTypes
    <3>2. saved' = saved \/ saved' = [i \in DOMAIN chain |->
                   IF i < pos /\ chain[i] \in {"Logging", "Metrics"} THEN 200 ELSE saved[i]]
      BY <2>1 DEF answer, WriteHeader
    <3> QED
      BY <1>1, <3>1, <3>2
  <2>5. ServerTypes'
    BY <1>1, <2>1, <2>2, <2>3, <2>4 DEF ServerTypes
  <2>6. Within("Logging", pos)'
    BY <1>1, <2>1, <2>2 DEF Within
  <2>7. Unwinding'
    BY <1>1, <1>3, <2>1, <2>2, <2>3, <2>6 DEF Unwinding
  <2> QED
    BY <2>2, <2>5, <2>7 DEF ServerInv, GoingDown, GoingUp, Recovered
<1> QED
  BY <1>6, <1>7, <1>8

\* A step outwards after a handler that has returned.
LEMMA UpKeeps ==
  ASSUME ServerInv, dir = "up", pos \in 1 .. Len(chain), pos' = pos - 1, dir' = "up",
         chain' = chain, plan' = plan, hdr' = hdr, saved' = saved, objs' = objs, reports' = reports,
         counted' \in Seq(Nat), \A i \in 1 .. Len(counted') : counted'[i] = hdr,
         IF chain[pos] = "Logging"
         THEN \E kind \in {"success", "error", "canceled"} : logs' = Append(logs, Entry(kind, hdr))
         ELSE logs' = logs
  PROVE  ServerInv'
<1>1. ServerTypes /\ chain \in Chains /\ plan \in Plans /\ Len(chain) \in Nat
  BY ChainOrder DEF ServerInv, ServerTypes
<1>2. plan.how \notin Panics
  BY <1>1 DEF ServerInv, Recovered
<1>3. /\ hdr = IF plan.how = "ok" THEN 200 ELSE CodeOf(plan.err)
      /\ \A i \in 1 .. Len(chain) : i <= pos /\ chain[i] \in {"Logging", "Metrics"} => saved[i] = hdr
      /\ IF Within("Logging", pos) THEN logs = << >>
         ELSE \E kind \in {"success", "error", "canceled"} : logs = <<Entry(kind, hdr)>>
      /\ plan.how = "error" => reports = IF shouldSkipSentry(PresentedBy(plan.err)) THEN 0 ELSE 1
  BY <1>2 DEF ServerInv, GoingUp
<1>4. ServerTypes'
  BY <1>1 DEF ServerTypes
<1>5. GoingUp'
  <2>1. Within("Logging", pos)' <=> Within("Logging", pos - 1)
    BY DEF Within
  <2>2. (IF Within("Logging", pos) THEN logs = << >>
         ELSE \E kind \in {"success", "error", "canceled"} : logs = <<Entry(kind, hdr)>>)'
    <3>1. CASE chain[pos] = "Logging"
      <4>1. Within("Logging", pos) /\ ~Within("Logging", pos - 1)
        BY <1>1, <3>1, OneMore, ChainOrder
      <4>2. PICK kind \in {"success", "error", "canceled"} : logs' = Append(logs, Entry(kind, hdr))
        BY <3>1
      <4>3. logs' = <<Entry(kind, hdr)>>
        BY <1>3, <4>1, <4>2
      <4>4. logs' = <<Entry(kind, hdr')>>
        BY <4>3
      <4> QED
        BY <2>1, <4>1, <4>4
    <3>2. CASE chain[pos] # "Logging"
      <4>1. Within("Logging", pos) <=> Within("Logging", pos - 1)
        BY <1>1, <3>2, OneMore
      <4> QED
        BY <1>3, <2>1, <3>2, <4>1
    <3> QED
      BY <3>1, <3>2
  <2>3. (hdr = IF plan.how = "ok" THEN 200 ELSE CodeOf(plan.err))'
    BY <1>3 DEF CodeOf
  <2>4. (\A i \in 1 .. Len(chain) : i <= pos /\ chain[i] \in {"Logging", "Metrics"} => saved[i] = hdr)'
    BY <1>1, <1>3
  <2>5. (plan.how = "error" => reports = IF shouldSkipSentry(PresentedBy(plan.err)) THEN 0 ELSE 1)'
    BY <1>3 DEF PresentedBy
  <2>6. (pos <= Len(chain))' /\ (\A i \in 1 .. Len(counted) : counted[i] = hdr)'
    BY <1>1
  <2> QED
    BY <2>2, <2>3, <2>4, <2>5, <2>6 DEF GoingUp
<1>6. Recovered'
  BY <1>2 DEF Recovered
<1> QED
  BY <1>4, <1>5, <1>6 DEF ServerInv, GoingDown, Unwinding

\* A step outwards of a panic that is not stopped.
LEMMA UnwindKeeps ==
  ASSUME ServerInv, dir = "panic", pos \in 1 .. Len(chain), chain[pos] # "Recovery",
         pos' = pos - 1, dir' = "panic", thrown' = thrown,
         chain' = chain, plan' = plan, hdr' = hdr, saved' = saved, objs' = objs, reports' = reports,
         counted' = counted,
         logs' = IF chain[pos] = "Logging" /\ ~Is(thrown, "abort") THEN Append(logs, LoggedPanic) ELSE logs
  PROVE  ServerInv'
<1>1. ServerTypes /\ chain \in Chains /\ plan \in Plans /\ Len(chain) \in Nat
  BY ChainOrder DEF ServerInv, ServerTypes
<1>2. /\ plan.how \in Panics /\ thrown = UnwrapPanic(plan.err) /\ (plan.how = "panic" => hdr = 0)
      /\ logs = IF Within("Logging", pos) \/ Is(thrown, "abort") THEN << >> ELSE <<LoggedPanic>>
  BY DEF ServerInv, Unwinding
<1>3. 1 <= pos' /\ pos' <= Len(chain)
  BY <1>1, ChainOrder
<1>4. ServerTypes'
  BY <1>1, <1>3 DEF ServerTypes
<1>5. Within("Logging", pos)' <=> Within("Logging", pos - 1)
  BY DEF Within
<1>6. logs' = IF Within("Logging", pos - 1) \/ Is(thrown, "abort") THEN << >> ELSE <<LoggedPanic>>
  <2>1. CASE chain[pos] = "Logging"
    <3>1. Within("Logging", pos) /\ ~Within("Logging", pos - 1)
      BY <1>1, <2>1, OneMore, ChainOrder
    <3> QED
      BY <1>2, <2>1, <3>1
  <2>2. CASE chain[pos] # "Logging"
    <3>1. Within("Logging", pos) <=> Within("Logging", pos - 1)
      BY <1>1, <2>2, OneMore
    <3> QED
      BY <1>2, <2>2, <3>1
  <2> QED
    BY <2>1, <2>2
<1>7. Unwinding'
  <2>1. (thrown = UnwrapPanic(plan.err))' /\ LoggedPanic' = LoggedPanic
    BY <1>2 DEF LoggedPanic
  <2> QED
    BY <1>2, <1>3, <1>5, <1>6, <2>1 DEF Unwinding
<1> QED
  BY <1>4, <1>7 DEF ServerInv, GoingDown, GoingUp, Recovered

\* Each middleware on the way up, for answers and for panics.
LEMMA StepUp ==
  ASSUME ServerInv, PassUp \/ MetricsUp \/ LoggingUp \/ LoggingPanic
  PROVE  ServerInv'
<1>1. ServerTypes /\ chain \in Chains /\ plan \in Plans /\ Len(chain) \in Nat
  BY ChainOrder DEF ServerInv, ServerTypes
<1>2. dir \in {"up", "panic"} /\ Layer # "handler"
  BY DEF PassUp, MetricsUp, LoggingUp, LoggingPanic
<1>3. pos \in 1 .. Len(chain) /\ Layer = chain[pos]
  BY <1>1, <1>2, AtLayer
<1>4. dir = "up" => /\ \A i \in 1 .. Len(counted) : counted[i] = hdr
                    /\ chain[pos] \in {"Logging", "Metrics"} => saved[pos] = hdr
  <2>1. dir = "up" => plan.how \notin Panics
    BY <1>3 DEF ServerInv, Recovered
  <2> QED
    BY <1>1, <1>3, <2>1 DEF ServerInv, GoingUp
<1>5. counted \in Seq(Nat) /\ hdr \in Nat
  BY <1>1 DEF ServerTypes
<1>6. CASE PassUp
  <2>1. /\ pos' = pos - 1 /\ dir' = dir /\ thrown' = thrown /\ chain' = chain /\ plan' = plan /\ hdr' = hdr
        /\ saved' = saved /\ objs' = objs /\ reports' = reports /\ counted' = counted /\ logs' = logs
        /\ chain[pos] # "Logging" /\ (dir = "panic" => chain[pos] # "Recovery")
    BY <1>3, <1>6 DEF PassUp, answer, sinks
  <2>2. CASE dir = "up"
    BY <1>3, <1>4, <1>5, <2>1, <2>2, UpKeeps
  <2>3. CASE dir = "panic"
    BY <1>3, <2>1, <2>3, UnwindKeeps
  <2> QED
    BY <1>2, <2>2, <2>3
<1>7. CASE MetricsUp
  <2>1. /\ dir = "up" /\ pos' = pos - 1 /\ dir' = "up" /\ chain' = chain /\ plan' = plan /\ hdr' = hdr
        /\ saved' = saved /\ objs' = objs /\ reports' = reports /\ logs' = logs
        /\ counted' \in {counted, Append(counted, saved[pos])} /\ chain[pos] = "Metrics"
    BY <1>3, <1>7 DEF MetricsUp, Ascend, answer
  <2>2. counted' \in Seq(Nat) /\ \A i \in 1 .. Len(counted') : counted'[i] = hdr
    <3>1. CASE counted' = counted
      <4>1. \A i \in 1 .. Len(counted) : counted[i] = hdr
        BY <1>4, <2>1
      <4> QED
        BY <1>5, <3>1, <4>1
    <3>2. CASE counted' = Append(counted, saved[pos])
      BY <1>4, <1>5, <2>1, <3>2
    <3> QED
      BY <2>1, <3>1, <3>2
  <2> QED
    BY <1>3, <2>1, <2>2, UpKeeps
<1>8. CASE LoggingUp
  <2>1. /\ dir = "up" /\ pos' = pos - 1 /\ dir' = "up" /\ chain' = chain /\ plan' = plan /\ hdr' = hdr
        /\ saved' = saved /\ objs' = objs /\ reports' = reports /\ counted' = counted
        /\ chain[pos] = "Logging"
        /\ logs' = Append(logs, IF errPtr = NoError THEN Entry("success", saved[pos]) ELSE LogAppError(errPtr))
    BY <1>3, <1>8 DEF LoggingUp, Ascend, answer
  <2>2. \E kind \in {"success", "error", "canceled"} : logs' = Append(logs, Entry(kind, hdr))
    BY <1>4, <2>1 DEF LogAppError
  <2> QED
    BY <1>3, <1>4, <1>5, <2>1, <2>2, UpKeeps
<1>9. CASE LoggingPanic
  <2>1. /\ dir = "panic" /\ pos' = pos - 1 /\ dir' = "panic" /\ thrown' = thrown /\ chain' = chain
        /\ plan' = plan /\ hdr' = hdr /\ saved' = saved /\ objs' = objs /\ reports' = reports
        /\ counted' = counted /\ chain[pos] = "Logging"
        /\ logs' = IF Is(thrown, "abort") THEN logs ELSE Append(logs, LoggedPanic)
    BY <1>3, <1>9 DEF LoggingPanic, Panic, answer, LoggedPanic
  <2> QED
    BY <1>3, <2>1, UnwindKeeps
<1> QED
  BY <1>6, <1>7, <1>8, <1>9

\* The recovery, with an answer of its own or silent.
LEMMA StepRecovery ==
  ASSUME ServerInv, RecoveryPanic
  PROVE  ServerInv'
<1>1. /\ ServerTypes /\ chain \in Chains /\ plan \in Plans /\ Len(chain) \in Nat
      /\ DOMAIN chain = 1 .. Len(chain)
  BY ChainOrder DEF ServerInv, ServerTypes
<1>2. /\ dir = "panic" /\ Layer = "Recovery" /\ chain' = chain /\ plan' = plan /\ objs' = objs
      /\ counted' = counted /\ pos' = pos - 1 /\ dir' = "up" /\ thrown' = thrown
      /\ IF Hushed(thrown) THEN UNCHANGED <<answer, errPtr, logs, reports>> ELSE ErrorHandler(thrown)
  BY DEF RecoveryPanic, Ascend
<1>3. pos = 1 /\ pos' = 0
  BY <1>1, <1>2, AtLayer, ChainOrder
<1>4. /\ plan.how \in Panics /\ thrown = UnwrapPanic(plan.err) /\ (plan.how = "panic" => hdr = 0)
      /\ logs = IF Within("Logging", pos) \/ Is(thrown, "abort") THEN << >> ELSE <<LoggedPanic>>
  BY <1>2 DEF ServerInv, Unwinding
<1>5. ~Within("Logging", pos)
  <2>1. chain[1] = "Recovery"
    BY <1>1, <1>2, <1>3, AtLayer
  <2> QED
    BY <1>1, <1>3, <2>1 DEF Within
<1>6. logs = IF Is(thrown, "abort") THEN << >> ELSE <<LoggedPanic>>
  BY <1>4, <1>5
<1>7. CodeOf(thrown) \in Nat
  <2>1. CodeOf(thrown) \in 200 .. 503
    BY <1>1, <1>4, CodeFits, PanicIsError
  <2> QED
    BY <2>1
<1>8. ~Hushed(thrown) =>
        /\ ~Is(thrown, "abort")
        /\ \/ Report(PresentedBy(thrown)) /\ SetErrorInContext(PresentedBy(thrown))
           \/ UNCHANGED <<logs, reports>>
        /\ WriteHeader(CodeOf(thrown))
  BY <1>2 DEF ErrorHandler, Hushed
<1>9. hdr' \in Nat /\ (plan.how = "panic" /\ ~Hushed(thrown) => hdr' = CodeOf(thrown))
  <2>1. hdr \in Nat
    BY <1>1 DEF ServerTypes
  <2> QED
    BY <1>2, <1>4, <1>7, <1>8, <2>1 DEF WriteHeader, answer
<1>10. saved' \in [1 .. Len(chain) -> Nat]
  <2>1. saved \in [1 .. Len(chain) -> Nat]
    BY <1>1 DEF ServerTypes
  <2>2. saved' = saved \/ saved' = [i \in DOMAIN chain |->
                 IF i < pos /\ chain[i] \in {"Logging", "Metrics"} THEN CodeOf(thrown) ELSE saved[i]]
    BY <1>2, <1>8 DEF WriteHeader, answer
  <2> QED
    BY <1>1, <1>7, <2>1, <2>2
<1>11. reports' \in Nat
  <2>1. reports \in Nat
    BY <1>1 DEF ServerTypes
  <2> QED
    BY <1>2, <1>8, <2>1 DEF Report
<1>12. ServerTypes'
  BY <1>1, <1>2, <1>3, <1>9, <1>10, <1>11 DEF ServerTypes
<1>13. IF Is(thrown, "abort") THEN logs' = << >>
       ELSE logs' \in {<<LoggedPanic>>, <<LoggedPanic, Detached>>}
  <2>1. CASE Hushed(thrown)
    BY <1>2, <1>6, <2>1
  <2>2. CASE ~Hushed(thrown)
    <3>1. logs' = logs \/ logs' = Append(logs, Detached)
      BY <1>8, <2>2 DEF SetErrorInContext, Detached
    <3> QED
      BY <1>6, <1>8, <2>2, <3>1
  <2> QED
    BY <2>1, <2>2
<1>14. Recovered'
  <2>1. (thrown = UnwrapPanic(plan.err))'
    BY <1>2, <1>4
  <2>2. (plan.how = "panic" /\ ~Hushed(thrown) => hdr = CodeOf(thrown))'
    BY <1>2, <1>9 DEF CodeOf
  <2>3. (IF Is(thrown, "abort") THEN logs = << >>
         ELSE logs \in {<<LoggedPanic>>, <<LoggedPanic, Detached>>})'
    BY <1>2, <1>13 DEF LoggedPanic, Detached
  <2> QED
    BY <1>3, <2>1, <2>2, <2>3 DEF Recovered
<1> QED
  BY <1>2, <1>4, <1>12, <1>14 DEF ServerInv, GoingDown, GoingUp, Unwinding

\* net/http only completes an answer after a silent recovery or none at all.
LEMMA StepFinish ==
  ASSUME ServerInv, Finish
  PROVE  ServerInv'
<1>1. /\ pos = 0 /\ dir = "up" /\ hdr = 0 /\ hdr' = 200 /\ chain' = chain /\ plan' = plan /\ pos' = pos
      /\ dir' = dir /\ thrown' = thrown /\ saved' = saved /\ objs' = objs /\ logs' = logs
      /\ counted' = counted /\ reports' = reports
  BY DEF Finish, sinks
<1>2. plan \in Plans
  BY DEF ServerInv, ServerTypes
<1>3. CodeOf(plan.err) # 0 /\ CodeOf(UnwrapPanic(plan.err)) # 0
  <2>1. CodeOf(plan.err) \in 200 .. 503 /\ CodeOf(UnwrapPanic(plan.err)) \in 200 .. 503
    BY <1>2, CodeFits, PanicIsError
  <2> QED
    BY <2>1
<1>4. plan.how \in Panics
  BY <1>1, <1>3 DEF ServerInv, GoingUp
<1>5. /\ thrown = UnwrapPanic(plan.err) /\ ~(plan.how = "panic" /\ ~Hushed(thrown))
      /\ IF Is(thrown, "abort") THEN logs = << >>
         ELSE logs \in {<<LoggedPanic>>, <<LoggedPanic, Detached>>}
  BY <1>1, <1>3, <1>4 DEF ServerInv, Recovered
<1>6. ServerTypes'
  BY <1>1 DEF ServerInv, ServerTypes
<1>7. Recovered'
  <2>1. (~(plan.how = "panic" /\ ~Hushed(thrown)))'
    BY <1>1, <1>5
  <2>2. (IF Is(thrown, "abort") THEN logs = << >>
         ELSE logs \in {<<LoggedPanic>>, <<LoggedPanic, Detached>>})'
    BY <1>1, <1>5 DEF LoggedPanic, Detached
  <2>3. (thrown = UnwrapPanic(plan.err))' /\ pos' = 0
    BY <1>1, <1>5
  <2> QED
    BY <2>1, <2>2, <2>3 DEF Recovered
<1> QED
  BY <1>1, <1>4, <1>6, <1>7 DEF ServerInv, GoingDown, GoingUp, Unwinding

\* Every step keeps the invariant.
LEMMA ServerKeeps == ServerInv /\ [ServerNext]_serverVars => ServerInv'
<1> SUFFICES ASSUME ServerInv, [ServerNext]_serverVars
             PROVE  ServerInv'
  OBVIOUS
<1>1. CASE ServerNext
  BY <1>1, StepDown, StepHandler, StepUp, StepRecovery, StepFinish DEF ServerNext
<1>2. CASE UNCHANGED serverVars
  <2>1. ServerTypes'
    BY <1>2 DEF ServerInv, ServerTypes, serverVars
  <2>2. GoingDown'
    BY <1>2 DEF ServerInv, GoingDown, Within, Obj, serverVars
  <2>3. GoingUp'
    BY <1>2 DEF ServerInv, GoingUp, Within, CodeOf, PresentedBy, serverVars
  <2>4. Unwinding'
    BY <1>2 DEF ServerInv, Unwinding, Within, LoggedPanic, serverVars
  <2>5. Recovered'
    BY <1>2 DEF ServerInv, Recovered, CodeOf, LoggedPanic, Detached, serverVars
  <2> QED
    BY <2>1, <2>2, <2>3, <2>4, <2>5 DEF ServerInv
<1> QED
  BY <1>1, <1>2

\* For every well-ordered chain and every plan of its handler: contexts, writers
\* and logs are as ServerInv says at every layer, in and out (resttooling).
THEOREM ServerInvHolds == ServerSpec => []ServerInv
  BY ServerStarts, ServerKeeps, PTL DEF ServerSpec

\* A panic that comes before any answer, and is neither an abort nor over a
\* broken connection, is answered with the code the error handler has for it.
THEOREM EveryPanicIsAnswered == ServerSpec => []PanicIsAnswered
<1>1. ServerInv => PanicIsAnswered
  <2> SUFFICES ASSUME ServerInv, pos = 0, plan.how = "panic", ~Hushed(thrown)
               PROVE  hdr = CodeOf(thrown)
    BY DEF PanicIsAnswered, Answered
  <2>1. dir = "up"
    BY DEF ServerInv, ServerTypes, GoingDown, Unwinding
  <2> QED
    BY <2>1 DEF ServerInv, Recovered, Panics
<1> QED
  BY <1>1, ServerInvHolds, PTL

\* LoggingMiddleware writes one entry for a request and MetricsMiddleware
\* counts it once, both with the status the client got.
THEOREM LogsAgree == ServerSpec => []LogsTellTheTruth
<1>1. ServerInv => LogsTellTheTruth
  <2> SUFFICES ASSUME ServerInv, Answered
               PROVE  LogsTellTheTruth
    BY DEF LogsTellTheTruth
  <2> DEFINE told == {i \in DOMAIN logs : logs[i].kind # "detached"}
  <2>1. pos = 0 /\ dir = "up" /\ chain \in Chains /\ plan \in Plans /\ counted \in Seq(Nat)
    BY DEF ServerInv, ServerTypes, GoingDown, Unwinding, Answered
  <2>2. Cardinality({1}) = 1 /\ Cardinality({}) = 0
    BY FS_Singleton, FS_EmptySet
  <2>3. CASE plan.how \in Panics
    <3>1. IF Is(thrown, "abort") THEN logs = << >>
          ELSE logs \in {<<LoggedPanic>>, <<LoggedPanic, Detached>>}
      BY <2>1, <2>3 DEF ServerInv, Recovered
    <3>2. LoggedPanic.kind # "detached" /\ Detached.kind = "detached"
      BY DEF LoggedPanic, Detached, Entry
    <3>3. Is(thrown, "abort") => told = {}
      BY <3>1
    <3>4. ~Is(thrown, "abort") => told = {1}
      <4>1. CASE logs = <<LoggedPanic>>
        BY <3>2, <4>1
      <4>2. CASE logs = <<LoggedPanic, Detached>>
        <5>1. DOMAIN logs = {1, 2} /\ logs[1] = LoggedPanic /\ logs[2] = Detached
          BY <4>2
        <5> QED
          BY <3>2, <5>1
      <4> QED
        BY <3>1, <4>1, <4>2
    <3> HIDE DEF told
    <3>5. Cardinality(told) = IF Is(thrown, "abort") THEN 0 ELSE 1
      BY <2>2, <3>3, <3>4
    <3> QED
      BY <2>3, <3>5 DEF LogsTellTheTruth, Panics, told
  <2>4. CASE plan.how \notin Panics
    <3>1. /\ \A i \in 1 .. Len(counted) : counted[i] = hdr
          /\ IF Within("Logging", pos) THEN logs = << >>
             ELSE \E kind \in {"success", "error", "canceled"} : logs = <<Entry(kind, hdr)>>
      BY <2>1, <2>4 DEF ServerInv, GoingUp
    <3>2. ~Within("Logging", pos)
      BY <2>1, NoneAtTop
    <3>3. PICK kind \in {"success", "error", "canceled"} : logs = <<Entry(kind, hdr)>>
      BY <3>1, <3>2
    <3>4. DOMAIN logs = {1} /\ logs[1].kind = kind /\ logs[1].status = hdr
      BY <3>3 DEF Entry
    <3>5. told = {1} /\ \A i \in told : logs[i].status = hdr
      BY <3>4
    <3>6. \A i \in DOMAIN counted : counted[i] = hdr
      BY <2>1, <3>1
    <3> HIDE DEF told
    <3>7. Cardinality(told) = 1
      BY <2>2, <3>5
    <3> QED
      BY <2>4, <3>5, <3>6, <3>7 DEF LogsTellTheTruth, Panics, told
  <2> QED
    BY <2>3, <2>4
<1> QED
  BY <1>1, ServerInvHolds, PTL

-----------------------------------------------------------------------------
\* The nodes of a presented error are nodes of the error, but for a new first one.
Inside(p, err) ==
  \A k \in 1 .. Len(p.nodes) : \E i \in 1 .. Len(err.nodes) : p.nodes[k] = err.nodes[i]

\* Presenting adds no type to a chain but the one of the new wrapper.
LEMMA WrapInside ==
  ASSUME NEW err, err.nodes \in Seq(Nodes), NEW node \in Nodes, NEW type, node.type # type, Is(Wrap(node, err), type)
  PROVE  Is(err, type)
<1>1. PICK k \in 1 .. Len(Wrap(node, err).nodes) : Wrap(node, err).nodes[k].type = type
  BY WrapFits, IsFinds
<1>2. k # 1 /\ Len(err.nodes) \in Nat /\ Len(Wrap(node, err).nodes) = Len(err.nodes) + 1
  BY <1>1, WrapFits
<1>3. k - 1 \in 1 .. Len(err.nodes)
  BY <1>2
<1>4. Wrap(node, err).nodes[(k - 1) + 1] = err.nodes[k - 1]
  BY <1>3, WrapFits
<1>5. err.nodes[k - 1].type = type
  BY <1>1, <1>4
<1> QED
  BY <1>3, <1>5, IsFinds

LEMMA FromInside ==
  ASSUME NEW err, err.nodes \in Seq(Nodes), err.spine \in 0 .. Len(err.nodes), NEW i \in 1 .. Len(err.nodes)
  PROVE  /\ From(err, i).nodes \in Seq(Nodes) /\ 1 <= Len(From(err, i).nodes)
         /\ From(err, i).nodes[1] = err.nodes[i]
         /\ Inside(From(err, i), err)
<1>1. CASE i <= err.spine
  <2>1. From(err, i).nodes = SubSeq(err.nodes, i, Len(err.nodes))
    BY <1>1 DEF From
  <2>2. /\ From(err, i).nodes \in Seq(Nodes) /\ Len(From(err, i).nodes) = Len(err.nodes) - i + 1
        /\ \A k \in 1 .. Len(From(err, i).nodes) :
             From(err, i).nodes[k] = err.nodes[i + k - 1] /\ i + k - 1 \in 1 .. Len(err.nodes)
    BY <2>1
  <2>3. Inside(From(err, i), err)
    <3> SUFFICES ASSUME NEW k \in 1 .. Len(From(err, i).nodes)
                 PROVE  \E n \in 1 .. Len(err.nodes) : From(err, i).nodes[k] = err.nodes[n]
      BY DEF Inside
    <3>1. From(err, i).nodes[k] = err.nodes[i + k - 1] /\ i + k - 1 \in 1 .. Len(err.nodes)
      BY <2>2
    <3> QED
      BY <3>1
  <2>4. 1 \in 1 .. Len(From(err, i).nodes) /\ i + 1 - 1 = i
    BY <2>2
  <2>5. From(err, i).nodes[1] = err.nodes[i]
    BY <2>2, <2>4
  <2> QED
    BY <2>2, <2>3, <2>4, <2>5
<1>2. CASE ~(i <= err.spine)
  <2>1. From(err, i).nodes = <<err.nodes[i]>>
    BY <1>2 DEF From, Leaf
  <2>2. err.nodes[i] \in Nodes
    OBVIOUS
  <2>3. From(err, i).nodes \in Seq(Nodes) /\ Len(From(err, i).nodes) = 1 /\ From(err, i).nodes[1] = err.nodes[i]
    BY <2>1, <2>2
  <2> QED
    BY <2>3 DEF Inside
<1> QED
  BY <1>1, <1>2

LEMMA InsideIs ==
  ASSUME NEW err, err.nodes \in Seq(Nodes), NEW p, p.nodes \in Seq(Nodes), Inside(p, err), NEW type, Is(p, type)
  PROVE  Is(err, type)
BY IsFinds DEF Inside

\* What the tables answer 500 for.
LEMMA Fives ==
  /\ \A c \in Codes : HTTP[c] = 500 => c \in {"Unknown", "Internal"}
  /\ \A s \in Semantics : SemanticErrorToHTTP[s] = 500 => s \in {"Unknown", "Internal", "Canceled"}
<1>1. \A c \in Codes : HTTP[c] = 500 => c \in {"Unknown", "Internal"}
  BY DEF HTTP, Codes
<1>2. \A s \in Semantics : SemanticErrorToHTTP[s] = 500 => s \in {"Unknown", "Internal", "Canceled"}
  BY DEF SemanticErrorToHTTP, Semantics
<1> QED
  BY <1>1, <1>2

\* The errors that Sentry does not hear of although the client gets a 500.
QuietErrors == {"skipSentry", "epipe", "reset", "canceled", "dnsCanceled", "deadline"} \cup Ogen
Skipped == {"skipSentry", "canceled", "deadline", "reset", "epipe"} \cup Ogen

\* PresentStatus reports an error answered 500 unless it is a quiet one.
LEMMA StatusFault ==
  ASSUME NEW err, IsError(err), HTTP[FromError(err)] = 500, shouldSkipSentry(PresentedStatus(err))
  PROVE  \E type \in QuietErrors : Is(err, type)
<1> DEFINE st == As(err, {"status"})
           p == PresentedStatus(err)
<1>1. /\ err.nodes \in Seq(Nodes) /\ err.spine \in 0 .. Len(err.nodes) /\ Len(err.nodes) \in Nat
      /\ st # 0 => st \in 1 .. Len(err.nodes) /\ err.nodes[st].type = "status" /\ err.nodes[st].value \in Codes
  BY AsFinds DEF IsError
<1>2. FromError(err) \in {"Unknown", "Internal"}
  BY FromErrorFits, Fives
<1>3. /\ p.nodes \in Seq(Nodes) /\ 1 <= Len(p.nodes)
      /\ p.nodes[1].type = "status" /\ p.nodes[1].value \in {"Unknown", "Internal"}
      /\ \A type \in Skipped : Is(p, type) => Is(err, type)
  <2>1. CASE st # 0
    <3>1. p = From(err, st) /\ FromError(err) = err.nodes[st].value
      BY <2>1 DEF PresentedStatus, FromError
    <3>2. /\ From(err, st).nodes \in Seq(Nodes) /\ 1 <= Len(From(err, st).nodes)
          /\ From(err, st).nodes[1] = err.nodes[st] /\ Inside(From(err, st), err)
      BY <1>1, <2>1, FromInside
    <3> HIDE DEF p, st
    <3> QED
      BY <1>1, <1>2, <2>1, <3>1, <3>2, InsideIs
  <2>2. CASE st = 0
    <3> DEFINE node == StatusNode(FromError(err))
    <3>1. p = Wrap(node, err)
      BY <2>2 DEF PresentedStatus
    <3>2. node \in Nodes /\ node.type = "status" /\ node.value = FromError(err)
      BY <1>2 DEF StatusNode, Node, Nodes, WrapperTypes, Codes
    <3>3. \A type \in Skipped : type # "status"
      BY DEF Skipped, Ogen
    <3> HIDE DEF node, p
    <3>4. \A type \in Skipped : Is(p, type) => Is(err, type)
      BY <1>1, <3>1, <3>2, <3>3, WrapInside
    <3>5. /\ p.nodes \in Seq(Nodes) /\ Len(p.nodes) = Len(err.nodes) + 1 /\ p.nodes[1] = node
      BY <1>1, <3>1, <3>2, WrapFits
    <3> QED
      BY <1>1, <1>2, <3>2, <3>4, <3>5
  <2> QED
    BY <2>1, <2>2
<1> HIDE DEF p, st
<1>4. As(p, {"status"}) = 1
  BY <1>3, AsFinds
<1>5. \E type \in Skipped : Is(p, type)
  <2>1. shouldSkipSentry(p)
    BY DEF p
  <2>2. \/ \E type \in Skipped : Is(p, type)
        \/ IF Is(p, "status") THEN p.nodes[As(p, {"status"})].value \notin {"Internal", "Unknown"}
           ELSE AsSemanticError(p) # 0 /\ Semantic(p) \notin {"Internal", "Unknown"}
    BY <2>1, Zenon DEF shouldSkipSentry, Skipped
  <2>3. Is(p, "status")
    BY <1>4 DEF Is
  <2> QED
    BY <1>3, <1>4, <2>2, <2>3
<1> QED
  BY <1>3, <1>5 DEF Skipped, QuietErrors

\* What a wrapper wraps has no other nodes than the chain.
LEMMA BelowInside ==
  ASSUME NEW err, err.nodes \in Seq(Nodes), NEW c \in 1 .. Len(err.nodes)
  PROVE  Inside(Below(err, c), err)
<1>1. IsTail(Below(err, c), err, c)
  BY BelowIsTail
<1> QED
  BY <1>1 DEF IsTail, Inside

\* PresentError reports an error answered 500 unless it is a quiet one, a
\* cancellation or a Status.
LEMMA SemanticFault ==
  ASSUME NEW err, IsError(err), CodeFromSemanticError(Presented(err)) = 500,
         shouldSkipSentry(Presented(err))
  PROVE  \/ \E type \in QuietErrors : Is(err, type)
         \/ \E i \in 1 .. Len(err.nodes) : err.nodes[i] = SemanticNode("Canceled")
         \/ Is(err, "status")
<1> DEFINE c == As(err, {"codeerr"})
           e == IF c = 0 THEN err ELSE Below(err, c)
           s == AsSemanticError(e)
           p == wrapWithSemantic(e)
<1>0. p = Presented(err)
  BY DEF Presented
<1>1. IsError(e) /\ Inside(e, err) /\ err.nodes \in Seq(Nodes)
  <2>1. /\ c # 0 => c \in 1 .. Len(err.nodes) /\ err.nodes[c].type = "codeerr"
        /\ err.nodes \in Seq(Nodes)
    BY AsFinds DEF IsError
  <2>2. Inside(err, err)
    BY DEF Inside
  <2> QED
    BY <2>1, <2>2, BelowFits, BelowInside
<1> HIDE DEF e, c
<1>2. /\ e.nodes \in Seq(Nodes) /\ e.spine \in 0 .. Len(e.nodes) /\ Len(e.nodes) \in Nat
      /\ s # 0 => s \in 1 .. Len(e.nodes) /\ e.nodes[s].type = "semerr" /\ e.nodes[s] \in Nodes
  <2>1. e.nodes \in Seq(Nodes) /\ e.spine \in 0 .. Len(e.nodes) /\ Len(e.nodes) \in Nat
    BY <1>1 DEF IsError
  <2>2. s \in 0 .. Len(e.nodes) /\ (s # 0 => e.nodes[s].type \in {"semerr"})
    BY <2>1, AsFinds DEF AsSemanticError
  <2> HIDE DEF s
  <2>3. s # 0 => s \in 1 .. Len(e.nodes)
    BY <2>1, <2>2
  <2> QED
    BY <2>1, <2>2, <2>3
<1>3. /\ p.nodes \in Seq(Nodes) /\ 1 <= Len(p.nodes)
      /\ p.nodes[1].type = "semerr" /\ p.nodes[1].value \in Semantics
  BY <1>1, WrapWithSemanticFits
<1>4. \A type \in Skipped \cup {"status"} : Is(p, type) => Is(e, type)
  <2>1. CASE s # 0
    <3>1. p = From(e, s)
      BY <2>1 DEF wrapWithSemantic
    <3> HIDE DEF p, s
    <3>2. Inside(p, e)
      BY <1>2, <2>1, <3>1, FromInside
    <3> QED
      BY <1>2, <1>3, <3>2, InsideIs
  <2>2. CASE s = 0
    <3> DEFINE node == SemanticNode(mapNonSemantic(e))
    <3>1. p = Wrap(node, e)
      BY <2>2 DEF wrapWithSemantic
    <3>2. node \in Nodes /\ node.type = "semerr"
      BY MapFits DEF SemanticNode, Node
    <3>3. \A type \in Skipped \cup {"status"} : type # "semerr"
      BY DEF Skipped, Ogen
    <3> HIDE DEF p, s, node
    <3> QED
      BY <1>2, <3>1, <3>2, <3>3, WrapInside
  <2> QED
    BY <2>1, <2>2
<1>5. \A type : Is(e, type) => Is(err, type)
  BY <1>1, <1>2, InsideIs
<1>6. Semantic(p) = p.nodes[1].value
  BY <1>3, FirstIsSemantic
<1>7. Semantic(p) \in {"Unknown", "Internal", "Canceled"}
  <2>1. SemanticErrorToHTTP[Semantic(p)] = 500
    BY <1>0 DEF CodeFromSemanticError
  <2> QED
    BY <1>3, <1>6, <2>1, Fives
<1>8. CASE Semantic(p) = "Canceled"
  <2>1. CASE s # 0
    <3>1. p = From(e, s)
      BY <2>1 DEF wrapWithSemantic
    <3> HIDE DEF p, s
    <3>2. p.nodes[1] = e.nodes[s]
      BY <1>2, <2>1, <3>1, FromInside
    <3>3. e.nodes[s].value = "Canceled" /\ e.nodes[s].type = "semerr" /\ e.nodes[s] \in Nodes
      BY <1>2, <1>6, <1>8, <2>1, <3>2
    <3>4. e.nodes[s] = SemanticNode("Canceled")
      BY <3>3 DEF Nodes, SemanticNode, Node
    <3> QED
      BY <1>1, <1>2, <2>1, <3>4 DEF Inside
  <2>2. CASE s = 0
    <3> DEFINE node == SemanticNode(mapNonSemantic(e))
    <3>1. p = Wrap(node, e)
      BY <2>2 DEF wrapWithSemantic
    <3>2. node \in Nodes /\ node.value = mapNonSemantic(e)
      BY MapFits DEF SemanticNode, Node
    <3> HIDE DEF p, s, node
    <3>3. p.nodes[1] = node
      BY <1>2, <3>1, <3>2, WrapFits
    <3>4. mapNonSemantic(e) = "Canceled"
      BY <1>6, <1>8, <3>2, <3>3
    <3>5. Is(e, "canceled") \/ Is(e, "dnsCanceled")
      BY <3>4 DEF mapNonSemantic
    <3> QED
      BY <1>5, <3>5 DEF QuietErrors
  <2> QED
    BY <2>1, <2>2
<1>9. CASE Semantic(p) \in {"Unknown", "Internal"}
  <2>1. shouldSkipSentry(p)
    BY <1>0
  <2> HIDE DEF p, s
  <2>2. \/ \E type \in Skipped : Is(p, type)
        \/ IF Is(p, "status") THEN p.nodes[As(p, {"status"})].value \notin {"Internal", "Unknown"}
           ELSE AsSemanticError(p) # 0 /\ Semantic(p) \notin {"Internal", "Unknown"}
    BY <2>1, Zenon DEF shouldSkipSentry, Skipped
  <2>3. \E type \in Skipped \cup {"status"} : Is(p, type)
    BY <1>9, <2>2
  <2>4. \E type \in Skipped \cup {"status"} : Is(err, type)
    BY <1>4, <1>5, <2>3
  <2>5. Skipped \subseteq QuietErrors
    BY DEF Skipped, QuietErrors
  <2>6. PICK type \in Skipped \cup {"status"} : Is(err, type)
    BY <2>4
  <2> QED
    BY <2>5, <2>6
<1> QED
  BY <1>7, <1>8, <1>9

\* What ErrorHandler answers with 500 sentrytooling.Report has captured, but for
\* the errors FaultsReported names.
THEOREM FaultsAreReported == ServerSpec => []FaultsReported
<1>1. ServerInv => FaultsReported
  <2> SUFFICES ASSUME ServerInv, Answered, plan.how = "error", hdr = 500, reports # 1
               PROVE  \/ \E type \in QuietErrors : Is(plan.err, type)
                      \/ \E i \in DOMAIN plan.err.nodes : plan.err.nodes[i] = SemanticNode("Canceled")
                      \/ plan.presenter = "PresentError" /\ Is(plan.err, "status")
    BY Zenon DEF FaultsReported, QuietErrors
  <2>1. pos = 0 /\ dir = "up" /\ plan \in Plans
    BY DEF ServerInv, ServerTypes, GoingDown, Unwinding, Answered
  <2>2. CodeOf(plan.err) = 500 /\ shouldSkipSentry(PresentedBy(plan.err))
    BY <2>1 DEF ServerInv, GoingUp, Panics
  <2>3. /\ IsError(plan.err) /\ DOMAIN plan.err.nodes = 1 .. Len(plan.err.nodes)
        /\ plan.presenter # "PresentError" => plan.presenter = "PresentStatus"
    BY <2>1, PlansAssumption DEF IsError
  <2>4. CASE plan.presenter = "PresentError"
    <3>1. CodeFromSemanticError(Presented(plan.err)) = 500 /\ shouldSkipSentry(Presented(plan.err))
      BY <2>2, <2>4 DEF CodeOf, PresentedBy
    <3> QED
      BY <2>3, <2>4, <3>1, SemanticFault
  <2>5. CASE plan.presenter # "PresentError"
    <3>1. HTTP[FromError(plan.err)] = 500 /\ shouldSkipSentry(PresentedStatus(plan.err))
      BY <2>2, <2>3, <2>5 DEF CodeOf, PresentedBy
    <3> QED
      BY <2>3, <3>1, StatusFault
  <2> QED
    BY <2>4, <2>5
<1> QED
  BY <1>1, ServerInvHolds, PTL

=============================================================================
