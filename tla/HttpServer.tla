----------------------------- MODULE HttpServer -----------------------------
(***************************************************************************)
(* One request through the middlewares of internal/resttooling around a    *)
(* handler that answers, presents an error or panics.                      *)
(*                                                                         *)
(* The middlewares share the request: they put values into its context     *)
(* with *r = *r.WithContext(ctx), so an outer one sees what an inner one   *)
(* has put there, unless the tracing middleware between them has passed on *)
(* a copy.  They share the answer through nested response writers, each of *)
(* which remembers the last status written through it, while the client    *)
(* gets the first.                                                         *)
(***************************************************************************)
EXTENDS ErrorMapping

CONSTANTS
  Chains,   \* middlewares of a server, outermost first
  Plans     \* what handlers do with a request: [how, err, presenter, stopped]

Middlewares == {"Recovery", "Sentry", "Tracing", "Security", "Logging", "Metrics"}

\* A chain in the order of NewMetricsHandler and of the middlewares' comments: the
\* recovery outside, one logging with Sentry before it, which LoggingMiddleware
\* depends on, and tracing never below the logging.
WellOrdered(ch) ==
  /\ ch \in Seq(Middlewares) /\ ch # << >>
  /\ \A i \in 1 .. Len(ch) : ch[i] = "Recovery" <=> i = 1
  /\ \A i, j \in 1 .. Len(ch) : ch[i] = "Tracing" /\ ch[j] = "Tracing" => i = j
  /\ \E i, j \in 1 .. Len(ch) :
       /\ i < j /\ ch[i] = "Sentry" /\ ch[j] = "Logging"
       /\ \A k \in 1 .. Len(ch) : (ch[k] = "Logging" => k = j) /\ (ch[k] = "Tracing" => k < j)

ASSUME ChainsAssumption == \A ch \in Chains : WellOrdered(ch)
\* The error handler of a server: one of the presenters, or the plain 500 of the
\* metrics API, whose handler presents no errors.  A stopped path is one of
\* UrlStopList.
ASSUME PlansAssumption ==
  \A p \in Plans :
    /\ IsError(p.err)
    /\ p.presenter \in {"PresentError", "PresentStatus", "plain"}
    /\ p.how \in {"ok", "error", "panic", "headerThenPanic"}
    /\ p.presenter = "plain" => p.how # "error"
    /\ p.stopped \in BOOLEAN

VARIABLES
  chain, plan,  \* the server and what its handler will do
  pos, dir,     \* layer of the request, and "down", "up" or "panic"
  thrown,       \* the error of the panic
  hdr,          \* status the client gets; 0 before the header is written
  writes,       \* calls of WriteHeader
  saved,        \* status remembered by the writer of each layer
  objs,         \* contexts of the server's request and of the traced copy
  errPtr,       \* what the error placeholder points to
  logs,         \* entries on how the request ended, without the stack traces of panics
  counted,      \* statuses counted by the API metrics
  reports       \* errors captured by Sentry

serverVars == <<chain, plan, pos, dir, thrown, hdr, writes, saved, objs, errPtr, logs, counted, reports>>
answer == <<hdr, writes, saved>>
sinks == <<logs, counted, reports>>

NoError == [nodes |-> << >>, spine |-> 0]
Abort == Leaf(Node("abort", ""))
Entry(kind, status) == [kind |-> kind, status |-> status]

\* Wrap of openapiapp puts a handler under its middlewares; the ones the
\* code keeps after Middlewares has dropped the nil ones are in Chains.
Layer == IF pos \in DOMAIN chain THEN chain[pos] ELSE "handler"

\* The request a layer holds: the one of the server, or the traced copy.
Obj(p) == IF \E i \in DOMAIN chain : i < p /\ chain[i] = "Tracing" THEN 2 ELSE 1

ServerInit ==
  /\ chain \in Chains /\ plan \in Plans
  /\ pos = 1 /\ dir = "down" /\ thrown = NoError
  /\ hdr = 0 /\ writes = 0 /\ saved = [i \in DOMAIN chain |-> 0]
  /\ objs = [o \in {1, 2} |-> [sentry |-> FALSE, place |-> FALSE]]
  /\ errPtr = NoError /\ logs = << >> /\ counted = << >> /\ reports = 0

Descend == pos' = pos + 1 /\ dir' = "down" /\ UNCHANGED thrown
Ascend == pos' = pos - 1 /\ dir' = "up" /\ UNCHANGED thrown
Panic(err) == pos' = pos - 1 /\ dir' = "panic" /\ thrown' = err

\* Mutant: the writers remember the first status only.
MutWriteHeaderSkips(code) ==
  /\ hdr' = IF hdr = 0 THEN code ELSE hdr
  /\ writes' = writes + 1
  /\ UNCHANGED saved

\* loggingResponseWriter.WriteHeader, through every writer above the caller,
\* down to net/http, which ignores all but the first.
WriteHeader(code) ==
  /\ hdr' = IF hdr = 0 THEN code ELSE hdr
  /\ writes' = writes + 1
  /\ saved' = [i \in DOMAIN chain |->
                 IF i < pos /\ chain[i] \in {"Logging", "Metrics"} THEN code ELSE saved[i]]

\* SetErrorInContext: the placeholder of the context at hand, if it has one.
SetErrorInContext(err) ==
  IF objs[Obj(pos)].place THEN errPtr' = err /\ UNCHANGED logs
  ELSE logs' = Append(logs, Entry("detached", 0)) /\ UNCHANGED errPtr

\* sentrytooling.Report: the hub of the context at hand, if it has one.
Report(err) ==
  reports' = IF ~shouldSkipSentry(err) /\ objs[Obj(pos)].sentry THEN reports + 1 ELSE reports

\* What the presenter makes of an error, and the HTTP code that goes with it.
PresentedBy(err) == IF plan.presenter = "PresentError" THEN Presented(err) ELSE PresentedStatus(err)
CodeOf(err) ==
  IF plan.presenter = "PresentError" THEN CodeFromSemanticError(Presented(err))
  ELSE IF plan.presenter = "PresentStatus" THEN HTTP[FromError(err)]
  ELSE 500

\* The presenters report the error and leave it for the logs; the metrics API
\* only answers.
ErrorHandler(err) ==
  /\ IF plan.presenter = "plain" THEN UNCHANGED <<errPtr, logs, reports>>
     ELSE Report(PresentedBy(err)) /\ SetErrorInContext(PresentedBy(err))
  /\ WriteHeader(CodeOf(err))

\* SecurityHeadersHandler and RecoveryMiddleware do nothing on the way down.
PassDown ==
  /\ dir = "down" /\ Layer \in {"Recovery", "Security"}
  /\ Descend
  /\ UNCHANGED <<chain, plan, answer, objs, errPtr, sinks>>

\* SentryMiddleware: a hub and a context of its own for the request.
SentryDown ==
  /\ dir = "down" /\ Layer = "Sentry"
  /\ objs' = [objs EXCEPT ![Obj(pos)].sentry = TRUE]
  /\ Descend
  /\ UNCHANGED <<chain, plan, answer, errPtr, sinks>>

\* TracingMiddleware: otelhttp serves a copy of the request.
TracingDown ==
  /\ dir = "down" /\ Layer = "Tracing"
  /\ objs' = [objs EXCEPT ![2] = objs[1]]
  /\ Descend
  /\ UNCHANGED <<chain, plan, answer, errPtr, sinks>>

\* MetricsMiddleware puts a writer around the answer, but for UrlStopList.
MetricsDown ==
  /\ dir = "down" /\ Layer = "Metrics"
  /\ saved' = IF plan.stopped THEN saved ELSE [saved EXCEPT ![pos] = 200]
  /\ Descend
  /\ UNCHANGED <<chain, plan, hdr, writes, objs, errPtr, sinks>>

\* LoggingMiddleware: the context of Sentry must be there; then the
\* placeholder for the error, and a writer around the answer.
LoggingDown ==
  /\ dir = "down" /\ Layer = "Logging"
  /\ IF objs[Obj(pos)].sentry
     THEN /\ objs' = [objs EXCEPT ![Obj(pos)].place = TRUE]
          /\ saved' = [saved EXCEPT ![pos] = 200]
          /\ Descend
     ELSE Panic(Leaf(Node("plain", ""))) /\ UNCHANGED <<objs, saved>>
  /\ UNCHANGED <<chain, plan, hdr, writes, errPtr, sinks>>

HandlerAnswers ==
  /\ dir = "down" /\ Layer = "handler" /\ plan.how = "ok"
  /\ WriteHeader(200)
  /\ Ascend
  /\ UNCHANGED <<chain, plan, objs, errPtr, sinks>>

HandlerFails ==
  /\ dir = "down" /\ Layer = "handler" /\ plan.how = "error"
  /\ ErrorHandler(plan.err)
  /\ Ascend
  /\ UNCHANGED <<chain, plan, objs, counted>>

HandlerPanics ==
  /\ dir = "down" /\ Layer = "handler" /\ plan.how \in {"panic", "headerThenPanic"}
  /\ IF plan.how = "panic" THEN UNCHANGED answer ELSE WriteHeader(200)
  /\ Panic(UnwrapPanic(plan.err))
  /\ UNCHANGED <<chain, plan, objs, errPtr, sinks>>

PassUp ==
  /\ dir \in {"up", "panic"}
  /\ \/ Layer \in {"Security", "Sentry", "Tracing"}
     \/ Layer = "Metrics" /\ dir = "panic"
     \/ Layer = "Recovery" /\ dir = "up"
  /\ pos' = pos - 1
  /\ UNCHANGED <<chain, plan, dir, thrown, answer, objs, errPtr, sinks>>

\* MetricsMiddleware after the request; a panic skips it.
MetricsUp ==
  /\ dir = "up" /\ Layer = "Metrics"
  /\ counted' = IF plan.stopped THEN counted ELSE Append(counted, saved[pos])
  /\ Ascend
  /\ UNCHANGED <<chain, plan, answer, objs, errPtr, logs, reports>>

\* LogAppError: cancellations are no errors.
LogAppError(err) == Entry(IF Is(err, "canceled") THEN "canceled" ELSE "error", saved[pos])

\* LoggingMiddleware after the request, with what the placeholder holds.
LoggingUp ==
  /\ dir = "up" /\ Layer = "Logging"
  /\ logs' = Append(logs, IF errPtr = NoError THEN Entry("success", saved[pos]) ELSE LogAppError(errPtr))
  /\ Ascend
  /\ UNCHANGED <<chain, plan, answer, objs, errPtr, counted, reports>>

\* Its deferred function: log the panic, unless it is an abort, and go on.
LoggingPanic ==
  /\ dir = "panic" /\ Layer = "Logging"
  /\ logs' = IF Is(thrown, "abort") THEN logs ELSE Append(logs, Entry("panic", 500))
  /\ Panic(thrown)
  /\ UNCHANGED <<chain, plan, answer, objs, errPtr, counted, reports>>

\* A panic the peer has caused by going away, or an abort.
Hushed(err) == Is(err, "epipe") \/ Is(err, "reset") \/ Is(err, "abort")

\* Mutant: every panic is swallowed without an answer.
MutRecoverySilent ==
  /\ dir = "panic" /\ Layer = "Recovery"
  /\ UNCHANGED <<answer, errPtr, logs, reports>>
  /\ Ascend
  /\ UNCHANGED <<chain, plan, objs, counted>>

\* RecoveryMiddleware: the panic ends here, with an answer or without.
RecoveryPanic ==
  /\ dir = "panic" /\ Layer = "Recovery"
  /\ IF Hushed(thrown) THEN UNCHANGED <<answer, errPtr, logs, reports>>
     ELSE ErrorHandler(thrown)
  /\ Ascend
  /\ UNCHANGED <<chain, plan, objs, counted>>

\* net/http completes the answer of a handler that has returned.
Finish ==
  /\ pos = 0 /\ dir = "up" /\ hdr = 0
  /\ hdr' = 200
  /\ UNCHANGED <<chain, plan, pos, dir, thrown, writes, saved, objs, errPtr, sinks>>

ServerNext == \/ PassDown \/ SentryDown \/ TracingDown \/ MetricsDown \/ LoggingDown
        \/ HandlerAnswers \/ HandlerFails \/ HandlerPanics
        \/ PassUp \/ MetricsUp \/ LoggingUp \/ LoggingPanic \/ RecoveryPanic \/ Finish

ServerSpec == ServerInit /\ [][ServerNext]_serverVars /\ WF_serverVars(ServerNext)

Answered == pos = 0 /\ hdr # 0

-----------------------------------------------------------------------------
\* The client of a handler that panics before it has written anything gets the
\* code the error handler has for the panic, through every order of layers
\* (recovery_middleware.go "recovers application from panics").  Panics over a
\* broken connection and aborts are not covered: the middleware ends them and
\* net/http answers 200.
PanicIsAnswered ==
  Answered /\ plan.how = "panic" /\ ~Hushed(thrown) => hdr = CodeOf(thrown)

\* The logs tell one story of each request, and it is what the client and the
\* metrics saw: one entry for a request that returned, with the status sent;
\* the entry of a panic says 500 whatever was sent (logging_middleware.go).
LogsTellTheTruth ==
  Answered =>
    LET told == {i \in DOMAIN logs : logs[i].kind # "detached"} IN
    /\ Cardinality(told) = IF plan.how \in {"panic", "headerThenPanic"} /\ Is(thrown, "abort")
                           THEN 0 ELSE 1
    /\ plan.how \in {"ok", "error"} =>
         /\ \A i \in told : logs[i].status = hdr
         /\ \A i \in DOMAIN counted : counted[i] = hdr

\* What is answered 500 is captured by Sentry: the exceptions are the errors
\* marked to be skipped, those of the generated decoders, broken pipes and
\* deadlines, a cancellation, and a Status that is given to the presenter of
\* semantic errors, which answers 500 and is judged by the Status.
FaultsReported ==
  Answered /\ plan.how = "error" /\ hdr = 500 =>
    \/ reports = 1
    \/ \E type \in {"skipSentry", "epipe", "reset", "canceled", "dnsCanceled", "deadline"} \cup Ogen :
         Is(plan.err, type)
    \/ \E i \in DOMAIN plan.err.nodes : plan.err.nodes[i] = SemanticNode("Canceled")
    \/ plan.presenter = "PresentError" /\ Is(plan.err, "status")

\* The two presenters give an error the same HTTP code although they look for
\* it in different orders and through different tables (errors.go, compat.go):
\* for every chain but those with a Status or a deadline, those with a codeerr
\* under a semantic error, which only one of them looks through, and those
\* with a semantics that the tables translate differently.
PresentersAgree ==
  LET err == plan.err
      semantics == {err.nodes[i].value : i \in {j \in DOMAIN err.nodes : err.nodes[j].type = "semerr"}}
  IN plan.how = "error" /\ err.spine = Len(err.nodes)
     /\ (\A type \in {"status", "deadline", "dnsCanceled"} : ~Is(err, type))
     /\ (As(err, {"codeerr"}) < AsSemanticError(err) \/ AsSemanticError(err) = 0)
     /\ semantics \cap {"NotImplemented", "Canceled", "SkipError", "PartialSuccess", "Unknown"} = {}
     => CodeFromSemanticError(Presented(err)) = HTTP[FromError(err)]

=============================================================================
