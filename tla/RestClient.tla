----------------------------- MODULE RestClient -----------------------------
(***************************************************************************)
(* One call through an http.Client of internal/resttooling: a chain of     *)
(* round trippers around the transport, some of them once per call, the    *)
(* ones inside the retry loop once per attempt, with requests on the wire  *)
(* that outlive the attempt that sent them.                                *)
(*                                                                         *)
(* The call walks down the chain and comes up with a result, so its        *)
(* position is a layer and a direction.  An error is the set of the        *)
(* sentinels errors.Is finds in it; {} is nil.  Header names, request ids, *)
(* spans and log lines are data no layer branches on and are left out.     *)
(***************************************************************************)
EXTENDS Integers, Sequences, FiniteSets

CONSTANTS
  Limit,     \* strategy.Limit of the retry strategy: attempts in a call
  Clients,   \* sets of options a client is built with besides the default ones
  Methods,   \* HTTP methods of the calls
  Policies   \* network retry policies

ASSUME LimitAssumption == Limit \in Nat \ {0}

VARIABLES
  opts,      \* the options of the client
  call,      \* the call's method and the client's network retry policy
  ctx,       \* context of the call: "live", "canceled" or "expired"
  at, dir,   \* layer the call is in (0: returned) and where it is heading
  res,       \* result on its way up: attempt of the response (0: nil), error
  n,         \* attempts started
  reader,    \* the reader installed in r.Body: the attempt it was made for
  used,      \* readers that have been read to the end
  wire,      \* what became of each attempt's request
  late,      \* attempts given up by the timer
  open,      \* responses whose body is not closed
  events     \* egress metric events

vars == <<opts, call, ctx, at, dir, res, n, reader, used, wire, late, open, events>>
walk == <<opts, call, ctx>>

Attempts == 1 .. Limit
OK == 200
Retriable == 503  \* one of 503, 429, 502, 423

\* The order of the options; the first is entered first.
optionsConfig ==
  <<"HTTP2", "RateLimiter", "Headers", "RequestID", "Logging", "Retries", "Tracing",
    "Metrics", "Timeout", "Transport">>

Layer == IF at = 0 THEN "caller" ELSE optionsConfig[at]

\* applyOptionsCfg leaves out the options that are nil: layer i calls layer j
\* if j is the next one the client has.
Installed(i) == i # 0 => optionsConfig[i] \in opts
Calls(i, j) ==
  /\ i < j /\ Installed(i) /\ Installed(j)
  /\ \A k \in (i + 1)..(j - 1) : ~Installed(k)

\* The options NewHTTPClientFromConfig always adds, and a choice of the rest.
NewHTTPClientFromConfig(extras) == {"Logging", "RequestID", "Transport"} \cup extras

Idempotent == call.method \in {"GET", "HEAD", "OPTIONS"}
HasBody == call.method = "POST"
CtxErr == IF ctx = "canceled" THEN {"canceled"} ELSE {"deadline"}
NewPermanentError(err) == err \cup {"mustStop"}
IsPermanentError(err) == "mustStop" \in err

\* checkContext: the error is the cancellation of the call.
checkContext(err) == ctx = "canceled" \/ "canceled" \in err

\* isNetworkTimeout, and the other failures after which the server may have
\* seen the request.
isNetworkTimeout(err) == err \cap {"nettimeout", "deadline"} # {}

\* Mutant: a reset connection is retried whatever the method.
MutRetryAnyReset(err) ==
  IF checkContext(err) THEN NewPermanentError(err)
  ELSE IF err \cap {"timeout", "reset"} # {} THEN err
  ELSE IF (err \cap {"refused", "eof"} # {} \/ isNetworkTimeout(err)) /\ ~Idempotent
       THEN NewPermanentError(err)
  ELSE err

StraightforwardNetworkRetry(err) ==
  IF checkContext(err) THEN NewPermanentError(err)
  ELSE IF "timeout" \in err THEN err
  ELSE IF (err \cap {"reset", "refused", "eof"} # {} \/ isNetworkTimeout(err)) /\ ~Idempotent
       THEN NewPermanentError(err)
  ELSE err

\* The slug of the call is retryable or not, and the policy may trust methods.
URISlugBasedNetworkRetry(err, slugKnown, adhereToRESTIdempotency) ==
  IF checkContext(err) THEN NewPermanentError(err)
  ELSE IF \/ "timeout" \in err
          \/ Idempotent /\ adhereToRESTIdempotency
          \/ slugKnown
          \/ "refused" \in err
       THEN err ELSE NewPermanentError(err)

UnconditionalNetworkRetry(err) ==
  IF checkContext(err) THEN NewPermanentError(err) ELSE err

checkNetworkError(err) ==
  IF err = {} THEN {}
  ELSE CASE call.policy = "straightforward" -> StraightforwardNetworkRetry(err)
         [] call.policy = "unconditional" -> UnconditionalNetworkRetry(err)
         [] call.policy = "slug" -> URISlugBasedNetworkRetry(err, TRUE, FALSE)
         [] call.policy = "idempotency" -> URISlugBasedNetworkRetry(err, FALSE, TRUE)

\* RepeatRetriableStatusCodes of the response in hand.
checkResponse(k) == IF wire[k].status = Retriable THEN {"status"} ELSE {}

Result(k, err) == [resp |-> k, err |-> err]
Nothing == Result(0, {})

Init ==
  /\ \E extras \in Clients : opts = NewHTTPClientFromConfig(extras)
  /\ call \in [method : Methods, policy : IF "Retries" \in opts THEN Policies ELSE {"none"}]
  /\ ctx = "live"
  /\ \E first \in DOMAIN optionsConfig : Calls(0, first) /\ at = first
  /\ dir = "down" /\ res = Nothing
  /\ n = 0 /\ reader = 0 /\ used = {} /\ late = {} /\ open = {}
  /\ events = 0
  /\ wire = [k \in Attempts |-> [st |-> "none", reader |-> 0, whole |-> TRUE, served |-> FALSE,
                                 status |-> 0, err |-> {}]]

Descend ==
  /\ \E below \in DOMAIN optionsConfig : Calls(at, below) /\ at' = below
  /\ dir' = "down" /\ res' = Nothing

\* Layer i returns r to the layer that called it, or to the caller.
ReturnFrom(i, r) ==
  /\ \E above \in {0} \cup DOMAIN optionsConfig : Calls(above, i) /\ at' = above
  /\ dir' = "up" /\ res' = r
Return(r) == ReturnFrom(at, r)

\* EnsureGetBodyMethod reads the body once and replaces it by a copy.
EnsureGetBodyMethod ==
  \/ Descend
  \/ HasBody /\ reader = 0 /\ Return(Result(0, {"body"}))

\* limiter.Wait passes, or fails because the context is or will be done.
RateLimiterDown == Layer = "RateLimiter" /\ (Descend \/ Return(Result(0, {"limiter"} \cup CtxErr)))

\* setHeaders may fail; the headers it returns are set on the shared request.
HeadersDown == Layer = "Headers" /\ (Descend \/ Return(Result(0, {"headers"})))

\* The request id of the context, or a new one, goes into the header.
RequestIDDown == Layer = "RequestID" /\ Descend

\* Layers that hand the request on, or refuse to.
PassDown ==
  /\ dir = "down"
  /\ \/ Layer = "HTTP2" /\ EnsureGetBodyMethod
     \/ RateLimiterDown
     \/ HeadersDown
     \/ RequestIDDown
     \/ Layer \in {"Logging", "Tracing", "Metrics", "Timeout"} /\ Descend
  /\ UNCHANGED <<walk, n, reader, used, wire, late, open, events>>

PassUp ==
  /\ dir = "up" /\ Layer \in {"HTTP2", "RateLimiter", "Headers", "RequestID", "Tracing",
                              "Timeout", "Transport"}
  /\ Return(res)
  /\ UNCHANGED <<walk, n, reader, used, wire, late, open, events>>

\* metricsRoundTripper: one event, whatever came back.
MetricsUp ==
  /\ dir = "up" /\ Layer = "Metrics"
  /\ events' = events + 1
  /\ Return(res)
  /\ UNCHANGED <<walk, n, reader, used, wire, late, open>>

\* loggingTripper: an error hides the response that came with it.
LoggingUp ==
  /\ dir = "up" /\ Layer = "Logging"
  /\ Return(IF res.err # {} THEN Result(0, res.err) ELSE res)
  /\ UNCHANGED <<walk, n, reader, used, wire, late, open, events>>

\* Mutant: the body is not substituted for the next attempt.
MutKeepBody == reader' = reader

\* r.Body, getBodyErr = r.GetBody(): a fresh reader for the attempt.
FreshBody == reader' = IF HasBody THEN n + 1 ELSE reader

\* EnsureGetBodyMethod or a GetBody of the caller's own fails.
BodyErr == NewPermanentError({"body"})

\* retryableRoundTripper.RoundTrip up to the first attempt.
RetriesDown ==
  /\ dir = "down" /\ Layer = "Retries"
  /\ \/ Descend /\ FreshBody
     \/ HasBody /\ Return(Result(0, BodyErr)) /\ UNCHANGED reader
  /\ UNCHANGED <<walk, n, used, wire, late, open, events>>

\* Mutant: the body of the response is closed as the attempt returns.
MutRetriesCheckCloses ==
  /\ dir = "up" /\ Layer = "Retries"
  /\ LET err == checkNetworkError(res.err) IN
       res' = Result(res.resp, IF err # {} THEN err
                               ELSE IF res.resp # 0 THEN checkResponse(res.resp) ELSE {})
  /\ dir' = "decide"
  /\ open' = open \ {res.resp}
  /\ UNCHANGED <<walk, at, n, reader, used, wire, late, events>>

\* The end of the action: the two checks of what the attempt returned.
RetriesCheck ==
  /\ dir = "up" /\ Layer = "Retries"
  /\ LET err == checkNetworkError(res.err) IN
       res' = Result(res.resp, IF err # {} THEN err
                               ELSE IF res.resp # 0 THEN checkResponse(res.resp) ELSE {})
  /\ dir' = "decide"
  /\ UNCHANGED <<walk, at, n, reader, used, wire, late, open, events>>

\* retry.Do stops on success, on a permanent error and at its limit ...
RetryStop ==
  /\ dir = "decide"
  /\ res.err = {} \/ IsPermanentError(res.err) \/ n = Limit
  /\ Return(res)
  /\ UNCHANGED <<walk, n, reader, used, wire, late, open, events>>

\* ... or because the context is done after the backoff ...
RetryBreak ==
  /\ dir = "decide"
  /\ res.err # {} /\ ~IsPermanentError(res.err) /\ n < Limit /\ ctx # "live"
  /\ Return(Result(res.resp, CtxErr))
  /\ UNCHANGED <<walk, n, reader, used, wire, late, open, events>>

\* ... and else calls the action again, which gets a fresh body, and has the
\* response of the previous attempt to get rid of first ...
Again == dir = "decide" /\ res.err # {} /\ ~IsPermanentError(res.err) /\ n < Limit /\ ctx = "live"

RetryAgain ==
  /\ Again /\ FreshBody
  /\ IF res.resp = 0 THEN Descend ELSE dir' = "drain" /\ UNCHANGED <<at, res>>
  /\ UNCHANGED <<walk, n, used, wire, late, open, events>>

\* ... unless there is no fresh body: the error ends the loop, with the
\* response of the previous attempt still in hand.
RetryWithoutBody ==
  /\ Again /\ HasBody
  /\ Return(Result(res.resp, BodyErr))
  /\ UNCHANGED <<walk, n, reader, used, wire, late, open, events>>

\* Mutant: the response of the previous attempt is read and not closed.
MutDrain ==
  /\ dir = "drain"
  /\ Descend
  /\ UNCHANGED <<walk, n, reader, used, wire, late, open, events>>

\* io.Copy(io.Discard, resp.Body) and Close.  The copy ends when the server
\* has sent the whole body, or when the context of the call is done: the timer
\* of the attempt has stopped when its RoundTrip returned.
DrainAndClose ==
  /\ dir = "drain"
  /\ open' = open \ {res.resp}
  /\ Descend
  /\ UNCHANGED <<walk, n, reader, used, wire, late, events>>

\* The transport is called, in a goroutine of its own below Timeout.
TransportDown ==
  /\ dir = "down" /\ Layer = "Transport"
  /\ n' = n + 1
  /\ wire' = [wire EXCEPT ![n + 1].st = "spawned"]
  /\ dir' = "wait"
  /\ UNCHANGED <<walk, at, res, reader, used, late, open, events>>

\* The answer arrives while the call waits for it.
TransportUp ==
  /\ dir = "wait" /\ wire[n].st = "done"
  /\ Return(Result(IF wire[n].err = {} THEN n ELSE 0, wire[n].err))
  /\ UNCHANGED <<walk, n, reader, used, wire, late, open, events>>

\* Mutant: the wait ends with the answer only.
MutTimerAfterAnswer ==
  /\ dir = "wait" /\ "Timeout" \in opts /\ wire[n].st = "done"
  /\ late' = late \cup {n}
  /\ \E i \in DOMAIN optionsConfig :
       optionsConfig[i] = "Timeout" /\ ReturnFrom(i, Result(0, {"timeout"} \cup CtxErr))
  /\ UNCHANGED <<walk, n, reader, used, wire, open, events>>

\* timeoutsRoundTripper: the timer, or the context it is derived from, ends
\* the wait; the goroutine keeps its request.
TimerFires ==
  /\ dir = "wait" /\ "Timeout" \in opts
  /\ late' = late \cup {n}
  /\ \E i \in DOMAIN optionsConfig :
       optionsConfig[i] = "Timeout" /\ ReturnFrom(i, Result(0, {"timeout"} \cup CtxErr))
  /\ UNCHANGED <<walk, n, reader, used, wire, open, events>>

-----------------------------------------------------------------------------
\* The wire: http.Transport and the server, in the goroutine of attempt k.

\* RoundTrip takes the body out of the request it shares with the retry loop.
Capture(k) ==
  /\ wire[k].st = "spawned"
  /\ wire' = [wire EXCEPT ![k].st = "dialing", ![k].reader = reader]
  /\ UNCHANGED <<walk, at, dir, res, n, reader, used, late, open, events>>

Send(k) ==
  /\ wire[k].st = "dialing"
  /\ wire' = [wire EXCEPT ![k].st = "sent", ![k].whole = ~HasBody \/ wire[k].reader \notin used]
  /\ used' = IF HasBody THEN used \cup {wire[k].reader} ELSE used
  /\ UNCHANGED <<walk, at, dir, res, n, reader, late, open, events>>

Serve(k) ==
  /\ wire[k].st = "sent" /\ ~wire[k].served
  /\ wire' = [wire EXCEPT ![k].served = TRUE]
  /\ UNCHANGED <<walk, at, dir, res, n, reader, used, late, open, events>>

\* The server answers what it has served, or turns the request down.
Answer(k, status) ==
  /\ wire[k].st = "sent" /\ (status = OK => wire[k].served)
  /\ wire' = [wire EXCEPT ![k].st = "done", ![k].status = status]
  /\ open' = open \cup {k}
  /\ UNCHANGED <<walk, at, dir, res, n, reader, used, late, events>>

Fail(k, err) ==
  /\ \/ wire[k].st = "dialing" /\ err \in {"refused", "nettimeout"}
     \/ wire[k].st = "sent" /\ err \in {"reset", "eof", "nettimeout", "other"}
  /\ wire' = [wire EXCEPT ![k].st = "done", ![k].err = {err}]
  /\ UNCHANGED <<walk, at, dir, res, n, reader, used, late, open, events>>

\* The transport gives up when the context of the call is done.
Abandon(k) ==
  /\ ctx # "live" /\ wire[k].st \in {"spawned", "dialing", "sent"}
  /\ wire' = [wire EXCEPT ![k].st = "done", ![k].err = CtxErr]
  /\ UNCHANGED <<walk, at, dir, res, n, reader, used, late, open, events>>

CtxDone(how) ==
  /\ ctx = "live" /\ at # 0
  /\ ctx' = how
  /\ UNCHANGED <<opts, call, at, dir, res, n, reader, used, wire, late, open, events>>

Walk == \/ PassDown \/ PassUp \/ MetricsUp \/ LoggingUp \/ RetriesDown \/ RetriesCheck
        \/ RetryStop \/ RetryBreak \/ RetryAgain \/ RetryWithoutBody \/ TransportDown \/ TransportUp

Wire == \E k \in Attempts :
          \/ Capture(k) \/ Send(k) \/ Serve(k) \/ Abandon(k)
          \/ \E s \in {OK, Retriable} : Answer(k, s)
          \/ \E e \in {"refused", "nettimeout", "reset", "eof", "other"} : Fail(k, e)

Next == Walk \/ DrainAndClose \/ TimerFires \/ Wire \/ \E how \in {"canceled", "expired"} : CtxDone(how)

\* The goroutine of the call runs, timers fire, and a transport notices that
\* its context is done, waiting for the answer or reading the body of one;
\* servers owe nothing, neither an answer nor the rest of a body.
Fairness ==
  /\ WF_vars(Walk) /\ WF_vars(TimerFires)
  /\ WF_vars(ctx # "live" /\ DrainAndClose)
  /\ \A k \in Attempts : WF_vars(Abandon(k))

Spec == Init /\ [][Next]_vars /\ Fairness

Returned == at = 0

-----------------------------------------------------------------------------
\* The response a call returns is the one of its last attempt and its body
\* has not been closed by the loop: the late answer of an attempt that timed
\* out is never taken for it (client.go, resttimeouts.go).  The metrics have
\* counted each attempt once, the abandoned ones too ("anything above Retries
\* is called separately for each retry").
AnswerOfLastAttempt ==
  Returned => /\ res.resp # 0 => res.resp = n /\ res.resp \in open /\ res.err = {}
              /\ "Metrics" \in opts => events = n

\* The retry loop holds at most one response: the bodies it has not closed
\* are the one in hand, those that arrived after their attempt was given up,
\* and, once the attempts are exhausted, the last one, which the logging
\* round tripper drops with the error (client.go "get rid of response body
\* from previous attempt").
OneResponseOpen ==
  \A k \in open \ late : k = n

\* Errors of the connection after which a policy of network.go gives up a call
\* that is not idempotent, since the server may have seen it.
HeldBack ==
  CASE call.policy = "straightforward" -> {"reset", "refused", "eof", "nettimeout"}
    [] call.policy = "idempotency" -> {"reset", "eof", "nettimeout", "other"}
    [] OTHER -> {}

\* A call that is not idempotent is not sent again after a broken or timed out
\* connection ("not retrying non-idempotent methods", network.go): on either
\* policy that looks at the method, whatever the timer, the context and the
\* earlier attempts did.  Attempts the timer gave up are repeated whatever
\* becomes of them, and are not constrained.
NotRepeatedOnceBroken ==
  ~Idempotent => \A k \in Attempts \ late : k < n => wire[k].err \cap HeldBack = {}

\* Every attempt sends the whole body, as long as no goroutine of an attempt
\* that was given up shares the request (client.go "we must keep the
\* original body and substitute it on every retry").
RetriedBodyIsWhole ==
  late = {} => \A k \in Attempts : wire[k].st = "sent" => wire[k].whole

\* With a timeout a call returns whatever the servers do, and without one it
\* returns once its context is done.  One thing holds it up: the retry loop
\* reads the body of the answer it drops with no timer but the context's, so
\* a body that stalls keeps the call there for ever (client.go:42, although
\* WithTimeout says that the timeout includes "reading the response body").
CallReturns ==
  \/ <>[](dir = "drain" /\ ctx = "live")
  \/ ("Timeout" \in opts \/ ctx # "live") ~> Returned

=============================================================================
