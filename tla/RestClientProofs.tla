-------------------------- MODULE RestClientProofs --------------------------
(***************************************************************************)
(* What the chain of round trippers keeps true, for every set of options,  *)
(* any limit of attempts, and every interleaving of the call with the      *)
(* goroutines of its attempts.                                             *)
(*                                                                         *)
(* The properties speak of a call that has returned or of the attempts     *)
(* that are over.  The invariant says what the result in hand means while  *)
(* it travels: below the retry loop it is the answer of the attempt at     *)
(* hand, above Logging it is a response or an error; and that an attempt   *)
(* which is over has ended on the wire, unless the timer gave it up.       *)
(***************************************************************************)
EXTENDS RestClient, TLAPS

\* Positions in optionsConfig.
LoggingAt == 5
RetriesAt == 6
MetricsAt == 8
TransportAt == 10

HasRetries == "Retries" \in opts

\* The call is inside the retry loop.
Inside == HasRetries /\ at >= RetriesAt

\* Where the call can be, and how many attempts it has made there.
Place ==
  /\ at \in 0..TransportAt /\ n \in 0..Limit
  /\ dir \in {"down", "wait", "up", "decide", "drain"}
  /\ {"Logging", "RequestID", "Transport"} \subseteq opts /\ Installed(at)
  /\ at = 0 => dir = "up"
  /\ dir \in {"decide", "drain"} => at = RetriesAt
  /\ dir = "wait" => at = TransportAt /\ 1 <= n
  /\ dir \in {"down", "drain"} => n < Limit
  /\ dir = "down" /\ (at <= RetriesAt \/ ~HasRetries) => n = 0
  /\ ~HasRetries => n <= 1
  /\ dir \in {"up", "decide", "drain"} /\ at >= RetriesAt => 1 <= n

\* Errors a transport returns.
WireErrors ==
  {{"refused"}, {"nettimeout"}, {"reset"}, {"eof"}, {"other"}, {"canceled"}, {"deadline"}}

WireStates ==
  [st : {"none", "spawned", "dialing", "sent", "done"}, reader : Nat, whole : BOOLEAN,
   served : BOOLEAN, status : {0, OK, Retriable}, err : WireErrors \cup {{}}]

\* An attempt that is over has ended on the wire, or the timer gave it up; a
\* body that is open belongs to an answer.
OnTheWire ==
  /\ wire \in [Attempts -> WireStates]
  /\ late \subseteq 1..n /\ open \subseteq 1..n
  /\ \A k \in Attempts :
       /\ k > n => wire[k].st = "none"
       /\ wire[k].st # "done" => wire[k].err = {}
       /\ k < n \/ (k = n /\ dir # "wait") => k \in late \/ wire[k].st = "done"
       /\ k \in open => wire[k].st = "done" /\ wire[k].err = {}

\* The responses that nobody has closed, and the one in hand.
InHand ==
  /\ open \ late \subseteq {n}
  /\ dir = "down" => open \subseteq late
  /\ dir = "wait" /\ wire[n].st = "done" /\ wire[n].err = {} => n \in open
  /\ dir \in {"up", "decide", "drain"} => res.resp \in {0, n} /\ (res.resp # 0 => n \in open)
  /\ dir \in {"up", "decide", "drain"} /\ Inside /\ n \notin late /\ n \in open => res.resp = n
  /\ dir = "up" /\ at < LoggingAt /\ res.resp # 0 => res.err = {}

\* The metrics have seen all attempts but the one that is still below them.
Metered ==
  "Metrics" \in opts =>
    events = IF dir = "wait" \/ (dir = "up" /\ at >= MetricsAt) THEN n - 1 ELSE n

\* Attempt k did not end with an error the policy gives up on.
Justified(k) == k \in late \/ wire[k].err \cap HeldBack = {}

\* Inside the loop the error in hand is the one of the attempt; the loop goes
\* on only after an attempt that is justified.
Verdict ==
  /\ dir = "up" /\ Inside /\ n \notin late =>
       res.err = wire[n].err /\ (res.err = {} => res.resp = n)
  /\ ~Idempotent =>
       /\ \A k \in Attempts : k < n => Justified(k)
       /\ dir \in {"down", "drain"} /\ 1 <= n => Justified(n)
       /\ dir = "decide" /\ res.err # {} /\ ~IsPermanentError(res.err) => Justified(n)

\* Unless an attempt was given up, the reader of the next request is fresh.
Body ==
  /\ used \subseteq Nat /\ reader \in Nat
  /\ ~HasBody => \A k \in Attempts : wire[k].whole
  /\ HasBody /\ late = {} =>
       /\ n = 0 => used = {}
       /\ HasRetries => used \subseteq 1..n
       /\ HasRetries /\ dir = "down" /\ at > RetriesAt => reader = n + 1
       /\ dir = "drain" => reader = n + 1
       /\ dir = "wait" /\ wire[n].st = "spawned" =>
            reader \notin used /\ (HasRetries => reader = n)
       /\ dir = "wait" /\ wire[n].st = "dialing" =>
            wire[n].reader \notin used /\ (HasRetries => wire[n].reader = n)
       /\ \A k \in Attempts : wire[k].st = "sent" => wire[k].whole

ClientInv == Place /\ OnTheWire /\ InHand /\ Metered /\ Verdict /\ Body

-----------------------------------------------------------------------------
\* The chain.

\* applyOptionsCfg: the positions of the layers.
LEMMA Positions ==
  /\ DOMAIN optionsConfig = 1..TransportAt
  /\ \A i \in 1..TransportAt :
       /\ optionsConfig[i] = "HTTP2" <=> i = 1
       /\ optionsConfig[i] = "RateLimiter" <=> i = 2
       /\ optionsConfig[i] = "Headers" <=> i = 3
       /\ optionsConfig[i] = "RequestID" <=> i = 4
       /\ optionsConfig[i] = "Logging" <=> i = LoggingAt
       /\ optionsConfig[i] = "Retries" <=> i = RetriesAt
       /\ optionsConfig[i] = "Tracing" <=> i = 7
       /\ optionsConfig[i] = "Metrics" <=> i = MetricsAt
       /\ optionsConfig[i] = "Timeout" <=> i = 9
       /\ optionsConfig[i] = "Transport" <=> i = TransportAt
BY DEF optionsConfig, LoggingAt, RetriesAt, MetricsAt, TransportAt

\* The layer the call is in.
LEMMA LayerPosition ==
  ASSUME at \in 0..TransportAt
  PROVE  /\ Layer = "Logging" => at = LoggingAt
         /\ Layer = "Retries" => at = RetriesAt
         /\ Layer = "Metrics" => at = MetricsAt
         /\ Layer = "Transport" => at = TransportAt
         /\ Layer \in {"HTTP2", "RateLimiter", "Headers", "RequestID"} => at \in 1..4
         /\ Layer \in {"Tracing", "Timeout"} => at \in {7, 9}
<1>1. CASE at = 0
  BY <1>1 DEF Layer
<1>2. CASE at # 0
  BY <1>2, Positions DEF Layer, LoggingAt, RetriesAt, MetricsAt, TransportAt
<1> QED
  BY <1>1, <1>2

\* A layer that hands the request on reaches the next one the client has.
LEMMA Descends ==
  ASSUME Place, Descend, UNCHANGED opts
  PROVE  /\ dir' = "down" /\ res' = Nothing
         /\ at' \in 1..TransportAt /\ at < at' /\ Installed(at)'
         /\ HasRetries /\ at < RetriesAt => at' <= RetriesAt
         /\ at < LoggingAt => at' <= LoggingAt
<1>1. PICK j \in 1..TransportAt : Calls(at, j) /\ at' = j
  BY Positions DEF Descend
<1>2. /\ at < j /\ Installed(j)
      /\ \A k \in (at + 1)..(j - 1) : ~Installed(k)
  BY <1>1 DEF Calls
<1>3. HasRetries => Installed(RetriesAt)
  BY Positions DEF HasRetries, Installed, RetriesAt, TransportAt
<1>4. Installed(LoggingAt)
  BY Positions DEF Place, Installed, LoggingAt, TransportAt
<1>5. at \in Int /\ j \in Int /\ RetriesAt \in Int /\ LoggingAt \in Int
  BY DEF Place, RetriesAt, LoggingAt, TransportAt
<1>6. /\ HasRetries /\ at < RetriesAt => j <= RetriesAt
      /\ at < LoggingAt => j <= LoggingAt
  BY <1>2, <1>3, <1>4, <1>5
<1> QED
  BY <1>1, <1>2, <1>6 DEF Descend, Installed

\* A layer returns to the one above it that the client has: below the loop the
\* result passes the metrics, the loop and the logging.
LEMMA Returns ==
  ASSUME Place, NEW i \in 1..TransportAt, NEW r, ReturnFrom(i, r), UNCHANGED opts
  PROVE  /\ dir' = "up" /\ res' = r
         /\ at' \in 0..TransportAt /\ at' < i /\ Installed(at)'
         /\ i > LoggingAt => at' >= LoggingAt
         /\ HasRetries /\ i > RetriesAt => at' >= RetriesAt
         /\ "Metrics" \in opts /\ i > MetricsAt => at' >= MetricsAt
<1>1. PICK j \in 0..TransportAt : Calls(j, i) /\ at' = j
  BY Positions DEF ReturnFrom, TransportAt
<1>2. /\ j < i /\ Installed(j)
      /\ \A k \in (j + 1)..(i - 1) : ~Installed(k)
  BY <1>1 DEF Calls
<1>3. /\ HasRetries => Installed(RetriesAt)
      /\ "Metrics" \in opts => Installed(MetricsAt)
      /\ Installed(LoggingAt)
  BY Positions DEF Place, HasRetries, Installed, RetriesAt, MetricsAt, LoggingAt, TransportAt
<1>4. i \in Int /\ j \in Int /\ RetriesAt \in Int /\ LoggingAt \in Int /\ MetricsAt \in Int
  BY DEF RetriesAt, LoggingAt, MetricsAt, TransportAt
<1>5. /\ i > LoggingAt => j >= LoggingAt
      /\ HasRetries /\ i > RetriesAt => j >= RetriesAt
      /\ "Metrics" \in opts /\ i > MetricsAt => j >= MetricsAt
  BY <1>2, <1>3, <1>4
<1> QED
  BY <1>1, <1>2, <1>5 DEF ReturnFrom, Installed
USE DEF LoggingAt, RetriesAt, MetricsAt, TransportAt

-----------------------------------------------------------------------------
\* The walk of the call.

\* A layer outside the loop, or one inside it, hands the request on.
LEMMA DescendKeeps ==
  ASSUME ClientInv, dir = "down", at # RetriesAt, Descend,
         UNCHANGED <<walk, n, reader, used, wire, late, open, events>>
  PROVE  ClientInv'
<1>1. /\ dir' = "down" /\ at' \in 1..TransportAt /\ at < at' /\ Installed(at)'
      /\ HasRetries /\ at < RetriesAt => at' <= RetriesAt
      /\ UNCHANGED <<opts, call, ctx>>
  BY Descends DEF ClientInv, walk
<1>2. Place'
  BY <1>1 DEF ClientInv, Place, HasRetries
<1>3. OnTheWire'
  BY <1>1 DEF ClientInv, OnTheWire
<1>4. InHand'
  BY <1>1 DEF ClientInv, InHand
<1>5. Metered'
  BY <1>1 DEF ClientInv, Metered
<1>6. Verdict'
  BY <1>1 DEF ClientInv, Verdict, Justified, HeldBack, Idempotent
<1>7. Body'
  BY <1>1 DEF ClientInv, Place, Body, HasRetries, HasBody
<1> QED
  BY <1>2, <1>3, <1>4, <1>5, <1>6, <1>7 DEF ClientInv

\* A layer outside the loop refuses the request before the first attempt.
LEMMA RefusalKeeps ==
  ASSUME ClientInv, dir = "down", at \in 1..RetriesAt, NEW e, Return(Result(0, e)),
         UNCHANGED <<walk, n, reader, used, wire, late, open, events>>
  PROVE  ClientInv'
<1>1. /\ dir' = "up" /\ res' = Result(0, e) /\ at' \in 0..TransportAt /\ at' < at
      /\ Installed(at)' /\ UNCHANGED <<opts, call, ctx>>
  BY Returns DEF ClientInv, Return, walk
<1>2. n = 0 /\ at' < RetriesAt
  BY <1>1 DEF ClientInv, Place
<1>3. Place'
  BY <1>1, <1>2 DEF ClientInv, Place, HasRetries
<1>4. OnTheWire'
  BY <1>1 DEF ClientInv, OnTheWire
<1>5. InHand'
  BY <1>1, <1>2 DEF ClientInv, OnTheWire, InHand, Inside, Result
<1>6. Metered'
  BY <1>1, <1>2 DEF ClientInv, Metered
<1>7. Verdict'
  BY <1>1, <1>2 DEF ClientInv, Verdict, Justified, HeldBack, Idempotent, Inside
<1>8. Body'
  BY <1>1, <1>2 DEF ClientInv, Place, Body, HasRetries, HasBody
<1> QED
  BY <1>3, <1>4, <1>5, <1>6, <1>7, <1>8 DEF ClientInv

LEMMA PassDownKeeps ==
  ASSUME ClientInv, PassDown
  PROVE  ClientInv'
<1>1. dir = "down" /\ UNCHANGED <<walk, n, reader, used, wire, late, open, events>>
  BY DEF PassDown
<1>2. at \in 0..TransportAt
  BY DEF ClientInv, Place
<1>3. CASE Layer = "HTTP2" /\ EnsureGetBodyMethod
  BY <1>1, <1>2, <1>3, LayerPosition, DescendKeeps, RefusalKeeps DEF EnsureGetBodyMethod
<1>4. CASE RateLimiterDown
  BY <1>1, <1>2, <1>4, LayerPosition, DescendKeeps, RefusalKeeps DEF RateLimiterDown
<1>5. CASE HeadersDown
  BY <1>1, <1>2, <1>5, LayerPosition, DescendKeeps, RefusalKeeps DEF HeadersDown
<1>6. CASE RequestIDDown
  BY <1>1, <1>2, <1>6, LayerPosition, DescendKeeps DEF RequestIDDown
<1>7. CASE Layer \in {"Logging", "Tracing", "Metrics", "Timeout"} /\ Descend
  BY <1>1, <1>2, <1>7, LayerPosition, DescendKeeps
<1> QED
  BY <1>3, <1>4, <1>5, <1>6, <1>7 DEF PassDown

\* A result goes up: unchanged below the loop, and without a response if it
\* leaves Logging with an error.
LEMMA ReturnKeeps ==
  ASSUME ClientInv, dir \in {"up", "decide"}, at \in 1..TransportAt, NEW r, Return(r),
         r.resp \in {0, res.resp},
         dir = "up" /\ at \notin {LoggingAt, RetriesAt} => r = res,
         at = LoggingAt /\ r.resp # 0 => r.err = {},
         dir = "up" => at # RetriesAt,
         events' = IF at = MetricsAt THEN events + 1 ELSE events,
         UNCHANGED <<walk, n, reader, used, wire, late, open>>
  PROVE  ClientInv'
<1>1. /\ dir' = "up" /\ res' = r
      /\ at' \in 0..TransportAt /\ at' < at /\ Installed(at)'
      /\ at > LoggingAt => at' >= LoggingAt
      /\ HasRetries /\ at > RetriesAt => at' >= RetriesAt
      /\ "Metrics" \in opts /\ at > MetricsAt => at' >= MetricsAt
      /\ UNCHANGED <<opts, call, ctx>>
  BY Returns DEF ClientInv, Return, walk
<1>2. at' >= RetriesAt => at > RetriesAt /\ dir = "up" /\ r = res
  BY <1>1 DEF ClientInv, Place
<1>3. Place'
  BY <1>1, <1>2 DEF ClientInv, Place, HasRetries
<1>4. OnTheWire'
  <2>1. dir # "wait" /\ dir' # "wait"
    BY <1>1
  <2> QED
    BY <1>1, <2>1 DEF ClientInv, OnTheWire
<1>5. InHand'
  <2>1. at' < LoggingAt => at <= LoggingAt
    BY <1>1
  <2>2. at < LoggingAt => dir = "up" /\ r = res
    BY DEF ClientInv, Place
  <2>3. at' < LoggingAt /\ r.resp # 0 => r.err = {}
    <3>1. CASE at < LoggingAt
      BY <2>2, <3>1 DEF ClientInv, InHand
    <3>2. CASE at = LoggingAt
      BY <3>2
    <3> QED
      BY <2>1, <3>1, <3>2
  <2>4. Inside' => Inside /\ r = res
    BY <1>1, <1>2 DEF Inside, HasRetries
  <2> QED
    BY <1>1, <2>3, <2>4 DEF ClientInv, InHand
<1>6. Metered'
  <2>1. /\ dir' = "up" /\ at > at' /\ UNCHANGED <<opts, n>>
        /\ "Metrics" \in opts /\ at > MetricsAt => at' >= MetricsAt
    BY <1>1
  <2>2. dir = "decide" => at = RetriesAt
    BY DEF ClientInv, Place
  <2>3. n \in Int /\ at \in Int /\ at' \in Int
    BY <1>1 DEF ClientInv, Place
  <2> QED
    BY <2>1, <2>2, <2>3 DEF ClientInv, Metered
<1>7. Verdict'
  BY <1>1, <1>2 DEF ClientInv, Verdict, Justified, HeldBack, Idempotent, Inside, HasRetries
<1>8. Body'
  BY <1>1 DEF ClientInv, Body, HasRetries, HasBody
<1> QED
  BY <1>3, <1>4, <1>5, <1>6, <1>7, <1>8 DEF ClientInv

LEMMA UpKeeps ==
  ASSUME ClientInv, PassUp \/ MetricsUp \/ LoggingUp \/ RetryStop \/ RetryBreak \/ RetryWithoutBody
  PROVE  ClientInv'
<1>1. at \in 0..TransportAt /\ (dir = "decide" => at = RetriesAt)
  BY DEF ClientInv, Place
<1>2. CASE PassUp
  <2>1. at \in {1, 2, 3, 4, 7, 9, 10}
    BY <1>1, <1>2, LayerPosition DEF PassUp
  <2> QED
    BY <1>2, <2>1, ReturnKeeps DEF PassUp
<1>3. CASE MetricsUp
  BY <1>1, <1>3, LayerPosition, ReturnKeeps DEF MetricsUp
<1>4. CASE LoggingUp
  <2> DEFINE r == IF res.err # {} THEN Result(0, res.err) ELSE res
  <2>1. at = LoggingAt /\ dir = "up" /\ Return(r)
        /\ UNCHANGED <<walk, n, reader, used, wire, late, open, events>>
    BY <1>1, <1>4, LayerPosition DEF LoggingUp
  <2>2. r.resp \in {0, res.resp} /\ (r.resp # 0 => r.err = {})
    BY DEF Result
  <2> HIDE DEF r
  <2> QED
    BY <2>1, <2>2, ReturnKeeps
<1>5. CASE RetryStop
  BY <1>1, <1>5, ReturnKeeps DEF RetryStop
<1>6. CASE RetryBreak
  <2>1. Result(res.resp, CtxErr).resp = res.resp
    BY DEF Result
  <2> QED
    BY <1>1, <1>6, <2>1, ReturnKeeps DEF RetryBreak
<1>7. CASE RetryWithoutBody
  <2>1. Result(res.resp, BodyErr).resp = res.resp
    BY DEF Result
  <2> QED
    BY <1>1, <1>7, <2>1, ReturnKeeps DEF RetryWithoutBody, Again
<1> QED
  BY <1>2, <1>3, <1>4, <1>5, <1>6, <1>7

-----------------------------------------------------------------------------
\* The retry loop.

\* checkNetworkError: the errors a policy gives up on are permanent.
LEMMA HeldBackIsPermanent ==
  ASSUME ~Idempotent, NEW err \in WireErrors, err \cap HeldBack # {}
  PROVE  IsPermanentError(checkNetworkError(err))
<1>1. err # {} /\ "timeout" \notin err
  BY DEF WireErrors
<1>2. CASE call.policy = "straightforward"
  <2>1. err \cap {"reset", "refused", "eof"} # {} \/ isNetworkTimeout(err)
    BY <1>2 DEF HeldBack, WireErrors, isNetworkTimeout
  <2> QED
    BY <1>1, <1>2, <2>1
       DEF checkNetworkError, StraightforwardNetworkRetry, NewPermanentError, IsPermanentError
<1>3. CASE call.policy = "idempotency"
  <2>1. "refused" \notin err
    BY <1>3 DEF HeldBack, WireErrors
  <2> QED
    BY <1>1, <1>3, <2>1
       DEF checkNetworkError, URISlugBasedNetworkRetry, NewPermanentError, IsPermanentError
<1> QED
  BY <1>2, <1>3 DEF HeldBack

LEMMA RetriesDownKeeps ==
  ASSUME ClientInv, RetriesDown
  PROVE  ClientInv'
<1>1. dir = "down" /\ at = RetriesAt /\ UNCHANGED <<walk, n, used, wire, late, open, events>>
  BY LayerPosition DEF RetriesDown, ClientInv, Place
<1>2. CASE Return(Result(0, BodyErr)) /\ UNCHANGED reader
  BY <1>1, <1>2, RefusalKeeps
<1>3. CASE Descend /\ FreshBody
  <2>1. /\ dir' = "down" /\ at' \in 1..TransportAt /\ at < at' /\ Installed(at)'
        /\ UNCHANGED <<opts, call, ctx>>
    BY <1>1, <1>3, Descends DEF ClientInv, walk
  <2>2. HasRetries /\ n = 0
    BY <1>1, Positions DEF ClientInv, Place, Installed, HasRetries
  <2>3. Place'
    BY <1>1, <2>1, <2>2 DEF ClientInv, Place, HasRetries
  <2>4. OnTheWire'
    BY <1>1, <2>1 DEF ClientInv, OnTheWire
  <2>5. InHand' /\ Metered'
    BY <1>1, <2>1 DEF ClientInv, InHand, Metered
  <2>6. Verdict'
    BY <1>1, <2>1 DEF ClientInv, Verdict, Justified, HeldBack, Idempotent
  <2>7. Body'
    <3>1. reader' \in Nat /\ (HasBody => reader' = n + 1)
      BY <1>3, <2>2 DEF FreshBody, ClientInv, Body
    <3>2. dir' # "wait"
      BY <2>1
    <3> QED
      BY <1>1, <2>1, <2>2, <3>1, <3>2 DEF ClientInv, Body, HasBody, HasRetries
  <2> QED
    BY <2>3, <2>4, <2>5, <2>6, <2>7 DEF ClientInv
<1> QED
  BY <1>2, <1>3 DEF RetriesDown

LEMMA RetriesCheckKeeps ==
  ASSUME ClientInv, RetriesCheck
  PROVE  ClientInv'
<1>1. /\ dir = "up" /\ at = RetriesAt /\ dir' = "decide" /\ res'.resp = res.resp
      /\ UNCHANGED <<opts, call, ctx, at, n, reader, used, wire, late, open, events>>
  BY LayerPosition DEF RetriesCheck, ClientInv, Place, Result, walk
<1>2. HasRetries /\ 1 <= n /\ n \in Attempts
  BY <1>1, Positions DEF ClientInv, Place, Installed, HasRetries, Attempts
<1>3. Place'
  BY <1>1, <1>2 DEF ClientInv, Place, Installed, HasRetries
<1>4. OnTheWire'
  BY <1>1 DEF ClientInv, OnTheWire
<1>5. InHand'
  BY <1>1 DEF ClientInv, InHand, Inside, HasRetries
<1>6. Metered'
  BY <1>1 DEF ClientInv, Metered
<1>7. ASSUME ~Idempotent, res'.err # {}, ~IsPermanentError(res'.err), n \notin late
      PROVE  Justified(n)
  <2>1. res.err = wire[n].err /\ (res.err = {} => res.resp = n) /\ n # 0
    BY <1>1, <1>2, <1>7 DEF ClientInv, Verdict, Inside
  <2>2. res.err \in WireErrors \cup {{}}
    BY <1>2, <2>1 DEF ClientInv, OnTheWire, WireStates
  <2>3. CASE res.err \cap HeldBack = {}
    BY <2>1, <2>3 DEF Justified
  <2>4. CASE res.err \cap HeldBack # {}
    <3>1. IsPermanentError(checkNetworkError(res.err))
      BY <1>7, <2>2, <2>4, HeldBackIsPermanent
    <3>2. res'.err = checkNetworkError(res.err)
      BY <3>1 DEF RetriesCheck, Result, IsPermanentError
    <3> QED
      BY <1>7, <3>1, <3>2
  <2> QED
    BY <2>3, <2>4
<1>8. Verdict'
  <2>1. n \in late => Justified(n)
    BY DEF Justified
  <2>2. \A k \in Attempts : Justified(k) => Justified(k)'
    BY <1>1 DEF Justified, HeldBack
  <2> QED
    BY <1>1, <1>2, <1>7, <2>1, <2>2 DEF ClientInv, Verdict, Idempotent
<1>9. Body'
  BY <1>1 DEF ClientInv, Body, HasRetries, HasBody
<1> QED
  BY <1>3, <1>4, <1>5, <1>6, <1>8, <1>9 DEF ClientInv

\* client.go: the next attempt gets a reader of its own ...
LEMMA RetryAgainKeeps ==
  ASSUME ClientInv, RetryAgain
  PROVE  ClientInv'
<1>1. /\ dir = "decide" /\ at = RetriesAt /\ n < Limit
      /\ res.err # {} /\ ~IsPermanentError(res.err) /\ FreshBody
      /\ UNCHANGED <<opts, call, ctx, n, used, wire, late, open, events>>
  BY DEF RetryAgain, Again, ClientInv, Place, walk
<1>2. HasRetries /\ 1 <= n
  BY <1>1, Positions DEF ClientInv, Place, Installed, HasRetries
<1>3. \/ /\ dir' = "down" /\ at' \in 1..TransportAt /\ at < at' /\ Installed(at)'
         /\ res.resp = 0
      \/ dir' = "drain" /\ UNCHANGED <<at, res>>
  BY <1>1, Descends DEF RetryAgain, ClientInv
<1>4. Place'
  BY <1>1, <1>2, <1>3 DEF ClientInv, Place, HasRetries, Installed
<1>5. OnTheWire'
  BY <1>1, <1>3 DEF ClientInv, OnTheWire
<1>6. InHand'
  BY <1>1, <1>2, <1>3 DEF ClientInv, InHand, Inside, HasRetries
<1>7. Metered'
  BY <1>1, <1>3 DEF ClientInv, Metered
<1>8. Verdict'
  BY <1>1, <1>3 DEF ClientInv, Verdict, Justified, HeldBack, Idempotent
<1>9. Body'
  <2>1. reader' \in Nat /\ (HasBody => reader' = n + 1)
    BY <1>1 DEF FreshBody, ClientInv, Body, Place
  <2> QED
    BY <1>1, <1>2, <1>3, <2>1 DEF ClientInv, Body, HasBody, HasRetries
<1> QED
  BY <1>4, <1>5, <1>6, <1>7, <1>8, <1>9 DEF ClientInv

\* ... and the response of the last one is closed before it.
LEMMA DrainKeeps ==
  ASSUME ClientInv, DrainAndClose
  PROVE  ClientInv'
<1>1. /\ dir = "drain" /\ at = RetriesAt /\ n < Limit /\ open' = open \ {res.resp} /\ Descend
      /\ UNCHANGED <<opts, call, ctx, n, reader, used, wire, late, events>>
  BY DEF DrainAndClose, ClientInv, Place, walk
<1>2. dir' = "down" /\ at' \in 1..TransportAt /\ at < at' /\ Installed(at)'
  BY <1>1, Descends DEF ClientInv
<1>3. HasRetries /\ 1 <= n
  BY <1>1, Positions DEF ClientInv, Place, Installed, HasRetries
<1>4. Place'
  BY <1>1, <1>2, <1>3 DEF ClientInv, Place, HasRetries
<1>5. OnTheWire'
  BY <1>1, <1>2 DEF ClientInv, OnTheWire
<1>6. InHand'
  BY <1>1, <1>2, <1>3 DEF ClientInv, InHand, Inside
<1>7. Metered'
  BY <1>1, <1>2 DEF ClientInv, Metered
<1>8. Verdict'
  BY <1>1, <1>2 DEF ClientInv, Verdict, Justified, HeldBack, Idempotent
<1>9. Body'
  BY <1>1, <1>2, <1>3 DEF ClientInv, Body, HasBody, HasRetries
<1> QED
  BY <1>4, <1>5, <1>6, <1>7, <1>8, <1>9 DEF ClientInv

-----------------------------------------------------------------------------
\* The transport and the timer.

\* The next attempt is called with a reader nobody has read.
LEMMA TransportDownKeeps ==
  ASSUME ClientInv, TransportDown
  PROVE  ClientInv'
<1>1. /\ dir = "down" /\ at = TransportAt /\ n' = n + 1 /\ dir' = "wait"
      /\ wire' = [wire EXCEPT ![n + 1].st = "spawned"]
      /\ UNCHANGED <<opts, call, ctx, at, res, reader, used, late, open, events>>
  BY LayerPosition DEF TransportDown, ClientInv, Place, walk
<1>2. n \in 0..Limit /\ n < Limit /\ n + 1 \in Attempts /\ n \in Int /\ n + 1 \in 0..Limit
  BY <1>1, LimitAssumption DEF ClientInv, Place, Attempts
<1>3. Place'
  <2>1. n' \in 0..Limit /\ 1 <= n' /\ (~HasRetries => n' <= 1)
    BY <1>1, <1>2 DEF ClientInv, Place
  <2> QED
    BY <1>1, <2>1 DEF ClientInv, Place, Installed, HasRetries
<1>4. /\ wire' \in [Attempts -> WireStates]
      /\ wire'[n + 1].st = "spawned" /\ wire'[n + 1].err = {}
      /\ wire'[n + 1].whole = wire[n + 1].whole
      /\ \A k \in Attempts : k # n + 1 => wire'[k] = wire[k]
  <2>1. wire \in [Attempts -> WireStates] /\ wire[n + 1].st = "none" /\ wire[n + 1].err = {}
    BY <1>2 DEF ClientInv, OnTheWire
  <2>2. [wire[n + 1] EXCEPT !.st = "spawned"] \in WireStates
    BY <1>2, <2>1 DEF WireStates
  <2> QED
    BY <1>1, <1>2, <2>1, <2>2 DEF WireStates
<1>5. OnTheWire'
  <2>1. late \subseteq 1..n' /\ open \subseteq 1..n'
    BY <1>1, <1>2 DEF ClientInv, OnTheWire
  <2>2. ASSUME NEW k \in Attempts
        PROVE  /\ k > n' => wire'[k].st = "none"
               /\ wire'[k].st # "done" => wire'[k].err = {}
               /\ k < n' \/ (k = n' /\ dir' # "wait") => k \in late' \/ wire'[k].st = "done"
               /\ k \in open' => wire'[k].st = "done" /\ wire'[k].err = {}
    <3>1. k \in Int
      BY DEF Attempts
    <3>2. CASE k = n + 1
      BY <1>1, <1>2, <1>4, <3>2 DEF ClientInv, OnTheWire
    <3>3. CASE k # n + 1
      BY <1>1, <1>2, <1>4, <3>1, <3>3 DEF ClientInv, OnTheWire
    <3> QED
      BY <3>2, <3>3
  <2> QED
    BY <1>1, <1>4, <2>1, <2>2 DEF OnTheWire
<1>6. InHand'
  BY <1>1, <1>4 DEF ClientInv, InHand
<1>7. Metered'
  BY <1>1, <1>2 DEF ClientInv, Metered
<1>8. Verdict'
  <2>1. ASSUME NEW k \in Attempts, k < n'
        PROVE  (k < n \/ (k = n /\ 1 <= n)) /\ (Justified(k) => Justified(k)')
    BY <1>1, <1>2, <1>4, <2>1 DEF Justified, HeldBack, Attempts
  <2> QED
    BY <1>1, <2>1 DEF ClientInv, Verdict, Idempotent
<1>9. Body'
  <2>1. late = {} /\ HasBody => reader \notin used /\ (HasRetries => reader = n + 1)
    BY <1>1, <1>2 DEF ClientInv, Body, Place
  <2>2. HasRetries => used \subseteq 1..n \/ ~HasBody \/ late # {}
    BY DEF ClientInv, Body
  <2>3. \A k \in Attempts : wire'[k].whole = wire[k].whole
    BY <1>4
  <2> QED
    BY <1>1, <1>2, <1>4, <2>1, <2>2, <2>3 DEF ClientInv, Body, HasBody, HasRetries
<1> QED
  BY <1>3, <1>5, <1>6, <1>7, <1>8, <1>9 DEF ClientInv

\* The answer of the attempt comes up from the transport.
LEMMA TransportUpKeeps ==
  ASSUME ClientInv, TransportUp
  PROVE  ClientInv'
<1> DEFINE r == Result(IF wire[n].err = {} THEN n ELSE 0, wire[n].err)
<1>1. /\ dir = "wait" /\ wire[n].st = "done" /\ at = TransportAt /\ ReturnFrom(at, r)
      /\ UNCHANGED <<opts, call, ctx, n, reader, used, wire, late, open, events>>
  BY DEF TransportUp, ClientInv, Place, walk, Return
<1>2. r.err = wire[n].err /\ r.resp = (IF wire[n].err = {} THEN n ELSE 0)
  BY DEF Result
<1>3. 1 <= n /\ n \in 0..Limit /\ n \in Attempts
  BY <1>1 DEF ClientInv, Place, Attempts
<1> HIDE DEF r
<1>4. /\ dir' = "up" /\ res' = r
      /\ at' \in 0..TransportAt /\ at' < TransportAt /\ Installed(at)' /\ at' >= LoggingAt
      /\ HasRetries => at' >= RetriesAt
      /\ "Metrics" \in opts => at' >= MetricsAt
  BY <1>1, Returns DEF ClientInv
<1>5. Place'
  BY <1>1, <1>3, <1>4 DEF ClientInv, Place, HasRetries
<1>6. OnTheWire'
  BY <1>1, <1>4 DEF ClientInv, OnTheWire
<1>7. InHand'
  BY <1>1, <1>2, <1>3, <1>4 DEF ClientInv, OnTheWire, InHand
<1>8. Metered'
  BY <1>1, <1>4 DEF ClientInv, Metered
<1>9. Verdict'
  BY <1>1, <1>2, <1>4 DEF ClientInv, Verdict, Justified, HeldBack, Idempotent
<1>10. Body'
  BY <1>1, <1>4 DEF ClientInv, Body, HasBody, HasRetries
<1> QED
  BY <1>5, <1>6, <1>7, <1>8, <1>9, <1>10 DEF ClientInv

\* The timer gives the attempt up, whatever its goroutine does.
LEMMA TimerFiresKeeps ==
  ASSUME ClientInv, TimerFires
  PROVE  ClientInv'
<1> DEFINE r == Result(0, {"timeout"} \cup CtxErr)
<1>1. /\ dir = "wait" /\ at = TransportAt /\ ReturnFrom(9, r) /\ late' = late \cup {n}
      /\ UNCHANGED <<opts, call, ctx, n, reader, used, wire, open, events>>
  BY Positions DEF TimerFires, ClientInv, Place, walk
<1>2. r.resp = 0
  BY DEF Result
<1>3. 1 <= n /\ n \in 0..Limit /\ n \in Attempts
  BY <1>1 DEF ClientInv, Place, Attempts
<1> HIDE DEF r
<1>4. /\ dir' = "up" /\ res' = r
      /\ at' \in 0..TransportAt /\ at' < 9 /\ Installed(at)' /\ at' >= LoggingAt
      /\ HasRetries => at' >= RetriesAt
      /\ "Metrics" \in opts => at' >= MetricsAt
  BY <1>1, Returns DEF ClientInv
<1>5. Place'
  BY <1>1, <1>3, <1>4 DEF ClientInv, Place, HasRetries
<1>6. OnTheWire'
  BY <1>1, <1>3, <1>4 DEF ClientInv, OnTheWire
<1>7. InHand'
  BY <1>1, <1>2, <1>4 DEF ClientInv, InHand
<1>8. Metered'
  BY <1>1, <1>4 DEF ClientInv, Metered
<1>9. Verdict'
  BY <1>1, <1>4 DEF ClientInv, Verdict, Justified, HeldBack, Idempotent
<1>10. Body'
  BY <1>1, <1>4 DEF ClientInv, Body, HasBody, HasRetries
<1> QED
  BY <1>5, <1>6, <1>7, <1>8, <1>9, <1>10 DEF ClientInv
-----------------------------------------------------------------------------
\* The goroutines of the attempts.

\* A request that is under way belongs to the attempt the call waits for, or
\* to one the timer gave up.
LEMMA UnderWay ==
  ASSUME ClientInv, NEW k \in Attempts, wire[k].st \in {"spawned", "dialing", "sent"}
  PROVE  /\ k \in 1..n /\ n \in Int
         /\ k \in late \/ (k = n /\ dir = "wait")
         /\ wire[k] \in WireStates /\ wire[k].err = {}
<1>1. n \in Int /\ k \in Int /\ 1 <= k
  BY DEF ClientInv, Place, Attempts
<1> QED
  BY <1>1 DEF ClientInv, OnTheWire

\* A step of the goroutine of attempt k, as far as the call is concerned.
LEMMA WireKeeps ==
  ASSUME ClientInv, NEW k \in Attempts, wire[k].st \in {"spawned", "dialing", "sent"},
         NEW w \in WireStates, wire' = [wire EXCEPT ![k] = w], w.st # "none",
         w.st # "done" => w.err = {},
         open' = IF w.st = "done" /\ w.err = {} THEN open \cup {k} ELSE open,
         UNCHANGED <<walk, at, dir, res, n, late, events>>
  PROVE  Place' /\ OnTheWire' /\ InHand' /\ Metered' /\ Verdict'
<1>1. /\ k \in 1..n /\ n \in Int /\ (k \in late \/ (k = n /\ dir = "wait"))
      /\ UNCHANGED <<opts, call, ctx, at, dir, res, n, late, events>>
  BY UnderWay DEF walk
<1>2. /\ wire' \in [Attempts -> WireStates] /\ wire'[k] = w
      /\ \A j \in Attempts : j # k => wire'[j] = wire[j]
  BY DEF ClientInv, OnTheWire
<1>3. Place'
  BY <1>1 DEF ClientInv, Place, Installed, HasRetries
<1>4. OnTheWire'
  <2>1. late' \subseteq 1..n' /\ open' \subseteq 1..n'
    BY <1>1 DEF ClientInv, OnTheWire
  <2>2. ASSUME NEW j \in Attempts
        PROVE  /\ j > n' => wire'[j].st = "none"
               /\ wire'[j].st # "done" => wire'[j].err = {}
               /\ j < n' \/ (j = n' /\ dir' # "wait") => j \in late' \/ wire'[j].st = "done"
               /\ j \in open' => wire'[j].st = "done" /\ wire'[j].err = {}
    <3>1. CASE j = k
      <4>1. k \notin open
        BY DEF ClientInv, OnTheWire
      <4> QED
        BY <1>1, <1>2, <3>1, <4>1
    <3>2. CASE j # k
      BY <1>1, <1>2, <3>2 DEF ClientInv, OnTheWire
    <3> QED
      BY <3>1, <3>2
  <2> QED
    BY <1>2, <2>1, <2>2 DEF OnTheWire
<1>5. InHand'
  <2>1. dir = "wait" => n \in Attempts
    BY <1>1 DEF ClientInv, Place, Attempts
  <2>2. dir = "wait" /\ wire'[n].st = "done" /\ wire'[n].err = {} => n \in open'
    BY <1>1, <1>2, <2>1 DEF ClientInv, InHand
  <2>3. open \subseteq open' /\ open' \subseteq open \cup {k}
    OBVIOUS
  <2> QED
    BY <1>1, <2>2, <2>3 DEF ClientInv, InHand, Inside, HasRetries
<1>6. Metered'
  BY <1>1 DEF ClientInv, Metered
<1>7. Verdict'
  <2>1. ASSUME dir = "up", Inside, n \notin late
        PROVE  wire'[n] = wire[n]
    <3>1. n \in Attempts /\ n # k
      BY <1>1, <2>1 DEF ClientInv, Place, Attempts
    <3> QED
      BY <1>2, <3>1
  <2>2. ASSUME NEW j \in Attempts, Justified(j), j < n \/ dir # "wait"
        PROVE  Justified(j)'
    BY <1>1, <1>2, <2>2 DEF Justified, HeldBack
  <2>3. dir \in {"down", "decide", "drain"} /\ 1 <= n => n \in Attempts
    BY DEF ClientInv, Place, Attempts
  <2>4. dir = "decide" => 1 <= n
    BY DEF ClientInv, Place
  <2> QED
    BY <1>1, <2>1, <2>2, <2>3, <2>4 DEF ClientInv, Verdict, Inside, HasRetries, Idempotent
<1> QED
  BY <1>3, <1>4, <1>5, <1>6, <1>7

\* The body goes with the request that is sent first, and no other.
LEMMA BodyKeeps ==
  ASSUME ClientInv, NEW k \in Attempts, wire[k].st \in {"spawned", "dialing", "sent"},
         NEW w \in WireStates, wire' = [wire EXCEPT ![k] = w],
         w.whole = wire[k].whole, w.st \in {"sent", "done"},
         w.st = "sent" => wire[k].st = "sent",
         UNCHANGED <<walk, at, dir, n, reader, used, late>>
  PROVE  Body'
<1>1. /\ wire'[k] = w /\ (\A j \in Attempts : j # k => wire'[j] = wire[j])
      /\ UNCHANGED <<opts, call, at, dir, n, reader, used, late>>
  BY DEF ClientInv, OnTheWire, walk
<1>2. \A j \in Attempts : wire'[j].whole = wire[j].whole /\ (wire'[j].st = "sent" => wire[j].st = "sent")
  BY <1>1
<1>3. dir = "wait" => n \in Attempts
  BY DEF ClientInv, Place, Attempts
<1>4. dir = "wait" /\ wire'[n].st \in {"spawned", "dialing"} => wire'[n] = wire[n]
  BY <1>1, <1>3
<1> QED
  BY <1>1, <1>2, <1>4 DEF ClientInv, Body, HasBody, HasRetries

LEMMA CaptureKeeps ==
  ASSUME ClientInv, NEW k \in Attempts, Capture(k)
  PROVE  ClientInv'
<1> DEFINE w == [wire[k] EXCEPT !.st = "dialing", !.reader = reader]
<1>1. /\ wire[k].st = "spawned" /\ wire' = [wire EXCEPT ![k] = w]
      /\ UNCHANGED <<walk, at, dir, res, n, reader, used, late, open, events>>
  BY DEF Capture
<1>2. /\ k \in 1..n /\ n \in Int /\ (k \in late \/ (k = n /\ dir = "wait"))
      /\ wire[k] \in WireStates /\ wire[k].err = {}
  BY <1>1, UnderWay
<1>3. /\ w \in WireStates /\ w.st = "dialing" /\ w.err = {} /\ w.reader = reader
      /\ w.whole = wire[k].whole
  <2>1. reader \in Nat
    BY DEF ClientInv, Body
  <2> QED
    BY <1>2, <2>1 DEF WireStates
<1> HIDE DEF w
<1>4. Place' /\ OnTheWire' /\ InHand' /\ Metered' /\ Verdict'
  BY <1>1, <1>3, WireKeeps
<1>5. /\ wire'[k] = w /\ (\A j \in Attempts : j # k => wire'[j] = wire[j])
      /\ UNCHANGED <<opts, call, at, dir, n, reader, used, late>>
  BY <1>1 DEF ClientInv, OnTheWire, walk
<1>6. Body'
  <2>1. \A j \in Attempts : wire'[j].whole = wire[j].whole /\ (wire'[j].st = "sent" => wire[j].st = "sent")
    BY <1>3, <1>5
  <2>2. late = {} => k = n /\ dir = "wait"
    BY <1>2
  <2> QED
    BY <1>1, <1>3, <1>5, <2>1, <2>2 DEF ClientInv, Body, HasBody, HasRetries
<1> QED
  BY <1>4, <1>6 DEF ClientInv

LEMMA SendKeeps ==
  ASSUME ClientInv, NEW k \in Attempts, Send(k)
  PROVE  ClientInv'
<1> DEFINE whole == ~HasBody \/ wire[k].reader \notin used
           w == [wire[k] EXCEPT !.st = "sent", !.whole = whole]
<1>1. /\ wire[k].st = "dialing" /\ wire' = [wire EXCEPT ![k] = w]
      /\ used' = (IF HasBody THEN used \cup {wire[k].reader} ELSE used)
      /\ UNCHANGED <<walk, at, dir, res, n, reader, late, open, events>>
  BY DEF Send
<1>2. /\ k \in 1..n /\ n \in Int /\ (k \in late \/ (k = n /\ dir = "wait"))
      /\ wire[k] \in WireStates /\ wire[k].err = {}
  BY <1>1, UnderWay
<1>3. w \in WireStates /\ w.st = "sent" /\ w.err = {} /\ w.whole = whole
  <2>1. whole \in BOOLEAN
    OBVIOUS
  <2> HIDE DEF whole
  <2> QED
    BY <1>2, <2>1 DEF WireStates
<1> HIDE DEF w
<1>4. Place' /\ OnTheWire' /\ InHand' /\ Metered' /\ Verdict'
  BY <1>1, <1>3, WireKeeps
<1>5. /\ wire'[k] = w /\ (\A j \in Attempts : j # k => wire'[j] = wire[j])
      /\ UNCHANGED <<opts, call, at, dir, n, reader, late>>
  BY <1>1 DEF ClientInv, OnTheWire, walk
<1>6. Body'
  <2>1. wire[k].reader \in Nat
    BY <1>2 DEF WireStates
  <2>2. CASE ~HasBody
    BY <1>1, <1>3, <1>5, <2>2 DEF ClientInv, Body, HasBody
  <2>3. CASE HasBody /\ late # {}
    BY <1>1, <1>5, <2>1, <2>3 DEF ClientInv, Body, HasBody
  <2>4. CASE HasBody /\ late = {}
    <3>1. k = n /\ dir = "wait" /\ 1 <= n
      BY <1>2, <2>4
    <3>2. wire[k].reader \notin used /\ (HasRetries => wire[k].reader = n)
      BY <1>1, <2>4, <3>1 DEF ClientInv, Body
    <3>3. whole
      BY <3>2
    <3>4. HasRetries => used' \subseteq 1..n
      BY <1>1, <1>2, <2>4, <3>1, <3>2 DEF ClientInv, Body
    <3>5. \A j \in Attempts : wire'[j].st = "sent" => wire'[j].whole
      BY <1>3, <1>5, <2>4, <3>3 DEF ClientInv, Body
    <3>6. used' \subseteq Nat
      BY <1>1, <2>1 DEF ClientInv, Body
    <3> QED
      BY <1>3, <1>5, <2>4, <3>1, <3>4, <3>5, <3>6 DEF ClientInv, Body, HasBody, HasRetries
  <2> QED
    BY <2>2, <2>3, <2>4
<1> QED
  BY <1>4, <1>6 DEF ClientInv

\* The server serves, answers or fails, or the transport gives up.
LEMMA ServerKeeps ==
  ASSUME ClientInv, NEW k \in Attempts,
         \/ Serve(k) \/ Abandon(k)
         \/ \E s \in {OK, Retriable} : Answer(k, s)
         \/ \E e \in {"refused", "nettimeout", "reset", "eof", "other"} : Fail(k, e)
  PROVE  ClientInv'
<1>1. CASE Serve(k)
  <2> DEFINE w == [wire[k] EXCEPT !.served = TRUE]
  <2>1. /\ wire[k].st = "sent" /\ wire' = [wire EXCEPT ![k] = w]
        /\ UNCHANGED <<walk, at, dir, res, n, reader, used, late, open, events>>
    BY <1>1 DEF Serve
  <2>2. w \in WireStates /\ w.st = "sent" /\ w.err = {} /\ w.whole = wire[k].whole
    BY <2>1, UnderWay DEF WireStates
  <2> HIDE DEF w
  <2> QED
    BY <2>1, <2>2, WireKeeps, BodyKeeps DEF ClientInv
<1>2. CASE Abandon(k)
  <2> DEFINE w == [wire[k] EXCEPT !.st = "done", !.err = CtxErr]
  <2>1. /\ wire[k].st \in {"spawned", "dialing", "sent"} /\ wire' = [wire EXCEPT ![k] = w]
        /\ UNCHANGED <<walk, at, dir, res, n, reader, used, late, open, events>>
    BY <1>2 DEF Abandon
  <2>2. CtxErr \in WireErrors /\ CtxErr # {}
    BY DEF CtxErr, WireErrors
  <2>3. w \in WireStates /\ w.st = "done" /\ w.err # {} /\ w.whole = wire[k].whole
    BY <2>1, <2>2, UnderWay DEF WireStates
  <2> HIDE DEF w
  <2> QED
    BY <2>1, <2>3, WireKeeps, BodyKeeps DEF ClientInv
<1>3. ASSUME NEW s \in {OK, Retriable}, Answer(k, s)
      PROVE  ClientInv'
  <2> DEFINE w == [wire[k] EXCEPT !.st = "done", !.status = s]
  <2>1. /\ wire[k].st = "sent" /\ wire' = [wire EXCEPT ![k] = w] /\ open' = open \cup {k}
        /\ UNCHANGED <<walk, at, dir, res, n, reader, used, late, events>>
    BY <1>3 DEF Answer
  <2>2. w \in WireStates /\ w.st = "done" /\ w.err = {} /\ w.whole = wire[k].whole
    BY <2>1, UnderWay DEF WireStates
  <2> HIDE DEF w
  <2> QED
    BY <2>1, <2>2, WireKeeps, BodyKeeps DEF ClientInv
<1>4. ASSUME NEW e \in {"refused", "nettimeout", "reset", "eof", "other"}, Fail(k, e)
      PROVE  ClientInv'
  <2> DEFINE w == [wire[k] EXCEPT !.st = "done", !.err = {e}]
  <2>1. /\ wire[k].st \in {"dialing", "sent"} /\ wire' = [wire EXCEPT ![k] = w]
        /\ UNCHANGED <<walk, at, dir, res, n, reader, used, late, open, events>>
    BY <1>4 DEF Fail
  <2>2. {e} \in WireErrors /\ {e} # {}
    BY DEF WireErrors
  <2>3. w \in WireStates /\ w.st = "done" /\ w.err # {} /\ w.whole = wire[k].whole
    BY <2>1, <2>2, UnderWay DEF WireStates
  <2> HIDE DEF w
  <2> QED
    BY <2>1, <2>3, WireKeeps, BodyKeeps DEF ClientInv
<1> QED
  BY <1>1, <1>2, <1>3, <1>4
-----------------------------------------------------------------------------

LEMMA InitEstablishes ==
  ASSUME Init
  PROVE  ClientInv
<1>1. /\ {"Logging", "RequestID", "Transport"} \subseteq opts
      /\ dir = "down" /\ res = Nothing /\ n = 0 /\ reader = 0 /\ used = {} /\ late = {}
      /\ open = {} /\ events = 0
  BY DEF Init, NewHTTPClientFromConfig
<1>2. at \in 1..TransportAt /\ Installed(at) /\ at <= 4
  <2>1. at \in 1..TransportAt /\ Calls(0, at)
    BY Positions DEF Init
  <2>2. Installed(4)
    BY <1>1, Positions DEF Installed
  <2> QED
    BY <2>1, <2>2 DEF Calls
<1>3. /\ wire \in [Attempts -> WireStates]
      /\ \A k \in Attempts : wire[k].st = "none" /\ wire[k].err = {} /\ wire[k].whole
  BY DEF Init, WireStates
<1>4. Place
  BY <1>1, <1>2, LimitAssumption DEF Place
<1>5. OnTheWire
  BY <1>1, <1>3 DEF OnTheWire, Attempts
<1>6. InHand /\ Metered /\ Verdict
  BY <1>1 DEF InHand, Metered, Verdict, Attempts, Justified
<1>7. Body
  BY <1>1, <1>2, <1>3 DEF Body
<1> QED
  BY <1>4, <1>5, <1>6, <1>7 DEF ClientInv

LEMMA StepKeeps ==
  ASSUME ClientInv, [Next]_vars
  PROVE  ClientInv'
<1>1. CASE Walk
  BY <1>1, PassDownKeeps, UpKeeps, RetriesDownKeeps, RetriesCheckKeeps, RetryAgainKeeps,
     TransportDownKeeps, TransportUpKeeps DEF Walk
<1>2. CASE TimerFires \/ DrainAndClose
  BY <1>2, TimerFiresKeeps, DrainKeeps
<1>3. CASE Wire
  BY <1>3, CaptureKeeps, SendKeeps, ServerKeeps DEF Wire
<1>4. ASSUME NEW how, CtxDone(how)
      PROVE  ClientInv'
  <2>1. UNCHANGED <<opts, call, at, dir, res, n, reader, used, wire, late, open, events>>
    BY <1>4 DEF CtxDone
  <2> QED
    BY <2>1 DEF ClientInv, Place, OnTheWire, InHand, Metered, Verdict, Body, Justified,
                HeldBack, Idempotent, Installed, HasRetries, Inside, HasBody
<1>5. CASE UNCHANGED vars
  BY <1>5 DEF vars, ClientInv, Place, OnTheWire, InHand, Metered, Verdict, Body, Justified,
              HeldBack, Idempotent, Installed, HasRetries, Inside, HasBody
<1> QED
  BY <1>1, <1>2, <1>3, <1>4, <1>5 DEF Next

\* The chain of round trippers keeps ClientInv, whatever the options, the limit
\* and the order in which calls, timers and goroutines run.
THEOREM ClientInvHolds == Spec => []ClientInv
<1>1. Init => ClientInv
  BY InitEstablishes
<1>2. ClientInv /\ [Next]_vars => ClientInv'
  BY StepKeeps
<1> QED
  BY <1>1, <1>2, PTL DEF Spec

\* A call never returns the late answer of an attempt that was given up, nor a
\* response whose body the loop has closed, and every attempt was metered.
THEOREM OwnAnswer == Spec => []AnswerOfLastAttempt
<1>1. ClientInv => AnswerOfLastAttempt
  <2> SUFFICES ASSUME ClientInv, at = 0
               PROVE  /\ res.resp # 0 => res.resp = n /\ res.resp \in open /\ res.err = {}
                      /\ "Metrics" \in opts => events = n
    BY DEF AnswerOfLastAttempt, Returned
  <2>1. dir = "up"
    BY DEF ClientInv, Place
  <2>2. res.resp # 0 => res.resp = n /\ res.resp \in open /\ res.err = {}
    BY <2>1 DEF ClientInv, InHand
  <2>3. "Metrics" \in opts => events = n
    BY <2>1 DEF ClientInv, Metered
  <2> QED
    BY <2>2, <2>3
<1> QED
  BY <1>1, ClientInvHolds, PTL

\* The retry loop closes every response but the last.
THEOREM ClosesWhatItDrops == Spec => []OneResponseOpen
<1>1. ClientInv => OneResponseOpen
  BY DEF ClientInv, InHand, OneResponseOpen
<1> QED
  BY <1>1, ClientInvHolds, PTL

\* StraightforwardNetworkRetry and the policy that trusts methods do not send a
\* call that is not idempotent again after an attempt that ended with a broken
\* or timed out connection.  Attempts given up by the client's own timer are
\* excluded: those are repeated.
THEOREM PostNotRepeated == Spec => []NotRepeatedOnceBroken
<1>1. ClientInv => NotRepeatedOnceBroken
  BY DEF ClientInv, Verdict, Justified, NotRepeatedOnceBroken
<1> QED
  BY <1>1, ClientInvHolds, PTL

\* Until a timer abandons a goroutine, every attempt sends its whole body.
THEOREM WholeBodySent == Spec => []RetriedBodyIsWhole
<1>1. ClientInv => RetriedBodyIsWhole
  BY DEF ClientInv, Body, RetriedBodyIsWhole
<1> QED
  BY <1>1, ClientInvHolds, PTL

=============================================================================
