---------------------------- MODULE FixedWindow ----------------------------
(***************************************************************************)
(* The fixed-window limiter of internal/rate/fixed_window.go under         *)
(* concurrent calls of Manager.Allow (internal/resttooling/ratelimiter/v2/ *)
(* rate_limiter.go), for the requests of one key that match one pattern.   *)
(* Keys and patterns have windows of their own, so one of each is enough.  *)
(*                                                                         *)
(* A call reads the clock before it takes the mutex of the limiter, so     *)
(* calls reach the windows in another order than their times.  A call that *)
(* the limiter turns down asks for an override of the windows, applies it  *)
(* and asks again, each of these in a critical section of its own.         *)
(***************************************************************************)
EXTENDS Integers, Sequences, FiniteSets

CONSTANTS
  Calls,      \* calls of Manager.Allow
  Config,     \* windows of the pattern: a sequence of [limit, duration]
  Overrides,  \* what overrideFetcher may return besides "no override"
  Mode,       \* "enforcing" or "reporting"
  MaxTime     \* bound: the clock stops there

ASSUME ModeAssumption == Mode \in {"enforcing", "reporting"}
ASSUME MaxTimeAssumption == MaxTime \in Nat
ASSUME CallsAssumption == IsFiniteSet(Calls)

VARIABLES
  now,       \* the clock
  windows,   \* the windows of the key; none before its first request
  pc,        \* where each call is, and its answer once it has one
  at,        \* the time each call has read
  override   \* the override each call has fetched

vars == <<now, windows, pc, at, override>>

NoOverride == << >>

Answers == {"admitted", "overridden", "reported", "rejected"}

\* The zero time.Time is centuries before the clock: every window that
\* starts there has expired.
LongestDuration == MaxTime + 1
ZeroTime == 0 - LongestDuration

WindowConfigs == [limit : Nat, duration : 0..LongestDuration]
Windows == [limit : Nat, duration : 0..LongestDuration, requests : Nat, start : Int]

ASSUME ConfigAssumption == Config \in Seq(WindowConfigs)
ASSUME OverridesAssumption == \A o \in Overrides : o \in Seq(WindowConfigs)

TypeOK ==
  /\ now \in 0..MaxTime
  /\ windows \in Seq(Windows) /\ Len(windows) \in {0, Len(Config)}
  /\ pc \in [Calls -> {"idle", "allow", "fetch", "override", "check"} \cup Answers]
  /\ at \in [Calls -> 0..MaxTime]
  /\ override \in [Calls -> Overrides \cup {NoOverride}]

Init ==
  /\ now = 0
  /\ windows = << >>
  /\ pc = [c \in Calls |-> "idle"]
  /\ at = [c \in Calls |-> 0]
  /\ override = [c \in Calls |-> NoOverride]

Goto(c, from, to) ==
  /\ pc[c] = from
  /\ pc' = [pc EXCEPT ![c] = to]

-----------------------------------------------------------------------------
intoWindow(wc) ==
  [limit |-> wc.limit, duration |-> wc.duration, requests |-> 0, start |-> ZeroTime]

\* The windows of the key, made from the configuration at its first request.
ofKey ==
  IF windows = << >> THEN [i \in DOMAIN Config |-> intoWindow(Config[i])] ELSE windows

\* Mutant: the time of the call replaces the start whatever it is.
ResetAlwaysMoves(w, t) ==
  IF t - w.start >= w.duration THEN [w EXCEPT !.start = t, !.requests = 0]
                               ELSE [w EXCEPT !.start = t]

\* The first half of window.allow: a window that has expired starts anew.
reset(w, t) ==
  IF t - w.start >= w.duration THEN [w EXCEPT !.start = t, !.requests = 0] ELSE w

\* Mutant: one request too many.
FitsOneMore(w) == w.requests <= w.limit

fits(w) == w.requests < w.limit

\* windows.allow goes through the windows in order, counts the request in
\* each one that it fits in, and stops at the first one that it does not.
allowed(ws, t) == \A i \in DOMAIN ws : fits(reset(ws[i], t))

afterAllow(ws, t) ==
  [i \in DOMAIN ws |->
     LET reaches(j) == \A k \in 1..(j - 1) : fits(reset(ws[k], t))
         w == reset(ws[i], t)
     IN  CASE reaches(i) /\ fits(w)  -> [w EXCEPT !.requests = @ + 1]
           [] reaches(i) /\ ~fits(w) -> w
           [] OTHER                  -> ws[i]]

\* windows.wouldAllow looks at the counts only, not at expired windows.
wouldAllow(ws) == \A i \in DOMAIN ws : fits(ws[i])

\* Limits and durations are replaced, as many as both sides have; starts and
\* counts stay.
overridden(ws, o) ==
  [i \in DOMAIN ws |-> IF i \in DOMAIN o
                       THEN [ws[i] EXCEPT !.limit = o[i].limit, !.duration = o[i].duration]
                       ELSE ws[i]]

-----------------------------------------------------------------------------
Tick ==
  /\ now < MaxTime
  /\ now' = now + 1
  /\ UNCHANGED <<windows, pc, at, override>>

\* A request has matched the pattern; time.Now() is read for limiter.Allow.
Arrive(c) ==
  /\ Goto(c, "idle", "allow")
  /\ at' = [at EXCEPT ![c] = now]
  /\ UNCHANGED <<now, windows, override>>

\* MultiBucketFixedWindowLimiter.Allow, under its mutex.
Allow(c) ==
  /\ Goto(c, "allow", IF allowed(ofKey, at[c]) THEN "admitted" ELSE "fetch")
  /\ windows' = afterAllow(ofKey, at[c])
  /\ UNCHANGED <<now, at, override>>

\* The answer of a request that is over the limit.
Refusal == IF Mode = "reporting" THEN "reported" ELSE "rejected"

\* overrideFetcher has no override for the key.
FetchNothing(c) ==
  /\ Goto(c, "fetch", Refusal)
  /\ UNCHANGED <<now, windows, at, override>>

FetchOverride(c) ==
  /\ Goto(c, "fetch", "override")
  /\ \E o \in Overrides : override' = [override EXCEPT ![c] = o]
  /\ UNCHANGED <<now, windows, at>>

\* MultiBucketFixedWindowLimiter.OverrideWindows, under its mutex.
OverrideWindows(c) ==
  /\ Goto(c, "override", "check")
  /\ windows' = overridden(windows, override[c])
  /\ UNCHANGED <<now, at, override>>

\* MultiBucketFixedWindowLimiter.WouldAllow, under its mutex.
WouldAllow(c) ==
  /\ Goto(c, "check", IF wouldAllow(windows) THEN "overridden" ELSE Refusal)
  /\ UNCHANGED <<now, windows, at, override>>

Next ==
  \/ Tick
  \/ \E c \in Calls : \/ Arrive(c)
                      \/ Allow(c)
                      \/ FetchNothing(c)
                      \/ FetchOverride(c)
                      \/ OverrideWindows(c)
                      \/ WouldAllow(c)

Spec == Init /\ [][Next]_vars

-----------------------------------------------------------------------------
\* The calls that Allow admitted and whose time lies in the window.
AdmittedIn(w) ==
  {c \in Calls : pc[c] = "admitted" /\ w.start <= at[c] /\ at[c] < w.start + w.duration}

WithinLimits ==
  \A i \in DOMAIN windows : Cardinality(AdmittedIn(windows[i])) <= windows[i].limit

\* No override applied so far has changed the duration of a window.  Once one
\* has, the start and the count that OverrideWindows keeps belong to a window of
\* another size, and a late call may start it anew before calls it has admitted.
DurationsKept ==
  \A c \in Calls : pc[c] # "override" =>
    \A i \in DOMAIN override[c] \cap DOMAIN Config :
      override[c][i].duration = Config[i].duration

\* fixed_window.go:97 ("A request must fit in all of those fixed windows"):
\* when Allow admits a request, the requests admitted in the current window of
\* every size, this one with them, are no more than its limit, whatever the
\* order in which calls with different times reached the limiter and however
\* the limits were overridden in between, as long as no override that was
\* applied has changed a duration.
AdmittedWithinLimit ==
  [][(\E c \in Calls : pc[c] # "admitted" /\ pc'[c] = "admitted") /\ DurationsKept
       => WithinLimits']_vars

\* window.allow: a call that is late, its time read before another call
\* started the window anew, never moves the start of a window back.
StartNeverMovesBack ==
  [][\A i \in DOMAIN windows : windows'[i].start >= windows[i].start]_vars

=============================================================================
