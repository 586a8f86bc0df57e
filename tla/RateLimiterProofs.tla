------------------------- MODULE RateLimiterProofs -------------------------
(***************************************************************************)
(* The proofs about the rate limiter v2: the windows of a key (module      *)
(* FixedWindow), the calls and the watcher of a manager (ConfigWatch), the *)
(* comparison of patterns (PathPattern) and their list (PatternList).      *)
(*                                                                         *)
(* The limiter admits no more than its limits, for any windows, any number *)
(* of calls whose times reach it out of order, and any overrides, until    *)
(* one is applied that changes the duration of a window.  The count of a window is an upper bound of what was      *)
(* admitted in it, and not more: a request that a later window turns down  *)
(* is counted in the earlier ones, and one that is late may be counted in  *)
(* a window that began after its time.  That a window which starts anew    *)
(* may forget its count needs InTime: whatever was admitted lies before    *)
(* its end.                                                                *)
(*                                                                         *)
(* A call works with one configuration because the patterns change under a *)
(* lock that no call holds.                                                *)
(*                                                                         *)
(* The comparison of two patterns is exact: each of the three questions it *)
(* answers (is one within the other, the other within it, are they         *)
(* disjoint) is a conjunction over methods, lengths and segments, and for  *)
(* every "no" a request can be given that shows it.  So "more specific" is *)
(* a strict order, the list of patterns stays in the order of precedence   *)
(* whatever paths the configuration has and in whatever order its map      *)
(* yields them, and the first pattern that matches a request is the most   *)
(* specific one that does.                                                 *)
(***************************************************************************)
EXTENDS FixedWindow, ConfigWatch, PatternList, FiniteSetTheorems, NaturalsInduction,
        WellFoundedInduction, TLAPS

-----------------------------------------------------------------------------
\* The windows of a key.

\* The durations are as configured.
Durations(ws) == \A i \in DOMAIN ws : ws[i].duration = Config[i].duration

\* Everything admitted lies before the end of every window.
InTime(ws) ==
  \A i \in DOMAIN ws, c \in Calls :
    pc[c] = "admitted" /\ ws[i].duration > 0 => at[c] < ws[i].start + ws[i].duration

\* No request admitted in a window is missing in its count.
Counted(ws) == \A i \in DOMAIN ws : Cardinality(AdmittedIn(ws[i])) <= ws[i].requests

\* Without windows nothing was counted, and nothing admitted either.
Untouched == windows = << >> /\ Config # << >> => \A c \in Calls : pc[c] # "admitted"

WindowInv ==
  /\ TypeOK
  /\ Durations(windows) /\ InTime(windows) /\ Counted(windows)
  /\ Untouched

\* A call has an override only after its fetch.
FetchedOnce ==
  \A c \in Calls : pc[c] \in {"idle", "allow", "fetch"} => override[c] = NoOverride

\* What holds in every state: WindowInv as long as no override that was applied
\* has changed a duration.
OverrideInv == TypeOK /\ FetchedOnce /\ (DurationsKept => WindowInv)

-----------------------------------------------------------------------------
\* The fields of a window.
LEMMA WindowFields ==
  ASSUME NEW w \in Windows
  PROVE  w.limit \in Nat /\ w.duration \in Nat /\ w.requests \in Nat /\ w.start \in Int
BY MaxTimeAssumption DEF Windows, LongestDuration

\* window.allow, its first half: a window that starts anew has ended.
LEMMA ResetProperties ==
  ASSUME NEW w \in Windows, NEW t \in 0..MaxTime
  PROVE  /\ reset(w, t) \in Windows
         /\ reset(w, t).limit = w.limit /\ reset(w, t).duration = w.duration
         /\ \/ reset(w, t) = w /\ t < w.start + w.duration
            \/ /\ reset(w, t).start = t /\ reset(w, t).requests = 0
               /\ w.start + w.duration <= t
<1>1. w.start \in Int /\ w.duration \in Nat /\ w.requests \in Nat /\ t \in Int
  BY WindowFields, MaxTimeAssumption
<1>2. CASE t - w.start >= w.duration
  <2>1. w = [limit |-> w.limit, duration |-> w.duration,
             requests |-> w.requests, start |-> w.start]
    BY DEF Windows
  <2>2. reset(w, t) = [limit |-> w.limit, duration |-> w.duration,
                       requests |-> 0, start |-> t]
    BY <1>2, <2>1 DEF reset
  <2> QED
    BY <1>1, <1>2, <2>2 DEF Windows
<1>3. CASE ~ (t - w.start >= w.duration)
  BY <1>1, <1>3 DEF reset
<1> QED
  BY <1>2, <1>3

\* window.allow, its second half.
LEMMA CountProperties ==
  ASSUME NEW w \in Windows
  PROVE  LET v == [w EXCEPT !.requests = @ + 1]
         IN  /\ v \in Windows /\ v.limit = w.limit /\ v.duration = w.duration
             /\ v.start = w.start /\ v.requests = w.requests + 1
<1>1. w = [limit |-> w.limit, duration |-> w.duration,
           requests |-> w.requests, start |-> w.start]
  BY DEF Windows
<1>2. [w EXCEPT !.requests = @ + 1] =
        [limit |-> w.limit, duration |-> w.duration,
         requests |-> w.requests + 1, start |-> w.start]
  BY <1>1
<1> QED
  BY <1>2 DEF Windows

\* windows.allow: what it does to a window, and what an admission says of it.
LEMMA AllowProperties ==
  ASSUME NEW ws \in Seq(Windows), NEW t \in 0..MaxTime, NEW i \in DOMAIN ws
  PROVE  LET w == ws[i]
             v == afterAllow(ws, t)[i]
         IN  /\ v \in Windows
             /\ v.limit = w.limit /\ v.duration = w.duration
             /\ \/ v.start = w.start /\ v.requests >= w.requests
                \/ v.start = t /\ w.start + w.duration <= t
             /\ allowed(ws, t) =>
                  /\ 1 <= v.requests /\ v.requests <= v.limit
                  /\ t < v.start + v.duration \/ v.duration = 0
                  /\ \/ v.start = w.start /\ v.requests = w.requests + 1
                     \/ v.start = t /\ w.start + w.duration <= t
<1> DEFINE w == ws[i]
           r == reset(w, t)
           v == afterAllow(ws, t)[i]
<1>1. w \in Windows
  OBVIOUS
<1>2. /\ r \in Windows /\ r.limit = w.limit /\ r.duration = w.duration
      /\ \/ r = w /\ t < w.start + w.duration
         \/ r.start = t /\ r.requests = 0 /\ w.start + w.duration <= t
  BY <1>1, ResetProperties
<1>3. v \in {[r EXCEPT !.requests = @ + 1], r, w}
  BY DEF afterAllow
<1>4. ASSUME allowed(ws, t)
      PROVE  v = [r EXCEPT !.requests = @ + 1] /\ r.requests < r.limit
  <2>1. \A k \in 1..Len(ws) : fits(reset(ws[k], t))
    BY <1>4 DEF allowed
  <2>2. i \in 1..Len(ws) /\ \A k \in 1..(i - 1) : fits(reset(ws[k], t))
    BY <2>1
  <2>3. fits(r)
    BY <2>1, <2>2
  <2> QED
    BY <2>2, <2>3 DEF afterAllow, fits
<1> HIDE DEF w, r, v
<1>5. /\ w.start \in Int /\ w.duration \in Nat /\ w.requests \in Nat
      /\ r.start \in Int /\ r.duration \in Nat /\ r.requests \in Nat
      /\ r.limit \in Nat /\ t \in Int
  BY <1>1, <1>2, MaxTimeAssumption DEF Windows, LongestDuration
<1>6. ASSUME v = [r EXCEPT !.requests = @ + 1]
      PROVE  /\ v \in Windows /\ v.limit = r.limit /\ v.duration = r.duration
             /\ v.start = r.start /\ v.requests = r.requests + 1
  BY <1>2, <1>6, CountProperties
<1>7. /\ v \in Windows /\ v.limit = w.limit /\ v.duration = w.duration
      /\ (v.start = r.start /\ v.requests >= r.requests) \/ v = w
  BY <1>1, <1>2, <1>3, <1>5, <1>6
<1>8. allowed(ws, t) =>
        /\ 1 <= v.requests /\ v.requests <= v.limit
        /\ t < v.start + v.duration \/ v.duration = 0
        /\ \/ v.start = w.start /\ v.requests = w.requests + 1
           \/ v.start = t /\ w.start + w.duration <= t
  BY <1>2, <1>4, <1>5, <1>6
<1>9. \/ v.start = w.start /\ v.requests >= w.requests
      \/ v.start = t /\ w.start + w.duration <= t
  BY <1>2, <1>5, <1>7
<1> QED
  BY <1>7, <1>8, <1>9 DEF w, v

\* windows.allow keeps the sequence of windows, and never moves a start back.
LEMMA AllowSequence ==
  ASSUME NEW ws \in Seq(Windows), NEW t \in 0..MaxTime
  PROVE  /\ afterAllow(ws, t) \in Seq(Windows)
         /\ DOMAIN afterAllow(ws, t) = DOMAIN ws /\ Len(afterAllow(ws, t)) = Len(ws)
         /\ \A i \in DOMAIN ws : afterAllow(ws, t)[i].start >= ws[i].start
<1>1. DOMAIN afterAllow(ws, t) = 1..Len(ws)
  BY DEF afterAllow
<1>2. \A i \in 1..Len(ws) : afterAllow(ws, t)[i] \in Windows
  BY AllowProperties
<1>3. afterAllow(ws, t) = [i \in 1..Len(ws) |-> afterAllow(ws, t)[i]]
  BY <1>1 DEF afterAllow
<1>4. \A i \in DOMAIN ws : afterAllow(ws, t)[i].start >= ws[i].start
  <2> SUFFICES ASSUME NEW i \in DOMAIN ws
               PROVE  afterAllow(ws, t)[i].start >= ws[i].start
    OBVIOUS
  <2>1. ws[i].start \in Int /\ ws[i].duration \in Nat /\ t \in Int
    BY WindowFields, MaxTimeAssumption
  <2>2. \/ afterAllow(ws, t)[i].start = ws[i].start
        \/ afterAllow(ws, t)[i].start = t /\ ws[i].start + ws[i].duration <= t
    BY AllowProperties
  <2> QED
    BY <2>1, <2>2
<1> QED
  BY <1>1, <1>2, <1>3, <1>4

\* OverrideWindows, one window.
LEMMA ReplaceProperties ==
  ASSUME NEW w \in Windows, NEW wc \in WindowConfigs, NEW v,
         v = [w EXCEPT !.limit = wc.limit, !.duration = wc.duration]
  PROVE  /\ v \in Windows /\ v.duration = wc.duration
         /\ v.start = w.start /\ v.requests = w.requests
<1>1. wc.limit \in Nat /\ wc.duration \in 0..LongestDuration
  BY DEF WindowConfigs
<1>2. ASSUME NEW l \in Nat, NEW d \in 0..LongestDuration
      PROVE  /\ [w EXCEPT !.limit = l, !.duration = d] \in Windows
             /\ [w EXCEPT !.limit = l, !.duration = d].duration = d
             /\ [w EXCEPT !.limit = l, !.duration = d].start = w.start
             /\ [w EXCEPT !.limit = l, !.duration = d].requests = w.requests
  BY DEF Windows
<1> QED
  BY <1>1, <1>2

\* OverrideWindows replaces limits and durations.
LEMMA OverrideProperties ==
  ASSUME NEW ws \in Seq(Windows), NEW o \in Seq(WindowConfigs)
  PROVE  /\ overridden(ws, o) \in Seq(Windows)
         /\ DOMAIN overridden(ws, o) = DOMAIN ws /\ Len(overridden(ws, o)) = Len(ws)
         /\ \A i \in DOMAIN ws :
              /\ overridden(ws, o)[i].start = ws[i].start
              /\ overridden(ws, o)[i].requests = ws[i].requests
              /\ overridden(ws, o)[i].duration =
                   IF i \in DOMAIN o THEN o[i].duration ELSE ws[i].duration
<1>1. ASSUME NEW i \in 1..Len(ws)
      PROVE  LET v == overridden(ws, o)[i]
             IN  /\ v \in Windows
                 /\ v.start = ws[i].start /\ v.requests = ws[i].requests
                 /\ v.duration = IF i \in DOMAIN o THEN o[i].duration ELSE ws[i].duration
  <2>0. i \in DOMAIN ws /\ ws[i] \in Windows
    OBVIOUS
  <2>1. CASE i \in DOMAIN o
    <3>1. ws[i] \in Windows /\ o[i] \in WindowConfigs
      BY <2>1
    <3>2. overridden(ws, o)[i] =
            [ws[i] EXCEPT !.limit = o[i].limit, !.duration = o[i].duration]
      BY <2>0, <2>1, Zenon DEF overridden
    <3>3. /\ overridden(ws, o)[i] \in Windows
          /\ overridden(ws, o)[i].duration = o[i].duration
          /\ overridden(ws, o)[i].start = ws[i].start
          /\ overridden(ws, o)[i].requests = ws[i].requests
      <4> DEFINE w == ws[i]
                 wc == o[i]
                 v == overridden(ws, o)[i]
      <4>1. w \in Windows /\ wc \in WindowConfigs
        BY <3>1
      <4>2. v = [w EXCEPT !.limit = wc.limit, !.duration = wc.duration]
        BY <3>2, Zenon
      <4> HIDE DEF w, wc, v
      <4>3. /\ v \in Windows /\ v.duration = wc.duration
            /\ v.start = w.start /\ v.requests = w.requests
        BY <4>1, <4>2, ReplaceProperties
      <4> QED
        BY <4>3 DEF w, wc, v
    <3> QED
      BY <2>1, <3>3
  <2>2. CASE i \notin DOMAIN o
    <3>1. overridden(ws, o)[i] = ws[i]
      BY <2>0, <2>2, Zenon DEF overridden
    <3> QED
      BY <2>0, <2>2, <3>1
  <2> QED
    BY <2>1, <2>2
<1>2. /\ DOMAIN overridden(ws, o) = 1..Len(ws)
      /\ overridden(ws, o) = [i \in 1..Len(ws) |-> overridden(ws, o)[i]]
  BY DEF overridden
<1> QED
  BY <1>1, <1>2

\* The windows a call of Allow starts from.
LEMMA OfKeyProperties ==
  ASSUME TypeOK
  PROVE  /\ ofKey \in Seq(Windows) /\ Len(ofKey) = Len(Config)
         /\ windows # << >> => ofKey = windows
         /\ windows = << >> => \A i \in DOMAIN ofKey :
              ofKey[i].duration = Config[i].duration /\ ofKey[i].requests = 0
<1>1. \A i \in 1..Len(Config) : Config[i] \in WindowConfigs
  BY ConfigAssumption
<1>2. \A i \in 1..Len(Config) : intoWindow(Config[i]) \in Windows
  BY <1>1, MaxTimeAssumption
     DEF intoWindow, Windows, WindowConfigs, ZeroTime, LongestDuration
<1>3. CASE windows = << >>
  <2>1. ofKey = [i \in 1..Len(Config) |-> intoWindow(Config[i])]
    BY <1>3, ConfigAssumption DEF ofKey
  <2> QED
    BY <1>2, <1>3, <2>1, ConfigAssumption DEF intoWindow
<1>4. CASE windows # << >>
  BY <1>4 DEF ofKey, TypeOK
<1> QED
  BY <1>3, <1>4

-----------------------------------------------------------------------------
\* What a call has fetched, if anything, is an override.
LEMMA OverrideType ==
  ASSUME TypeOK, NEW c \in Calls
  PROVE  override[c] \in Seq(WindowConfigs)
<1>1. override[c] \in Overrides \/ override[c] = << >>
  BY DEF TypeOK, NoOverride
<1>2. << >> \in Seq(WindowConfigs)
  OBVIOUS
<1> QED
  BY <1>1, <1>2, OverridesAssumption

\* Every step keeps the types.
LEMMA TypeStep ==
  ASSUME TypeOK, [Next]_vars
  PROVE  TypeOK'
<1>1. CASE Tick
  BY <1>1, MaxTimeAssumption DEF Tick, TypeOK
<1>2. ASSUME NEW c \in Calls, Arrive(c) PROVE TypeOK'
  BY <1>2 DEF Arrive, Goto, TypeOK
<1>3. ASSUME NEW c \in Calls, Allow(c) PROVE TypeOK'
  <2>1. at[c] \in 0..MaxTime /\ ofKey \in Seq(Windows) /\ Len(ofKey) = Len(Config)
    BY OfKeyProperties DEF TypeOK
  <2>2. windows' \in Seq(Windows) /\ Len(windows') = Len(Config)
    BY <1>3, <2>1, AllowSequence DEF Allow
  <2>3. pc' \in [Calls -> {"idle", "allow", "fetch", "override", "check"} \cup Answers]
    BY <1>3 DEF Allow, Goto, TypeOK, Answers
  <2> QED
    BY <1>3, <2>2, <2>3 DEF Allow, TypeOK
<1>4. ASSUME NEW c \in Calls, FetchNothing(c) \/ FetchOverride(c) \/ WouldAllow(c)
      PROVE  TypeOK'
  <2>1. pc' \in [Calls -> {"idle", "allow", "fetch", "override", "check"} \cup Answers]
    BY <1>4 DEF FetchNothing, FetchOverride, WouldAllow, Refusal, Goto, TypeOK, Answers
  <2>2. override' \in [Calls -> Overrides \cup {NoOverride}]
    BY <1>4 DEF FetchNothing, FetchOverride, WouldAllow, TypeOK
  <2> QED
    BY <1>4, <2>1, <2>2 DEF FetchNothing, FetchOverride, WouldAllow, TypeOK
<1>5. ASSUME NEW c \in Calls, OverrideWindows(c) PROVE TypeOK'
  <2>1. override[c] \in Seq(WindowConfigs)
    BY OverrideType
  <2>2. windows' \in Seq(Windows) /\ Len(windows') = Len(windows)
    BY <1>5, <2>1, OverrideProperties DEF OverrideWindows, TypeOK
  <2>3. pc' \in [Calls -> {"idle", "allow", "fetch", "override", "check"} \cup Answers]
    BY <1>5 DEF OverrideWindows, Goto, TypeOK
  <2> QED
    BY <1>5, <2>2, <2>3 DEF OverrideWindows, TypeOK
<1>6. CASE UNCHANGED vars
  BY <1>6 DEF vars, TypeOK
<1> QED
  BY <1>1, <1>2, <1>3, <1>4, <1>5, <1>6 DEF Next

\* internal/rate: the state of the limiter and of its calls keeps its types.
THEOREM TypeCorrect == Spec => []TypeOK
<1>1. Init => TypeOK
  BY MaxTimeAssumption DEF Init, TypeOK
<1> QED
  BY <1>1, TypeStep, PTL DEF Spec

\* window.allow: no call, however late, moves the start of a window back.
THEOREM StartsOnlyAdvance == Spec => StartNeverMovesBack
<1>1. TypeOK /\ [Next]_vars =>
        [\A i \in DOMAIN windows : windows'[i].start >= windows[i].start]_vars
  <2> SUFFICES ASSUME TypeOK, Next, NEW i \in DOMAIN windows
               PROVE  windows'[i].start >= windows[i].start
    BY DEF vars
  <2>1. windows[i].start \in Int
    BY WindowFields DEF TypeOK
  <2>2. CASE UNCHANGED windows
    BY <2>1, <2>2
  <2>3. ASSUME NEW c \in Calls, Allow(c) PROVE windows'[i].start >= windows[i].start
    <3>1. ofKey = windows /\ at[c] \in 0..MaxTime /\ windows \in Seq(Windows)
      BY OfKeyProperties DEF TypeOK
    <3> QED
      BY <2>3, <3>1, AllowSequence DEF Allow
  <2>4. ASSUME NEW c \in Calls, OverrideWindows(c)
        PROVE  windows'[i].start >= windows[i].start
    <3>1. override[c] \in Seq(WindowConfigs) /\ windows \in Seq(Windows)
      BY OverrideType DEF TypeOK
    <3>2. windows' = overridden(windows, override[c])
      BY <2>4 DEF OverrideWindows
    <3>3. overridden(windows, override[c])[i].start = windows[i].start
      BY <3>1, OverrideProperties
    <3> QED
      BY <2>1, <3>2, <3>3
  <2> QED
    BY <2>2, <2>3, <2>4
       DEF Next, Tick, Arrive, FetchNothing, FetchOverride, WouldAllow
<1> QED
  BY <1>1, TypeCorrect, PTL DEF Spec, StartNeverMovesBack

-----------------------------------------------------------------------------
\* At most one more request is admitted in a window by a step that admits c:
\* what was in it is in its count, and a window that started anew has nothing
\* in it that was admitted before.
LEMMA AdmittedGrows ==
  ASSUME TypeOK, NEW w \in Windows, NEW v \in Windows, NEW t \in 0..MaxTime,
         Cardinality(AdmittedIn(w)) <= w.requests,
         \A d \in Calls : pc[d] = "admitted" /\ w.duration > 0 =>
                            at[d] < w.start + w.duration,
         v.duration = w.duration,
         NEW S, S \subseteq {d \in Calls : pc[d] = "admitted" /\ v.start <= at[d]
                                                /\ at[d] < v.start + v.duration}
  PROVE  /\ IsFiniteSet(S) /\ Cardinality(S) \in Nat
         /\ v.start = w.start => Cardinality(S) <= w.requests
         /\ v.start = t /\ w.start + w.duration <= t => Cardinality(S) = 0
<1>1. /\ w.duration \in Nat /\ w.start \in Int /\ w.requests \in Nat
      /\ v.duration \in Nat /\ v.start \in Int /\ t \in Int
  BY WindowFields, MaxTimeAssumption
<1>2. \A d \in Calls : at[d] \in Int
  BY MaxTimeAssumption DEF TypeOK
<1>3. IsFiniteSet(AdmittedIn(w)) /\ Cardinality(AdmittedIn(w)) \in Nat
  BY CallsAssumption, FS_Subset, FS_CardinalityType DEF AdmittedIn
<1>4. IsFiniteSet(S) /\ Cardinality(S) \in Nat
  BY CallsAssumption, FS_Subset, FS_CardinalityType
<1>5. ASSUME v.start = w.start PROVE Cardinality(S) <= w.requests
  <2>1. S \subseteq AdmittedIn(w)
    BY <1>5 DEF AdmittedIn
  <2>2. Cardinality(S) <= Cardinality(AdmittedIn(w))
    BY <1>3, <2>1, FS_Subset
  <2> QED
    BY <1>1, <1>3, <1>4, <2>2
<1>6. ASSUME v.start = t, w.start + w.duration <= t PROVE Cardinality(S) = 0
  <2>1. \A d \in S : FALSE
    BY <1>1, <1>2, <1>6
  <2>2. S = {}
    BY <2>1
  <2> QED
    BY <2>2, FS_EmptySet
<1> QED
  BY <1>4, <1>5, <1>6
\* The windows that a key gets at its first request are as sound as others.
LEMMA OfKeySound ==
  ASSUME WindowInv
  PROVE  Durations(ofKey) /\ InTime(ofKey) /\ Counted(ofKey)
<1>1. CASE windows # << >>
  BY <1>1, OfKeyProperties DEF WindowInv
<1>2. CASE windows = << >>
  <2>1. \A i \in DOMAIN ofKey : /\ ofKey[i].duration = Config[i].duration
                                /\ ofKey[i].requests = 0
    BY <1>2, OfKeyProperties DEF WindowInv
  <2>2. ASSUME NEW i \in DOMAIN ofKey PROVE \A c \in Calls : pc[c] # "admitted"
    <3>1. Len(ofKey) # 0 /\ Len(Config) # 0
      BY OfKeyProperties DEF WindowInv
    <3> QED
      BY <1>2, <3>1 DEF WindowInv, Untouched
  <2>3. ASSUME NEW i \in DOMAIN ofKey PROVE Cardinality(AdmittedIn(ofKey[i])) <= 0
    <3>1. AdmittedIn(ofKey[i]) = {}
      BY <2>2 DEF AdmittedIn
    <3> QED
      BY <3>1, FS_EmptySet
  <2> QED
    BY <2>1, <2>2, <2>3 DEF Durations, InTime, Counted
<1> QED
  BY <1>1, <1>2

\* MultiBucketFixedWindowLimiter.Allow: the count stays an upper bound, and an
\* admission finds every window within its limit, the new request included.
LEMMA AllowKeeps ==
  ASSUME WindowInv, NEW c \in Calls, Allow(c)
  PROVE  /\ WindowInv'
         /\ (\E d \in Calls : pc[d] # "admitted" /\ pc'[d] = "admitted") => WithinLimits'
<1> DEFINE ws == ofKey
           t == at[c]
<1>1. /\ ws \in Seq(Windows) /\ t \in 0..MaxTime /\ Len(ws) = Len(Config)
      /\ Durations(ws) /\ InTime(ws) /\ Counted(ws)
  BY OfKeyProperties, OfKeySound DEF WindowInv, TypeOK
<1>2. /\ windows' = afterAllow(ws, t) /\ UNCHANGED <<now, at, override>>
      /\ pc[c] = "allow" /\ c \in DOMAIN pc
      /\ pc' = [pc EXCEPT ![c] = IF allowed(ws, t) THEN "admitted" ELSE "fetch"]
  BY DEF Allow, Goto, WindowInv, TypeOK
<1> HIDE DEF ws, t
<1>3. DOMAIN windows' = DOMAIN ws /\ Len(windows') = Len(ws)
  BY <1>1, <1>2, AllowSequence
<1>4. TypeOK'
  BY TypeStep DEF WindowInv, Next
<1>5. ASSUME NEW i \in DOMAIN ws
      PROVE  /\ windows'[i].duration = Config[i].duration
             /\ \A d \in Calls : pc'[d] = "admitted" /\ windows'[i].duration > 0 =>
                                 at'[d] < windows'[i].start + windows'[i].duration
             /\ Cardinality(AdmittedIn(windows[i])') <= windows'[i].requests
             /\ allowed(ws, t) =>
                  Cardinality(AdmittedIn(windows[i])') <= windows'[i].limit
  <2> DEFINE w == ws[i]
             v == windows'[i]
             A == AdmittedIn(windows[i])'
             S == A \ {c}
  <2>1. w \in Windows /\ w.duration = Config[i].duration
        /\ Cardinality(AdmittedIn(w)) <= w.requests
        /\ \A d \in Calls : pc[d] = "admitted" /\ w.duration > 0 =>
                            at[d] < w.start + w.duration
    BY <1>1 DEF Durations, InTime, Counted
  <2>2. /\ v \in Windows
        /\ v.limit = w.limit /\ v.duration = w.duration
        /\ \/ v.start = w.start /\ v.requests >= w.requests
           \/ v.start = t /\ w.start + w.duration <= t
        /\ allowed(ws, t) =>
             /\ 1 <= v.requests /\ v.requests <= v.limit
             /\ t < v.start + v.duration \/ v.duration = 0
             /\ \/ v.start = w.start /\ v.requests = w.requests + 1
                \/ v.start = t /\ w.start + w.duration <= t
    BY <1>1, <1>2, AllowProperties
  <2>3. A = {d \in Calls : pc'[d] = "admitted" /\ v.start <= at[d]
                            /\ at[d] < v.start + v.duration}
    BY <1>2 DEF AdmittedIn
  <2>4. S \subseteq {d \in Calls : pc[d] = "admitted" /\ v.start <= at[d]
                                   /\ at[d] < v.start + v.duration}
    BY <1>2, <2>3
  <2>5. ~ allowed(ws, t) => A = S
    BY <1>2, <2>3
  <2> HIDE DEF w, v, A
  <2>6. /\ IsFiniteSet(S) /\ Cardinality(S) \in Nat
        /\ v.start = w.start => Cardinality(S) <= w.requests
        /\ v.start = t /\ w.start + w.duration <= t => Cardinality(S) = 0
    BY <1>1, <2>1, <2>2, <2>4, AdmittedGrows DEF WindowInv
  <2> HIDE DEF S
  <2>7. /\ w.requests \in Nat /\ w.start \in Int /\ w.duration \in Nat /\ t \in Int
        /\ v.requests \in Nat /\ v.start \in Int /\ v.limit \in Nat
        /\ \A d \in Calls : at[d] \in Int
    BY <1>1, <2>1, <2>2, WindowFields, MaxTimeAssumption DEF WindowInv, TypeOK
  <2>8. Cardinality(S) <= v.requests /\ (allowed(ws, t) => Cardinality(S) + 1 <= v.requests)
    <3>1. CASE v.start = w.start /\ v.requests >= w.requests /\ ~ allowed(ws, t)
      BY <2>6, <2>7, <3>1
    <3>2. CASE v.start = w.start /\ v.requests = w.requests + 1
      BY <2>6, <2>7, <3>2
    <3>3. CASE v.start = t /\ w.start + w.duration <= t
      BY <2>2, <2>6, <2>7, <3>3
    <3> QED
      BY <2>2, <2>7, <3>1, <3>2, <3>3
  <2>9. IsFiniteSet(A) /\ Cardinality(A) \in Nat /\ Cardinality(A) <= Cardinality(S) + 1
    <3>1. A \in SUBSET (S \cup {c})
      BY DEF S
    <3>2. /\ IsFiniteSet(S \cup {c})
          /\ Cardinality(S \cup {c}) \in Nat
          /\ Cardinality(S \cup {c}) <= Cardinality(S) + 1
      <4>1. IsFiniteSet(S \cup {c})
            /\ Cardinality(S \cup {c}) = IF c \in S THEN Cardinality(S) ELSE Cardinality(S) + 1
        BY <2>6, FS_AddElement
      <4> QED
        BY <2>6, <4>1
    <3>3. IsFiniteSet(A) /\ Cardinality(A) <= Cardinality(S \cup {c})
      BY <3>1, <3>2, FS_Subset
    <3>4. Cardinality(A) \in Nat
      BY <3>3, FS_CardinalityType
    <3> QED
      BY <2>6, <3>2, <3>3, <3>4
  <2>10. \A d \in Calls : pc'[d] = "admitted" /\ v.duration > 0 =>
                           at[d] < v.start + v.duration
    <3> SUFFICES ASSUME NEW d \in Calls, pc'[d] = "admitted", v.duration > 0
                 PROVE  at[d] < v.start + v.duration
      OBVIOUS
    <3>1. CASE d = c
      <4>1. allowed(ws, t)
        BY <1>2, <3>1
      <4> QED
        BY <2>2, <2>7, <3>1, <4>1 DEF t
    <3>2. CASE d # c
      <4>1. at[d] < w.start + w.duration
        BY <1>2, <2>1, <2>2, <3>2
      <4> QED
        BY <2>2, <2>7, <4>1
    <3> QED
      BY <3>1, <3>2
  <2>11. Cardinality(A) <= v.requests /\ (allowed(ws, t) => Cardinality(A) <= v.limit)
    BY <2>2, <2>5, <2>6, <2>7, <2>8, <2>9
  <2> QED
    BY <1>2, <2>1, <2>2, <2>10, <2>11 DEF v, A
<1>6. Durations(windows)' /\ InTime(windows)' /\ Counted(windows)'
  BY <1>3, <1>5 DEF Durations, InTime, Counted
<1>7. Untouched'
  BY <1>1, <1>3, ConfigAssumption DEF Untouched
<1>8. (\E d \in Calls : pc[d] # "admitted" /\ pc'[d] = "admitted") => allowed(ws, t)
  BY <1>2
<1>9. allowed(ws, t) => WithinLimits'
  BY <1>3, <1>5 DEF WithinLimits
<1> QED
  BY <1>4, <1>6, <1>7, <1>8, <1>9 DEF WindowInv
\* OverrideWindows leaves starts and counts alone, and, if the override changes
\* limits only, also what was admitted in a window.
LEMMA OverrideKeeps ==
  ASSUME DurationsKept', WindowInv, NEW c \in Calls, OverrideWindows(c)
  PROVE  WindowInv' /\ \A d \in Calls : pc'[d] = "admitted" => pc[d] = "admitted"
<1>1. /\ windows \in Seq(Windows) /\ override[c] \in Seq(WindowConfigs)
      /\ windows' = overridden(windows, override[c])
      /\ Len(windows) \in {0, Len(Config)} /\ UNCHANGED <<now, at, override>>
  BY OverrideType DEF WindowInv, TypeOK, OverrideWindows
<1>2. \A d \in Calls : pc'[d] = "admitted" <=> pc[d] = "admitted"
  BY DEF OverrideWindows, Goto, WindowInv, TypeOK
<1>3. DOMAIN windows' = DOMAIN windows /\ Len(windows') = Len(windows)
  BY <1>1, OverrideProperties
<1>4. ASSUME NEW i \in DOMAIN windows
      PROVE  /\ windows'[i].start = windows[i].start
             /\ windows'[i].requests = windows[i].requests
             /\ windows'[i].duration = windows[i].duration
             /\ windows[i].duration = Config[i].duration
  <2>1. /\ windows'[i].start = windows[i].start
        /\ windows'[i].requests = windows[i].requests
        /\ windows'[i].duration =
             IF i \in DOMAIN override[c] THEN override[c][i].duration ELSE windows[i].duration
    BY <1>1, OverrideProperties
  <2>2. windows[i].duration = Config[i].duration
    BY DEF WindowInv, Durations
  <2>3. ASSUME i \in DOMAIN override[c] PROVE override[c][i].duration = Config[i].duration
    <3>1. pc'[c] = "check" /\ override' = override
      BY DEF OverrideWindows, Goto, WindowInv, TypeOK
    <3>2. i \in DOMAIN Config
      BY <1>1, ConfigAssumption
    <3> QED
      BY <2>3, <3>1, <3>2 DEF DurationsKept
  <2> QED
    BY <2>1, <2>2, <2>3
<1>5. Durations(windows)' /\ InTime(windows)'
  BY <1>1, <1>2, <1>3, <1>4 DEF WindowInv, Durations, InTime
<1>6. Counted(windows)'
  <2> SUFFICES ASSUME NEW i \in DOMAIN windows
               PROVE  Cardinality(AdmittedIn(windows[i])') <= windows'[i].requests
    BY <1>3 DEF Counted
  <2>1. AdmittedIn(windows[i])' = AdmittedIn(windows[i])
    BY <1>1, <1>2, <1>4 DEF AdmittedIn
  <2> QED
    BY <1>4, <2>1 DEF WindowInv, Counted
<1>7. Untouched'
  BY <1>1, <1>2, <1>3 DEF WindowInv, Untouched
<1>8. TypeOK'
  BY TypeStep DEF WindowInv, Next
<1> QED
  BY <1>2, <1>5, <1>6, <1>7, <1>8 DEF WindowInv

\* All other steps leave the windows and what is admitted alone.
LEMMA OthersKeep ==
  ASSUME WindowInv,
         \/ Tick \/ UNCHANGED vars
         \/ \E c \in Calls : Arrive(c) \/ FetchNothing(c) \/ FetchOverride(c) \/ WouldAllow(c)
  PROVE  WindowInv' /\ \A d \in Calls : pc'[d] = "admitted" => pc[d] = "admitted"
<1>1. UNCHANGED windows
  BY DEF Tick, vars, Arrive, FetchNothing, FetchOverride, WouldAllow
<1>2. \A d \in Calls : pc'[d] = "admitted" <=> pc[d] = "admitted"
  BY DEF Tick, vars, Arrive, FetchNothing, FetchOverride, WouldAllow, Refusal, Goto,
         WindowInv, TypeOK
<1>3. \A d \in Calls : pc[d] = "admitted" => at'[d] = at[d]
  BY DEF Tick, vars, Arrive, FetchNothing, FetchOverride, WouldAllow, Goto,
         WindowInv, TypeOK
<1>4. Durations(windows)' /\ InTime(windows)'
  BY <1>1, <1>2, <1>3 DEF WindowInv, Durations, InTime
<1>5. \A i \in DOMAIN windows : AdmittedIn(windows[i])' = AdmittedIn(windows[i])
  BY <1>1, <1>2, <1>3 DEF AdmittedIn
<1>6. Counted(windows)' /\ Untouched'
  BY <1>1, <1>2, <1>5 DEF WindowInv, Counted, Untouched
<1>7. TypeOK'
  BY TypeStep DEF WindowInv, Next
<1> QED
  BY <1>2, <1>4, <1>6, <1>7 DEF WindowInv

\* A call keeps the override that it has applied.
LEMMA OverrideStays ==
  ASSUME TypeOK, FetchedOnce, [Next]_vars
  PROVE  /\ FetchedOnce'
         /\ DurationsKept' => DurationsKept
<1>1. ASSUME NEW c \in Calls
      PROVE  /\ pc'[c] \in {"idle", "allow", "fetch"} => override'[c] = NoOverride
             /\ pc[c] # "override" /\ override[c] # NoOverride =>
                  pc'[c] # "override" /\ override'[c] = override[c]
  <2>1. CASE Tick \/ UNCHANGED vars
    BY <2>1 DEF Tick, vars, FetchedOnce
  <2>2. ASSUME NEW d \in Calls, Arrive(d) \/ Allow(d) \/ FetchNothing(d)
                                \/ OverrideWindows(d) \/ WouldAllow(d)
        PROVE  /\ override' = override
               /\ pc'[c] # pc[c] => pc[c] # "admitted" /\ pc'[c] # "override"
               /\ pc'[c] \in {"idle", "allow", "fetch"} => pc[c] \in {"idle", "allow", "fetch"}
    BY <2>2 DEF Arrive, Allow, FetchNothing, OverrideWindows, WouldAllow, Refusal, Goto, TypeOK
  <2>3. ASSUME NEW d \in Calls, FetchOverride(d)
        PROVE  /\ pc'[c] \in {"idle", "allow", "fetch"} => override'[c] = NoOverride
               /\ pc[c] # "override" /\ override[c] # NoOverride =>
                    pc'[c] # "override" /\ override'[c] = override[c]
    BY <2>3 DEF FetchOverride, Goto, TypeOK, FetchedOnce
  <2>4. CASE \E d \in Calls : Arrive(d) \/ Allow(d) \/ FetchNothing(d)
                              \/ OverrideWindows(d) \/ WouldAllow(d)
    BY <2>2, <2>4 DEF FetchedOnce
  <2> QED
    BY <2>1, <2>3, <2>4 DEF Next
<1>2. ASSUME DurationsKept', NEW c \in Calls, pc[c] # "override",
             NEW i \in DOMAIN override[c] \cap DOMAIN Config
      PROVE  override[c][i].duration = Config[i].duration
  <2>1. override[c] # NoOverride
    BY <1>2 DEF NoOverride
  <2>2. pc'[c] # "override" /\ override'[c] = override[c]
    BY <1>1, <1>2, <2>1
  <2> QED
    BY <1>2, <2>2 DEF DurationsKept
<1> QED
  BY <1>1, <1>2 DEF FetchedOnce, DurationsKept

\* Only Allow admits.
LEMMA AllowAdmits ==
  ASSUME TypeOK, [Next]_vars, NEW d \in Calls, pc[d] # "admitted", pc'[d] = "admitted"
  PROVE  \E c \in Calls : Allow(c)
<1>1. ~(Tick \/ UNCHANGED vars)
  BY DEF Tick, vars
<1>2. ASSUME NEW c \in Calls
      PROVE  ~(Arrive(c) \/ FetchNothing(c) \/ FetchOverride(c) \/ OverrideWindows(c)
               \/ WouldAllow(c))
  BY DEF Arrive, FetchNothing, FetchOverride, OverrideWindows, WouldAllow, Refusal, Goto, TypeOK
<1> QED
  BY <1>1, <1>2 DEF Next

\* fixed_window.go: as long as no override that was applied has changed a
\* duration, no call is admitted over the limit of any window, whatever the
\* order in which the times of the calls reach the limiter, and however limits
\* are raised and lowered.
THEOREM NoneAdmittedOverLimit == Spec => AdmittedWithinLimit
<1>1. Init => OverrideInv
  <2>1. Init => TypeOK
    BY MaxTimeAssumption DEF Init, TypeOK
  <2> QED
    BY <2>1 DEF Init, OverrideInv, FetchedOnce, WindowInv, Durations, InTime, Counted, Untouched
<1>2. OverrideInv /\ [Next]_vars =>
        /\ OverrideInv'
        /\ (\E c \in Calls : pc[c] # "admitted" /\ pc'[c] = "admitted") /\ DurationsKept
             => WithinLimits'
  <2> SUFFICES ASSUME OverrideInv, [Next]_vars
               PROVE  /\ OverrideInv'
                      /\ (\E c \in Calls : pc[c] # "admitted" /\ pc'[c] = "admitted")
                           /\ DurationsKept => WithinLimits'
    OBVIOUS
  <2>1. TypeOK' /\ FetchedOnce' /\ (DurationsKept' => DurationsKept)
    BY TypeStep, OverrideStays DEF OverrideInv
  <2>2. ASSUME DurationsKept' PROVE WindowInv'
    <3>1. WindowInv
      BY <2>1, <2>2 DEF OverrideInv
    <3> QED
      BY <2>2, <3>1, AllowKeeps, OverrideKeeps, OthersKeep DEF Next
  <2>3. ASSUME NEW d \in Calls, pc[d] # "admitted", pc'[d] = "admitted", DurationsKept
        PROVE  WithinLimits'
    <3>1. PICK c \in Calls : Allow(c)
      BY <2>3, AllowAdmits DEF OverrideInv
    <3>2. WindowInv
      BY <2>3 DEF OverrideInv
    <3> QED
      BY <2>3, <3>1, <3>2, AllowKeeps
  <2> QED
    BY <2>1, <2>2, <2>3 DEF OverrideInv
<1> QED
  BY <1>1, <1>2, PTL DEF Spec, AdmittedWithinLimit
-----------------------------------------------------------------------------
\* The configuration of a manager.

\* What is loaded belongs to a configuration, and the watcher asks for the
\* lock with one in hand only.
WatchTypes ==
  /\ reading \subseteq Callers
  /\ loaded \subseteq WatchedPaths
  /\ view \in [Callers -> SUBSET WatchedPaths]
  /\ source \in Configs \cup {Unreadable}
  /\ watcher \in {"fetched", "locking"} => fetched \in Configs

\* Nobody calls a manager that is not there.
WatchInv ==
  /\ WatchTypes
  /\ CallSeesOneConfig
  /\ manager = "new" => reading = {}

LEMMA PathsOfConfig ==
  ASSUME NEW cfg \in Configs
  PROVE  /\ PathsOf[cfg] \subseteq WatchedPaths
         /\ \A ps \in ParsedPaths(cfg) : ps \subseteq WatchedPaths
BY DEF WatchedPaths, ParsedPaths

\* A call takes the lock and sees the patterns there are.
LEMMA CallBegins ==
  ASSUME WatchInv, NEW c \in Callers, manager = "running",
         UNCHANGED <<manager, loaded, source, watcher, fetched>>,
         reading' \in {reading \cup {c}, {c}}, view' = [view EXCEPT ![c] = loaded]
  PROVE  WatchInv'
<1>1. /\ view' \in [Callers -> SUBSET WatchedPaths] /\ view'[c] = loaded
      /\ \A d \in Callers : d # c => view'[d] = view[d]
  BY DEF WatchInv, WatchTypes
<1>2. reading' \subseteq Callers /\ \A d \in reading' : d # c => d \in reading
  BY DEF WatchInv, WatchTypes
<1>3. CallSeesOneConfig'
  BY <1>1, <1>2 DEF WatchInv, CallSeesOneConfig
<1>4. WatchTypes'
  BY <1>1, <1>2 DEF WatchInv, WatchTypes, WatchedPaths
<1> QED
  BY <1>3, <1>4 DEF WatchInv

\* The patterns change while no call holds the lock.
LEMMA PatternsChange ==
  ASSUME WatchInv, reading = {}, loaded' \in SUBSET WatchedPaths,
         watcher' \notin {"fetched", "locking"},
         UNCHANGED <<source, reading, view>>
  PROVE  WatchInv'
BY DEF WatchInv, WatchTypes, CallSeesOneConfig, WatchedPaths

LEMMA WatchStep ==
  ASSUME WatchInv, [WatchNext]_watchVars
  PROVE  WatchInv'
<1> USE DEF env, calls
<1>1. /\ source \in Configs \cup {Unreadable}
      /\ watcher \in {"fetched", "locking"} => fetched \in Configs
  BY DEF WatchInv, WatchTypes
<1>2. CASE NewManager \/ NewRateLimitManager \/ NewDynamicManager
  <2>1. manager = "new" /\ UNCHANGED <<source, reading, view>> /\ source # Unreadable
    BY <1>2 DEF NewManager, NewRateLimitManager, NewDynamicManager
  <2>2. reading = {} /\ source \in Configs
    BY <1>1, <2>1 DEF WatchInv
  <2>3. CASE UNCHANGED <<loaded, watcher, fetched>>
    BY <2>1, <2>2, <2>3 DEF WatchInv, WatchTypes, CallSeesOneConfig, WatchedPaths
  <2>4. CASE loaded' = PathsOf[source] /\ watcher' = "waiting"
    BY <2>1, <2>2, <2>4, PathsOfConfig, PatternsChange
  <2> QED
    BY <1>2, <2>3, <2>4 DEF NewManager, NewRateLimitManager, NewDynamicManager
<1>3. CASE Reload \/ SwapLimiters \/ SwapConfig
  <2>1. watcher = "locking" /\ reading = {} /\ UNCHANGED <<source, reading, view>>
        /\ watcher' \in {"waiting", "done"}
        /\ loaded' \in ParsedPaths(fetched) \cup {PathsOf[fetched]}
    BY <1>3 DEF Reload, SwapLimiters, SwapConfig
  <2>2. loaded' \in SUBSET WatchedPaths
    BY <1>1, <2>1, PathsOfConfig
  <2> QED
    BY <2>1, <2>2, PatternsChange
<1>4. ASSUME NEW c \in Callers, AllowBegins(c) \/ AllowHandler(c) \/ AllowKey(c)
      PROVE  WatchInv'
  BY <1>4, CallBegins DEF AllowBegins, AllowHandler, AllowKey
<1>5. ASSUME NEW c \in Callers, AllowReturns(c)
      PROVE  WatchInv'
  BY <1>5 DEF AllowReturns, WatchInv, WatchTypes, CallSeesOneConfig, WatchedPaths
<1>6. CASE TickChanged \/ AskForLock
  BY <1>1, <1>6 DEF TickChanged, AskForLock, WatchInv, WatchTypes, CallSeesOneConfig, WatchedPaths
<1>7. CASE ChangeConfig
  BY <1>7 DEF ChangeConfig, WatchInv, WatchTypes, CallSeesOneConfig, WatchedPaths
<1>8. CASE NewManagerFails \/ CancelContext \/ WatcherCancelled
  BY <1>8 DEF NewManagerFails, CancelContext, WatcherCancelled, WatchInv, WatchTypes,
              CallSeesOneConfig, WatchedPaths
<1>9. CASE UNCHANGED watchVars
  BY <1>9 DEF watchVars, WatchInv, WatchTypes, CallSeesOneConfig, WatchedPaths
<1>10. CASE TickNothing \/ TickPanics \/ \E c \in Callers : AllowKeyPanics(c)
  BY <1>9, <1>10 DEF TickNothing, TickPanics, AllowKeyPanics
<1> QED
  BY <1>2, <1>3, <1>4, <1>5, <1>6, <1>7, <1>8, <1>9, <1>10 DEF WatchNext

\* Manager.Allow of each of the three managers: from the first pattern it
\* looks at to the limiter it takes, a call works with one configuration, for
\* any configurations, bad ones included, and any number of calls.
THEOREM CallKeepsItsConfig == WatchSpec => []CallSeesOneConfig
<1>1. WatchInit => WatchInv
  BY DEF WatchInit, WatchInv, WatchTypes, CallSeesOneConfig
<1>2. WatchInv /\ [WatchNext]_watchVars => WatchInv'
  BY WatchStep
<1>3. WatchInv => CallSeesOneConfig
  BY DEF WatchInv
<1> QED
  BY <1>1, <1>2, <1>3, PTL DEF WatchSpec

-----------------------------------------------------------------------------
\* How two patterns compare.

\* Induction in the form that the proofs use it: a set of numbers that is
\* not empty has a least member.
LEMMA LeastNatural ==
  ASSUME NEW T \in SUBSET Nat, T # {}
  PROVE  \E x \in T : \A y \in T : x <= y
<1>1. PICK x \in T : \A y \in T : ~(<<y, x>> \in OpToRel(<, Nat))
  BY NatLessThanWellFounded, WFMin
<1>2. \A y \in T : y < x => <<y, x>> \in OpToRel(<, Nat)
  <2>1. OpToRel(<, Nat) = {ss \in Nat \X Nat : ss[1] < ss[2]}
    BY DEF OpToRel
  <2>2. ASSUME NEW y \in Nat, NEW z \in Nat, y < z
        PROVE  <<y, z>> \in {ss \in Nat \X Nat : ss[1] < ss[2]}
    BY <2>2
  <2> QED
    BY <2>1, <2>2
<1>3. \A y \in T : ~(y < x)
  BY <1>1, <1>2, Zenon
<1> QED
  BY <1>3

\* The five values of relationship.  Two of them say that the first pattern
\* matches no request that the second one does not, two say the converse.
Relationships == {"equivalent", "moreSpecific", "moreGeneral", "overlaps", "disjoint"}
Within(r) == r \in {"equivalent", "moreSpecific"}
Around(r) == r \in {"equivalent", "moreGeneral"}

\* combineRelationships is a conjunction of what its arguments say.
LEMMA CombineMeans ==
  ASSUME NEW r1 \in Relationships, NEW r2 \in Relationships
  PROVE  /\ combineRelationships(r1, r2) \in Relationships
         /\ Within(combineRelationships(r1, r2)) <=> Within(r1) /\ Within(r2)
         /\ Around(combineRelationships(r1, r2)) <=> Around(r1) /\ Around(r2)
         /\ combineRelationships(r1, r2) = "disjoint" <=> r1 = "disjoint" \/ r2 = "disjoint"
<1>1. CASE r1 = "equivalent"
  BY <1>1 DEF Relationships, combineRelationships, Within, Around
<1>2. CASE r1 = "disjoint"
  BY <1>2 DEF Relationships, combineRelationships, Within, Around
<1>3. CASE r1 = "overlaps"
  BY <1>3 DEF Relationships, combineRelationships, Within, Around
<1>4. CASE r1 = "moreSpecific"
  BY <1>4 DEF Relationships, combineRelationships, inverseRelationship, Within, Around
<1>5. CASE r1 = "moreGeneral"
  BY <1>5 DEF Relationships, combineRelationships, inverseRelationship, Within, Around
<1> QED
  BY <1>1, <1>2, <1>3, <1>4, <1>5 DEF Relationships

\* A relationship is determined by what it says.
LEMMA MeaningDetermines ==
  ASSUME NEW r1 \in Relationships, NEW r2 \in Relationships,
         Within(r1) <=> Within(r2), Around(r1) <=> Around(r2),
         r1 = "disjoint" <=> r2 = "disjoint"
  PROVE  r1 = r2
BY DEF Relationships, Within, Around

\* What the loop of comparePaths has found after i segments.
Found(c, i) ==
  IF \E k \in 1..i : c[k] = "disjoint" THEN "disjoint"
  ELSE IF \A k \in 1..i : Within(c[k])
       THEN IF \A k \in 1..i : Around(c[k]) THEN "equivalent" ELSE "moreSpecific"
       ELSE IF \A k \in 1..i : Around(c[k]) THEN "moreGeneral" ELSE "overlaps"

\* Each of the three questions about the segments has the answer that its
\* name says.
LEMMA FoundMeans ==
  ASSUME NEW c, NEW i
  PROVE  /\ Found(c, i) \in Relationships
         /\ Within(Found(c, i)) <=>
              (\A k \in 1..i : Within(c[k])) /\ ~\E k \in 1..i : c[k] = "disjoint"
         /\ Around(Found(c, i)) <=>
              (\A k \in 1..i : Around(c[k])) /\ ~\E k \in 1..i : c[k] = "disjoint"
         /\ Found(c, i) = "disjoint" <=> \E k \in 1..i : c[k] = "disjoint"
<1> DEFINE w == \A k \in 1..i : Within(c[k])
           a == \A k \in 1..i : Around(c[k])
           d == \E k \in 1..i : c[k] = "disjoint"
<1>1. Found(c, i) = IF d THEN "disjoint" ELSE IF w THEN IF a THEN "equivalent" ELSE "moreSpecific"
                    ELSE IF a THEN "moreGeneral" ELSE "overlaps"
  BY DEF Found
<1>2. \A k \in 1..i : Within(c[k]) \/ Around(c[k]) => c[k] # "disjoint"
  BY DEF Within, Around
<1> HIDE DEF w, a, d
<1>3. /\ Found(c, i) \in Relationships
      /\ Within(Found(c, i)) <=> w /\ ~d
      /\ Around(Found(c, i)) <=> a /\ ~d
      /\ Found(c, i) = "disjoint" <=> d
  <2>1. CASE d
    BY <1>1, <2>1 DEF Relationships, Within, Around
  <2>2. CASE ~d /\ w /\ a
    BY <1>1, <2>2 DEF Relationships, Within, Around
  <2>3. CASE ~d /\ w /\ ~a
    BY <1>1, <2>3 DEF Relationships, Within, Around
  <2>4. CASE ~d /\ ~w /\ a
    BY <1>1, <2>4 DEF Relationships, Within, Around
  <2>5. CASE ~d /\ ~w /\ ~a
    BY <1>1, <2>5 DEF Relationships, Within, Around
  <2> QED
    BY <2>1, <2>2, <2>3, <2>4, <2>5
<1> QED
  BY <1>3 DEF w, a, d

\* The closed form follows the recursion of the loop: one more segment.
LEMMA FoundStep ==
  ASSUME NEW n \in Nat, NEW c \in [1..n -> Relationships], NEW i \in 1..n
  PROVE  Found(c, i) = combineRelationships(Found(c, i - 1), c[i])
<1> DEFINE r1 == Found(c, i - 1)
           r == combineRelationships(r1, c[i])
<1>1. c[i] \in Relationships /\ r1 \in Relationships
  BY FoundMeans
<1>2. \A k : k \in 1..i <=> k \in 1..(i - 1) \/ k = i
  OBVIOUS
<1>3. /\ r \in Relationships
      /\ Within(r) <=> Within(r1) /\ Within(c[i])
      /\ Around(r) <=> Around(r1) /\ Around(c[i])
      /\ r = "disjoint" <=> r1 = "disjoint" \/ c[i] = "disjoint"
  <2> HIDE DEF r1
  <2> QED
    BY <1>1, CombineMeans
<1>4. /\ Within(r1) <=> (\A k \in 1..(i - 1) : Within(c[k])) /\ ~\E k \in 1..(i - 1) : c[k] = "disjoint"
      /\ Around(r1) <=> (\A k \in 1..(i - 1) : Around(c[k])) /\ ~\E k \in 1..(i - 1) : c[k] = "disjoint"
      /\ r1 = "disjoint" <=> \E k \in 1..(i - 1) : c[k] = "disjoint"
  BY FoundMeans
<1>5. /\ Found(c, i) \in Relationships
      /\ Within(Found(c, i)) <=> (\A k \in 1..i : Within(c[k])) /\ ~\E k \in 1..i : c[k] = "disjoint"
      /\ Around(Found(c, i)) <=> (\A k \in 1..i : Around(c[k])) /\ ~\E k \in 1..i : c[k] = "disjoint"
      /\ Found(c, i) = "disjoint" <=> \E k \in 1..i : c[k] = "disjoint"
  BY FoundMeans
<1>6. Within(c[i]) \/ Around(c[i]) => c[i] # "disjoint"
  BY DEF Within, Around
<1> HIDE DEF r1, r
<1>7. Within(Found(c, i)) <=> Within(r)
  BY <1>2, <1>3, <1>4, <1>5, <1>6
<1>8. Around(Found(c, i)) <=> Around(r)
  BY <1>2, <1>3, <1>4, <1>5, <1>6
<1>9. Found(c, i) = "disjoint" <=> r = "disjoint"
  BY <1>2, <1>3, <1>4, <1>5, <1>6
<1>10. Found(c, i) = r
  BY <1>3, <1>5, <1>7, <1>8, <1>9, MeaningDetermines
<1> QED
  BY <1>10 DEF r, r1

\* The recursion of the loop has a solution, the closed form, and only one:
\* two solutions would differ first at some segment, and not before it.
LEMMA FoldFinds ==
  ASSUME NEW n \in Nat, NEW c \in [1..n -> Relationships]
  PROVE  (CHOOSE rel : rel = [i \in 0..n |-> IF i = 0 THEN "equivalent"
                                ELSE combineRelationships(rel[i - 1], c[i])])[n] = Found(c, n)
<1> DEFINE Fits(f) == f = [i \in 0..n |-> IF i = 0 THEN "equivalent"
                                           ELSE combineRelationships(f[i - 1], c[i])]
           closed == [i \in 0..n |-> Found(c, i)]
           rel == CHOOSE f : Fits(f)
<1>1. Found(c, 0) = "equivalent"
  BY DEF Found
<1>2. Fits(closed)
  <2>1. ASSUME NEW i \in 0..n, i # 0
        PROVE  closed[i] = combineRelationships(closed[i - 1], c[i])
    <3>1. i \in 1..n /\ i - 1 \in 0..n
      BY <2>1
    <3> QED
      BY <3>1, FoundStep
  <2>2. ASSUME NEW i \in 0..n
        PROVE  closed[i] = IF i = 0 THEN "equivalent"
                           ELSE combineRelationships(closed[i - 1], c[i])
    BY <1>1, <2>1
  <2> QED
    BY <2>2
<1> HIDE DEF Fits
<1>3. Fits(rel)
  BY <1>2, Zenon
<1>4. rel = [i \in 0..n |-> IF i = 0 THEN "equivalent"
                             ELSE combineRelationships(rel[i - 1], c[i])]
  BY <1>3 DEF Fits
<1> HIDE DEF rel, closed
<1>5. rel[0] = "equivalent" /\ \A i \in 1..n : rel[i] = combineRelationships(rel[i - 1], c[i])
  BY <1>4
<1> DEFINE T == {i \in 0..n : rel[i] # Found(c, i)}
<1>6. T = {}
  <2> SUFFICES ASSUME T # {} PROVE FALSE
    OBVIOUS
  <2>1. PICK x \in T : \A y \in T : x <= y
    <3>1. T \in SUBSET Nat
      OBVIOUS
    <3> HIDE DEF T
    <3> QED
      BY <3>1, LeastNatural
  <2>2. x \in 1..n
    BY <1>1, <1>5
  <2>3. x - 1 \in 0..n /\ x - 1 \notin T
    BY <2>1, <2>2
  <2>4. rel[x - 1] = Found(c, x - 1)
    BY <2>3
  <2>5. rel[x] = Found(c, x)
    BY <1>5, <2>2, <2>4, FoundStep
  <2> QED
    BY <2>5
<1>7. rel[n] = Found(c, n)
  BY <1>6
<1> QED
  BY <1>7 DEF rel, Fits

\* What newPattern guarantees of a pattern.
LEMMA PatternFits ==
  ASSUME NEW p \in Patterns
  PROVE  /\ p.method \in Methods \cup {AnyMethod}
         /\ p.segments \in Seq(Literals \cup Identifiers)
         /\ Len(p.segments) \in 0..MaxSegments
         /\ DOMAIN p.segments = 1..Len(p.segments)
         /\ \A i \in 1..Len(p.segments) : p.segments[i] \in Literals \cup Identifiers
         /\ \A i \in 1..Len(p.segments) : p.segments[i] = Multi => i = Len(p.segments)
         /\ hasSegments(p) <=> Len(p.segments) # 0
<1>1. p.method \in Methods \cup {AnyMethod} /\ \E n \in 0..MaxSegments : p.segments \in SegmentsOf(n)
  BY DEF Patterns
<1>2. PICK n \in 0..MaxSegments : p.segments \in SegmentsOf(n)
  BY <1>1
<1> DEFINE s == p.segments
<1>3. s \in [1..n -> Literals \cup Identifiers] /\ \A i \in 1..(n - 1) : s[i] # Multi
  BY <1>2 DEF SegmentsOf, SeqsOf
<1>4. n \in Nat
  BY PatternAssumption
<1> HIDE DEF s
<1>5. s \in Seq(Literals \cup Identifiers) /\ Len(s) = n
  BY <1>3, <1>4
<1>6. \A i \in 1..n : s[i] \in Literals \cup Identifiers
  BY <1>3
<1>7. \A i \in 1..n : s[i] = Multi => i = n
  BY <1>3, <1>4
<1>8. s # << >> <=> n # 0
  BY <1>5
<1> QED
  BY <1>1, <1>3, <1>5, <1>6, <1>7, <1>8 DEF s, hasSegments

\* A segment that matches no text, or no more, that the other one does not.
Narrower(s1, s2) == s1 = s2 \/ s2 = Multi \/ (s2 = One /\ s1 # Multi)

\* compareSegments: what each of its answers says of two segments.
LEMMA SegmentsMean ==
  ASSUME NEW s1, NEW s2
  PROVE  LET r == compareSegments(s1, s2)
         IN  /\ r \in Relationships
             /\ Within(r) <=> Narrower(s1, s2)
             /\ Around(r) <=> Narrower(s2, s1)
             /\ r = "disjoint" <=> s1 # s2 /\ s1 \notin Identifiers /\ s2 \notin Identifiers
BY DEF compareSegments, Relationships, Within, Around, Narrower, Identifiers, One, Multi

\* compareMethods: what each of its answers says of the methods.
LEMMA MethodsMean ==
  ASSUME NEW p, NEW q
  PROVE  LET r == compareMethods(p, q)
         IN  /\ r \in Relationships
             /\ Within(r) <=> q.method \in {AnyMethod, p.method}
             /\ Around(r) <=> p.method \in {AnyMethod, q.method}
             /\ r = "disjoint" <=> q.method \notin {AnyMethod, p.method} /\ p.method # AnyMethod
BY DEF compareMethods, Relationships, Within, Around

\* The number of corresponding segments.
Shorter(p, q) == IF Len(p.segments) <= Len(q.segments) THEN Len(p.segments) ELSE Len(q.segments)

\* comparePaths: what its loop over the corresponding segments finds.
LEMMA CommonMeans ==
  ASSUME NEW p \in Patterns, NEW q \in Patterns
  PROVE  LET r == compareCommon(p, q)
             n == Shorter(p, q)
         IN  /\ r \in Relationships
             /\ r # "disjoint" => (Within(r) <=> \A i \in 1..n : Narrower(p.segments[i], q.segments[i]))
             /\ r # "disjoint" => (Around(r) <=> \A i \in 1..n : Narrower(q.segments[i], p.segments[i]))
             /\ r = "disjoint" <=> \E i \in 1..n : /\ p.segments[i] # q.segments[i]
                                                   /\ p.segments[i] \notin Identifiers
                                                   /\ q.segments[i] \notin Identifiers
<1> DEFINE n == Shorter(p, q)
           c == [i \in 1..n |-> compareSegments(p.segments[i], q.segments[i])]
           r == compareCommon(p, q)
<1>1. n \in Nat
  BY PatternFits, PatternAssumption DEF Shorter
<1>2. c \in [1..n -> Relationships]
  BY SegmentsMean
<1>3. r = (CHOOSE rel : rel = [i \in 0..n |-> IF i = 0 THEN "equivalent"
             ELSE combineRelationships(rel[i - 1], compareSegments(p.segments[i], q.segments[i]))])[n]
  BY Zenon DEF compareCommon, Shorter
<1>4. ASSUME NEW rel
      PROVE  [i \in 0..n |-> IF i = 0 THEN "equivalent"
                ELSE combineRelationships(rel[i - 1], compareSegments(p.segments[i], q.segments[i]))]
             = [i \in 0..n |-> IF i = 0 THEN "equivalent" ELSE combineRelationships(rel[i - 1], c[i])]
  <2>1. \A i \in 0..n : i # 0 => i \in 1..n
    BY <1>1
  <2>2. \A i \in 1..n : c[i] = compareSegments(p.segments[i], q.segments[i])
    OBVIOUS
  <2> HIDE DEF c, n
  <2> QED
    BY <2>1, <2>2
<1>5. r = (CHOOSE rel : rel = [i \in 0..n |-> IF i = 0 THEN "equivalent"
             ELSE combineRelationships(rel[i - 1], c[i])])[n]
  <2> HIDE DEF c, n, r
  <2> QED
    BY <1>3, <1>4, Zenon
<1>6. r = Found(c, n)
  <2> HIDE DEF c, n, r
  <2> QED
    BY <1>1, <1>2, <1>5, FoldFinds
<1>7. \A i \in 1..n : /\ Within(c[i]) <=> Narrower(p.segments[i], q.segments[i])
                      /\ Around(c[i]) <=> Narrower(q.segments[i], p.segments[i])
                      /\ c[i] = "disjoint" <=> /\ p.segments[i] # q.segments[i]
                                               /\ p.segments[i] \notin Identifiers
                                               /\ q.segments[i] \notin Identifiers
  BY SegmentsMean
<1> HIDE DEF c, n, r
<1>8. /\ r \in Relationships
      /\ Within(r) <=> (\A k \in 1..n : Within(c[k])) /\ ~\E k \in 1..n : c[k] = "disjoint"
      /\ Around(r) <=> (\A k \in 1..n : Around(c[k])) /\ ~\E k \in 1..n : c[k] = "disjoint"
      /\ r = "disjoint" <=> \E k \in 1..n : c[k] = "disjoint"
  BY <1>6, FoundMeans
<1>9. /\ r # "disjoint" => (Within(r) <=> \A i \in 1..n : Narrower(p.segments[i], q.segments[i]))
      /\ r # "disjoint" => (Around(r) <=> \A i \in 1..n : Narrower(q.segments[i], p.segments[i]))
      /\ r = "disjoint" <=> \E i \in 1..n : /\ p.segments[i] # q.segments[i]
                                            /\ p.segments[i] \notin Identifiers
                                            /\ q.segments[i] \notin Identifiers
  BY <1>7, <1>8
<1> QED
  BY <1>8, <1>9 DEF n, r

\* The order that the comparison computes: q's segments are no narrower, and
\* q is as long as p or ends before it in a "{...}".
PathAtMost(p, q) ==
  /\ \/ Len(q.segments) = Len(p.segments)
     \/ hasSegments(q) /\ endsInMulti(q) /\ Len(q.segments) < Len(p.segments)
  /\ \A i \in 1..Len(q.segments) : Narrower(p.segments[i], q.segments[i])

AtMost(p, q) == q.method \in {AnyMethod, p.method} /\ PathAtMost(p, q)

\* Two different literals in one place, or an end before the other one's.
PathsApart(p, q) ==
  \/ \E i \in 1..Shorter(p, q) : /\ p.segments[i] # q.segments[i]
                                 /\ p.segments[i] \notin Identifiers
                                 /\ q.segments[i] \notin Identifiers
  \/ Len(p.segments) < Len(q.segments) /\ hasSegments(p) /\ ~endsInMulti(p)
  \/ Len(q.segments) < Len(p.segments) /\ hasSegments(q) /\ ~endsInMulti(q)

MethodsApart(p, q) == q.method \notin {AnyMethod, p.method} /\ p.method # AnyMethod

\* One of two patterns of different lengths is "/".
RootAndMore(p, q) ==
  Len(p.segments) # Len(q.segments) /\ (~hasSegments(p) \/ ~hasSegments(q))

\* comparePaths: when it panics, and what its answers say of two paths.
LEMMA PathsMean ==
  ASSUME NEW p \in Patterns, NEW q \in Patterns
  PROVE  LET r == comparePaths(p, q)
         IN  /\ r = Panic <=> RootAndMore(p, q)
             /\ r # Panic => /\ r \in Relationships
                             /\ Within(r) <=> PathAtMost(p, q)
                             /\ Around(r) <=> PathAtMost(q, p)
                             /\ r = "disjoint" <=> PathsApart(p, q)
<1> DEFINE n == Len(p.segments)
           n2 == Len(q.segments)
           m == Shorter(p, q)
           rel == compareCommon(p, q)
           r == comparePaths(p, q)
<1>1. /\ n \in Nat /\ n2 \in Nat
      /\ hasSegments(p) <=> n # 0
      /\ hasSegments(q) <=> n2 # 0
  BY PatternFits, PatternAssumption
<1>2. /\ rel \in Relationships
      /\ rel # "disjoint" => (Within(rel) <=> \A i \in 1..m : Narrower(p.segments[i], q.segments[i]))
      /\ rel # "disjoint" => (Around(rel) <=> \A i \in 1..m : Narrower(q.segments[i], p.segments[i]))
      /\ rel = "disjoint" <=> \E i \in 1..m : /\ p.segments[i] # q.segments[i]
                                              /\ p.segments[i] \notin Identifiers
                                              /\ q.segments[i] \notin Identifiers
  BY CommonMeans
<1>3. m = (IF n <= n2 THEN n ELSE n2)
  BY DEF Shorter
<1>4. r = IF lengthTestPanics(p, q) THEN Panic
          ELSE IF n # n2 /\ ~endsInMulti(p) /\ ~endsInMulti(q) THEN "disjoint"
          ELSE IF rel = "disjoint" \/ n = n2 THEN rel
          ELSE IF tailPanics(p, q) THEN Panic
          ELSE IF n < n2 /\ endsInMulti(p) THEN combineRelationships(rel, "moreGeneral")
          ELSE IF n2 < n /\ endsInMulti(q) THEN combineRelationships(rel, "moreSpecific")
          ELSE "disjoint"
  BY DEF comparePaths
<1>5. /\ lengthTestPanics(p, q) <=> n # n2 /\ (n = 0 \/ (~endsInMulti(p) /\ n2 = 0))
      /\ tailPanics(p, q) <=> (n < n2 /\ n = 0) \/ (n2 < n /\ n2 = 0)
  BY <1>1 DEF lengthTestPanics, tailPanics
<1>6. RootAndMore(p, q) <=> n # n2 /\ (n = 0 \/ n2 = 0)
  BY <1>1 DEF RootAndMore
<1>7. Panic \notin Relationships /\ "disjoint" \in Relationships
      /\ "moreGeneral" \in Relationships /\ "moreSpecific" \in Relationships
      /\ ~Within("disjoint") /\ ~Around("disjoint")
      /\ ~Within("moreGeneral") /\ Around("moreGeneral")
      /\ ~Around("moreSpecific") /\ Within("moreSpecific")
  BY DEF Panic, Relationships, Within, Around
<1>8. rel = "disjoint" => /\ ~\A i \in 1..m : Narrower(p.segments[i], q.segments[i])
                          /\ ~\A i \in 1..m : Narrower(q.segments[i], p.segments[i])
  BY <1>2 DEF Narrower, Identifiers
<1>9. /\ PathAtMost(p, q) <=> (n2 = n \/ (n2 # 0 /\ endsInMulti(q) /\ n2 < n))
                              /\ \A i \in 1..n2 : Narrower(p.segments[i], q.segments[i])
      /\ PathAtMost(q, p) <=> (n = n2 \/ (n # 0 /\ endsInMulti(p) /\ n < n2))
                              /\ \A i \in 1..n : Narrower(q.segments[i], p.segments[i])
      /\ PathsApart(p, q) <=> \/ rel = "disjoint"
                              \/ n < n2 /\ n # 0 /\ ~endsInMulti(p)
                              \/ n2 < n /\ n2 # 0 /\ ~endsInMulti(q)
  BY <1>1, <1>2 DEF PathAtMost, PathsApart
<1>10. /\ combineRelationships(rel, "moreGeneral") \in Relationships
       /\ ~Within(combineRelationships(rel, "moreGeneral"))
       /\ Around(combineRelationships(rel, "moreGeneral")) <=> Around(rel)
       /\ combineRelationships(rel, "moreGeneral") = "disjoint" <=> rel = "disjoint"
       /\ combineRelationships(rel, "moreSpecific") \in Relationships
       /\ ~Around(combineRelationships(rel, "moreSpecific"))
       /\ Within(combineRelationships(rel, "moreSpecific")) <=> Within(rel)
       /\ combineRelationships(rel, "moreSpecific") = "disjoint" <=> rel = "disjoint"
  BY <1>2, <1>7, CombineMeans
<1> SUFFICES /\ r = Panic <=> RootAndMore(p, q)
             /\ r # Panic => /\ r \in Relationships
                             /\ Within(r) <=> PathAtMost(p, q)
                             /\ Around(r) <=> PathAtMost(q, p)
                             /\ r = "disjoint" <=> PathsApart(p, q)
  OBVIOUS
<1> HIDE DEF n, n2, m, rel, r
<1>11. CASE n # n2 /\ (n = 0 \/ n2 = 0)
  <2>1. n2 = 0 => rel # "disjoint"
    BY <1>1, <1>2, <1>3
  <2>2. r = Panic
    BY <1>1, <1>4, <1>5, <1>11, <2>1
  <2> QED
    BY <1>6, <1>11, <2>2
<1>12. CASE n = n2
  <2>1. r = rel /\ m = n
    BY <1>3, <1>4, <1>5, <1>12, <1>1
  <2> QED
    BY <1>1, <1>2, <1>6, <1>7, <1>8, <1>9, <1>12, <2>1
<1>13. CASE n < n2 /\ n # 0
  <2>1. n2 # 0 /\ m = n /\ ~(n2 < n) /\ n # n2
    BY <1>1, <1>3, <1>13
  <2>2. r = IF ~endsInMulti(p) \/ rel = "disjoint" THEN "disjoint"
            ELSE combineRelationships(rel, "moreGeneral")
    BY <1>4, <1>5, <1>13, <2>1
  <2> QED
    BY <1>2, <1>6, <1>7, <1>8, <1>9, <1>10, <1>13, <2>1, <2>2
<1>14. CASE n2 < n /\ n2 # 0
  <2>1. n # 0 /\ m = n2 /\ ~(n < n2) /\ n # n2
    BY <1>1, <1>3, <1>14
  <2>2. r = IF ~endsInMulti(q) \/ rel = "disjoint" THEN "disjoint"
            ELSE combineRelationships(rel, "moreSpecific")
    BY <1>4, <1>5, <1>14, <2>1
  <2> QED
    BY <1>2, <1>6, <1>7, <1>8, <1>9, <1>10, <1>14, <2>1, <2>2
<1> QED
  BY <1>1, <1>11, <1>12, <1>13, <1>14

\* What comparePathsAndMethods answers.
LEMMA CompareMeans ==
  ASSUME NEW p \in Patterns, NEW q \in Patterns
  PROVE  LET r == comparePathsAndMethods(p, q)
         IN  /\ r = Panic <=> ~MethodsApart(p, q) /\ RootAndMore(p, q)
             /\ r # Panic => r \in Relationships
             /\ Within(r) <=> AtMost(p, q)
             /\ Around(r) <=> AtMost(q, p)
             /\ r = "disjoint" <=> MethodsApart(p, q) \/ (PathsApart(p, q) /\ ~RootAndMore(p, q))
<1> DEFINE mrel == compareMethods(p, q)
           prel == comparePaths(p, q)
           r == comparePathsAndMethods(p, q)
<1>1. r = IF mrel = "disjoint" THEN "disjoint"
          ELSE IF prel = Panic THEN Panic ELSE combineRelationships(mrel, prel)
  BY DEF comparePathsAndMethods
<1>2. /\ mrel \in Relationships
      /\ Within(mrel) <=> q.method \in {AnyMethod, p.method}
      /\ Around(mrel) <=> p.method \in {AnyMethod, q.method}
      /\ mrel = "disjoint" <=> MethodsApart(p, q)
  BY MethodsMean DEF MethodsApart
<1>3. /\ prel = Panic <=> RootAndMore(p, q)
      /\ prel # Panic => /\ prel \in Relationships
                         /\ Within(prel) <=> PathAtMost(p, q)
                         /\ Around(prel) <=> PathAtMost(q, p)
                         /\ prel = "disjoint" <=> PathsApart(p, q)
  BY PathsMean
<1>4. Panic \notin Relationships /\ "disjoint" \in Relationships
      /\ ~Within("disjoint") /\ ~Around("disjoint") /\ ~Within(Panic) /\ ~Around(Panic)
      /\ Panic # "disjoint"
  BY DEF Panic, Relationships, Within, Around
<1>5. RootAndMore(p, q) => ~PathAtMost(p, q) /\ ~PathAtMost(q, p)
  BY PatternFits, PatternAssumption DEF RootAndMore, PathAtMost
<1> SUFFICES /\ r = Panic <=> ~MethodsApart(p, q) /\ RootAndMore(p, q)
             /\ r # Panic => r \in Relationships
             /\ Within(r) <=> AtMost(p, q)
             /\ Around(r) <=> AtMost(q, p)
             /\ r = "disjoint" <=> MethodsApart(p, q) \/ (PathsApart(p, q) /\ ~RootAndMore(p, q))
  OBVIOUS
<1> HIDE DEF mrel, prel, r
<1>6. CASE mrel = "disjoint"
  BY <1>1, <1>2, <1>4, <1>6 DEF AtMost
<1>7. CASE mrel # "disjoint" /\ prel = Panic
  BY <1>1, <1>2, <1>3, <1>4, <1>5, <1>7 DEF AtMost
<1>8. CASE mrel # "disjoint" /\ prel # Panic
  <2>1. /\ r \in Relationships
        /\ Within(r) <=> Within(mrel) /\ Within(prel)
        /\ Around(r) <=> Around(mrel) /\ Around(prel)
        /\ r = "disjoint" <=> mrel = "disjoint" \/ prel = "disjoint"
    BY <1>1, <1>2, <1>3, <1>8, CombineMeans
  <2> QED
    BY <1>2, <1>3, <1>4, <1>8, <2>1 DEF AtMost
<1> QED
  BY <1>6, <1>7, <1>8

\* The order of the segments is transitive ...
LEMMA NarrowerTransitive ==
  ASSUME NEW s1, NEW s2, NEW s3, Narrower(s1, s2), Narrower(s2, s3)
  PROVE  Narrower(s1, s3)
<1>1. CASE s3 = Multi
  BY <1>1 DEF Narrower
<1>2. CASE s2 = s3
  BY <1>2
<1>3. CASE s3 = One /\ s2 # Multi
  BY <1>3 DEF Narrower, One, Multi
<1> QED
  BY <1>1, <1>2, <1>3 DEF Narrower

\* ... and so is the one of the patterns: a pattern that ends in "{...}" is
\* only below patterns that do.
LEMMA AtMostTransitive ==
  ASSUME NEW p \in Patterns, NEW q \in Patterns, NEW s \in Patterns,
         AtMost(p, q), AtMost(q, s)
  PROVE  AtMost(p, s)
<1>1. /\ Len(p.segments) \in Nat /\ Len(q.segments) \in Nat /\ Len(s.segments) \in Nat
      /\ hasSegments(s) <=> Len(s.segments) # 0
      /\ hasSegments(q) <=> Len(q.segments) # 0
  BY PatternFits, PatternAssumption
<1>2. Len(s.segments) <= Len(q.segments) /\ Len(q.segments) <= Len(p.segments)
  BY <1>1 DEF AtMost, PathAtMost
<1>3. \A i \in 1..Len(s.segments) : Narrower(p.segments[i], s.segments[i])
  <2> SUFFICES ASSUME NEW i \in 1..Len(s.segments)
               PROVE  Narrower(p.segments[i], s.segments[i])
    OBVIOUS
  <2>1. i \in 1..Len(q.segments)
    BY <1>1, <1>2
  <2>2. Narrower(p.segments[i], q.segments[i]) /\ Narrower(q.segments[i], s.segments[i])
    BY <2>1 DEF AtMost, PathAtMost
  <2> QED
    BY <2>2, NarrowerTransitive
<1>4. s.method \in {AnyMethod, p.method}
  BY DEF AtMost
<1>5. \/ Len(s.segments) = Len(p.segments)
      \/ hasSegments(s) /\ endsInMulti(s) /\ Len(s.segments) < Len(p.segments)
  <2>1. CASE Len(s.segments) < Len(q.segments)
    BY <1>1, <1>2, <2>1 DEF AtMost, PathAtMost
  <2>2. CASE Len(s.segments) = Len(q.segments) /\ Len(q.segments) < Len(p.segments)
    <3>1. hasSegments(q) /\ endsInMulti(q) /\ Len(s.segments) \in 1..Len(s.segments)
      BY <1>1, <2>2 DEF AtMost, PathAtMost
    <3>2. Narrower(Multi, lastSegment(s))
      BY <2>2, <3>1 DEF AtMost, PathAtMost, endsInMulti, lastSegment
    <3>3. endsInMulti(s)
      BY <3>2 DEF Narrower, endsInMulti, One, Multi
    <3> QED
      BY <1>1, <2>2, <3>1, <3>3
  <2> QED
    BY <1>1, <1>2, <2>1, <2>2
<1> QED
  BY <1>3, <1>4, <1>5 DEF AtMost, PathAtMost

\* comparePathsAndMethods: "more specific" is a strict partial order.
LEMMA MoreSpecificIsStrictOrder ==
  /\ \A p, q, s \in Patterns :
       comparePathsAndMethods(p, q) = "moreSpecific" /\ comparePathsAndMethods(q, s) = "moreSpecific"
         => comparePathsAndMethods(p, s) = "moreSpecific"
  /\ \A p, q \in Patterns :
       comparePathsAndMethods(p, q) = "moreSpecific" => comparePathsAndMethods(q, p) # "moreSpecific"
<1>1. ASSUME NEW p \in Patterns, NEW q \in Patterns
      PROVE  comparePathsAndMethods(p, q) = "moreSpecific" <=> AtMost(p, q) /\ ~AtMost(q, p)
  <2> DEFINE r == comparePathsAndMethods(p, q)
  <2>1. (Within(r) <=> AtMost(p, q)) /\ (Around(r) <=> AtMost(q, p))
    BY CompareMeans
  <2>2. r = "moreSpecific" <=> Within(r) /\ ~Around(r)
    BY DEF Within, Around
  <2> QED
    BY <2>1, <2>2
<1>2. ASSUME NEW p \in Patterns, NEW q \in Patterns, NEW s \in Patterns,
             comparePathsAndMethods(p, q) = "moreSpecific", comparePathsAndMethods(q, s) = "moreSpecific"
      PROVE  comparePathsAndMethods(p, s) = "moreSpecific"
  <2>1. AtMost(p, q) /\ AtMost(q, s) /\ ~AtMost(s, q)
    BY <1>1, <1>2
  <2>2. AtMost(p, s)
    BY <2>1, AtMostTransitive
  <2>3. ~AtMost(s, p)
    BY <2>1, AtMostTransitive
  <2> QED
    BY <1>1, <2>2, <2>3
<1>3. ASSUME NEW p \in Patterns, NEW q \in Patterns, comparePathsAndMethods(p, q) = "moreSpecific"
      PROVE  comparePathsAndMethods(q, p) # "moreSpecific"
  BY <1>1, <1>3
<1> QED
  BY <1>2, <1>3

\* What Manager.Allow makes of a request.
LEMMA RequestFits ==
  ASSUME NEW r \in Requests
  PROVE  /\ r.method \in Methods \cup {OtherMethod}
         /\ Len(r.segments) \in 1..(MaxSegments + 1)
<1>1. /\ r.method \in Methods \cup {OtherMethod}
      /\ \E n \in 1..(MaxSegments + 1) : r.segments \in SeqsOf(Literals \cup {OtherText}, n)
  BY DEF Requests
<1>2. PICK n \in 1..(MaxSegments + 1) : r.segments \in [1..n -> Literals \cup {OtherText}]
  BY <1>1 DEF SeqsOf
<1>3. n \in Nat
  BY PatternAssumption
<1> DEFINE s == r.segments
<1> HIDE DEF s
<1>4. s \in [1..n -> Literals \cup {OtherText}]
  BY <1>2 DEF s
<1>5. Len(s) = n
  BY <1>3, <1>4
<1> QED
  BY <1>1, <1>5 DEF s

\* What is at most another pattern matches no other requests.
LEMMA AtMostMatchesNoMore ==
  ASSUME NEW p \in Patterns, NEW q \in Patterns, AtMost(p, q),
         NEW r \in Requests, match(p, r)
  PROVE  match(q, r)
<1> DEFINE n == Len(p.segments)
           n2 == Len(q.segments)
<1>1. /\ n \in Nat /\ n2 \in Nat /\ Len(r.segments) \in Nat
      /\ hasSegments(p) <=> n # 0
      /\ hasSegments(q) <=> n2 # 0
  BY PatternFits, RequestFits, PatternAssumption
<1>2. /\ p.method \in {AnyMethod, r.method}
      /\ hasSegments(p)
      /\ Len(r.segments) = n \/ (endsInMulti(p) /\ Len(r.segments) > n)
      /\ \A i \in 1..n : p.segments[i] \in Identifiers \/ r.segments[i] = p.segments[i]
  BY DEF match
<1>3. /\ q.method \in {AnyMethod, p.method}
      /\ n2 = n \/ (hasSegments(q) /\ endsInMulti(q) /\ n2 < n)
      /\ \A i \in 1..n2 : Narrower(p.segments[i], q.segments[i])
  BY DEF AtMost, PathAtMost
<1>4. n2 = n /\ endsInMulti(p) => endsInMulti(q)
  <2> SUFFICES ASSUME n2 = n, endsInMulti(p) PROVE endsInMulti(q)
    OBVIOUS
  <2>1. Narrower(p.segments[n2], q.segments[n2]) /\ p.segments[n2] = Multi
    BY <1>1, <1>2, <1>3 DEF endsInMulti, lastSegment
  <2> QED
    BY <2>1 DEF Narrower, One, Multi, endsInMulti, lastSegment
<1>5. q.method \in {AnyMethod, r.method}
  BY <1>2, <1>3
<1>6. hasSegments(q)
  BY <1>1, <1>2, <1>3
<1>7. Len(r.segments) = n2 \/ (endsInMulti(q) /\ Len(r.segments) > n2)
  BY <1>1, <1>2, <1>3, <1>4
<1>8. ASSUME NEW i \in 1..n2
      PROVE  q.segments[i] \in Identifiers \/ r.segments[i] = q.segments[i]
  <2>1. i \in 1..n
    BY <1>1, <1>3
  <2>2. Narrower(p.segments[i], q.segments[i])
    BY <1>3
  <2> QED
    BY <1>2, <2>1, <2>2 DEF Narrower, Identifiers
<1> QED
  BY <1>5, <1>6, <1>7, <1>8 DEF match

\* No request is matched by two patterns that are apart.
LEMMA ApartMatchNothing ==
  ASSUME NEW p \in Patterns, NEW q \in Patterns, NEW r \in Requests,
         match(p, r), match(q, r)
  PROVE  ~MethodsApart(p, q) /\ ~PathsApart(p, q)
<1>1. /\ Len(p.segments) \in Nat /\ Len(q.segments) \in Nat /\ Len(r.segments) \in Nat
  BY PatternFits, RequestFits, PatternAssumption
<1>2. ~MethodsApart(p, q)
  BY DEF match, MethodsApart
<1>3. ASSUME NEW i \in 1..Shorter(p, q), p.segments[i] # q.segments[i],
             p.segments[i] \notin Identifiers, q.segments[i] \notin Identifiers
      PROVE  FALSE
  <2>1. i \in 1..Len(p.segments) /\ i \in 1..Len(q.segments)
    BY <1>1 DEF Shorter
  <2>2. r.segments[i] = p.segments[i] /\ r.segments[i] = q.segments[i]
    BY <1>3, <2>1 DEF match
  <2> QED
    BY <1>3, <2>2
<1>4. /\ Len(r.segments) >= Len(p.segments)
      /\ Len(r.segments) >= Len(q.segments)
      /\ Len(r.segments) > Len(p.segments) => endsInMulti(p)
      /\ Len(r.segments) > Len(q.segments) => endsInMulti(q)
  BY <1>1 DEF match
<1> QED
  BY <1>1, <1>2, <1>3, <1>4 DEF PathsApart

\* A request with n segments whose method and segments p asks for, and that
\* says something no pattern does where p asks for nothing but q may.
Sample(p, q, n) ==
  [method |-> IF p.method # AnyMethod THEN p.method
              ELSE IF q.method # AnyMethod THEN q.method ELSE OtherMethod,
   segments |-> [k \in 1..n |->
                   IF k <= Len(p.segments) /\ p.segments[k] \in Literals THEN p.segments[k]
                   ELSE IF k <= Len(q.segments) /\ q.segments[k] \in Literals THEN q.segments[k]
                   ELSE OtherText]]

\* It is a request.
LEMMA SampleFits ==
  ASSUME NEW p \in Patterns, NEW q \in Patterns, NEW n \in 1..(MaxSegments + 1)
  PROVE  /\ Sample(p, q, n) \in Requests
         /\ Len(Sample(p, q, n).segments) = n
<1>1. n \in Nat
  BY PatternAssumption
<1>2. p.method \in Methods \cup {AnyMethod} /\ q.method \in Methods \cup {AnyMethod}
  BY PatternFits
<1> DEFINE s == Sample(p, q, n).segments
           m == Sample(p, q, n).method
<1>3. s \in [1..n -> Literals \cup {OtherText}]
  BY DEF Sample
<1>4. m \in Methods \cup {OtherMethod}
  BY <1>2 DEF Sample
<1>5. Sample(p, q, n) = [method |-> m, segments |-> s]
  BY DEF Sample
<1> HIDE DEF s, m
<1>6. s \in UNION {SeqsOf(Literals \cup {OtherText}, k) : k \in 1..(MaxSegments + 1)}
  BY <1>3 DEF SeqsOf
<1>7. Len(s) = n
  BY <1>1, <1>3
<1>8. Sample(p, q, n) \in Requests
  <2> DEFINE A == Methods \cup {OtherMethod}
             B == UNION {SeqsOf(Literals \cup {OtherText}, k) : k \in 1..(MaxSegments + 1)}
  <2>1. Requests = [method : A, segments : B]
    BY DEF Requests
  <2> HIDE DEF A, B
  <2>2. m \in A /\ s \in B
    BY <1>4, <1>6 DEF A, B
  <2> QED
    BY <1>5, <2>1, <2>2
<1>9. Len(Sample(p, q, n).segments) = n
  BY <1>7 DEF s
<1> QED
  BY <1>8, <1>9

\* The request is matched by the pattern it is made for.
LEMMA SampleMatches ==
  ASSUME NEW p \in Patterns, NEW q \in Patterns, NEW n \in 1..(MaxSegments + 1), hasSegments(p),
         n = Len(p.segments) \/ (endsInMulti(p) /\ n > Len(p.segments))
  PROVE  match(p, Sample(p, q, n))
<1> DEFINE r == Sample(p, q, n)
<1>1. Len(p.segments) \in Nat /\ n \in Nat
  BY PatternFits, PatternAssumption
<1>2. p.method \in {AnyMethod, r.method}
  BY DEF Sample
<1>3. Len(r.segments) = n
  BY SampleFits
<1>4. ASSUME NEW i \in 1..Len(p.segments), p.segments[i] \notin Identifiers
      PROVE  r.segments[i] = p.segments[i]
  <2>1. p.segments[i] \in Literals
    BY <1>4, PatternFits
  <2>2. i \in 1..n /\ i <= Len(p.segments)
    BY <1>1
  <2> QED
    BY <2>1, <2>2 DEF Sample
<1> QED
  BY <1>2, <1>3, <1>4 DEF match

\* A pattern that is not at most another one matches a request that the
\* other one does not.
LEMMA NotAtMostMatchesMore ==
  ASSUME NEW p \in Patterns, NEW q \in Patterns, hasSegments(p), hasSegments(q),
         ~AtMost(q, p)
  PROVE  \E r \in Requests : match(q, r) /\ ~match(p, r)
<1> DEFINE n == Len(p.segments)
           n2 == Len(q.segments)
<1>1. /\ n \in 1..MaxSegments /\ n2 \in 1..MaxSegments /\ MaxSegments \in Nat
  BY PatternFits, PatternAssumption
<1>2. n2 \in 1..(MaxSegments + 1) /\ n2 + 1 \in 1..(MaxSegments + 1)
  BY <1>1
<1> DEFINE r == Sample(q, q, n2)
<1>3. r \in Requests /\ Len(r.segments) = n2 /\ match(q, r)
  BY <1>2, SampleFits, SampleMatches
<1>4. CASE p.method \notin {AnyMethod, q.method}
  <2>1. p.method # r.method
    BY <1>4, PatternFits, PatternAssumption DEF Sample
  <2> QED
    BY <1>3, <1>4, <2>1 DEF match
<1>5. CASE ~(n = n2 \/ (endsInMulti(p) /\ n < n2))
  <2>1. ~(Len(r.segments) = n \/ (endsInMulti(p) /\ Len(r.segments) > n))
    BY <1>1, <1>3, <1>5
  <2> QED
    BY <1>3, <2>1 DEF match
<1>6. ASSUME n = n2 \/ (endsInMulti(p) /\ n < n2),
             NEW i \in 1..n, ~Narrower(q.segments[i], p.segments[i])
      PROVE  \E rr \in Requests : match(q, rr) /\ ~match(p, rr)
  <2>1. i \in 1..n2 /\ i \in Nat
    BY <1>1, <1>6
  <2>2. p.segments[i] # Multi /\ p.segments[i] # q.segments[i]
    BY <1>6 DEF Narrower
  <2>3. CASE p.segments[i] = One
    <3>1. q.segments[i] = Multi
      BY <1>6, <2>3 DEF Narrower
    <3>2. i = n2
      BY <2>1, <3>1, PatternFits
    <3>3. n = n2 /\ endsInMulti(q) /\ ~endsInMulti(p)
      BY <1>1, <1>6, <2>2, <3>1, <3>2 DEF endsInMulti, lastSegment
    <3> DEFINE rr == Sample(q, q, n2 + 1)
    <3>4. n2 + 1 > n2
      BY <1>1
    <3>5. rr \in Requests /\ Len(rr.segments) = n2 + 1 /\ match(q, rr)
      BY <1>2, <3>3, <3>4, SampleFits, SampleMatches
    <3>6. ~match(p, rr)
      BY <1>1, <3>3, <3>5 DEF match
    <3> QED
      BY <3>5, <3>6
  <2>4. CASE p.segments[i] # One
    <3>1. p.segments[i] \in Literals /\ p.segments[i] \notin Identifiers
      BY <2>2, <2>4, PatternFits DEF Identifiers
    <3>2. p.segments[i] # OtherText
      BY <3>1, PatternAssumption
    <3>3. r.segments[i] = IF i <= n2 /\ q.segments[i] \in Literals THEN q.segments[i]
                          ELSE OtherText
      BY <2>1 DEF Sample
    <3>4. r.segments[i] # p.segments[i]
      BY <2>2, <3>2, <3>3
    <3>5. ~match(p, r)
      BY <3>1, <3>4 DEF match
    <3> QED
      BY <1>3, <3>5
  <2> QED
    BY <2>3, <2>4
<1> QED
  BY <1>4, <1>5, <1>6 DEF AtMost, PathAtMost

\* Two patterns that are not apart match a request together.
LEMMA NotApartMatchTogether ==
  ASSUME NEW p \in Patterns, NEW q \in Patterns, hasSegments(p), hasSegments(q),
         ~MethodsApart(p, q), ~PathsApart(p, q)
  PROVE  \E r \in Requests : match(p, r) /\ match(q, r)
<1> DEFINE n == Len(p.segments)
           n2 == Len(q.segments)
           m == IF n <= n2 THEN n2 ELSE n
           r == Sample(p, q, m)
<1>1. /\ n \in 1..MaxSegments /\ n2 \in 1..MaxSegments /\ MaxSegments \in Nat
  BY PatternFits, PatternAssumption
<1>2. m \in 1..(MaxSegments + 1) /\ n \in Nat /\ n2 \in Nat
  BY <1>1
<1>3. /\ m = n \/ (endsInMulti(p) /\ m > n)
      /\ m = n2 \/ (endsInMulti(q) /\ m > n2)
  BY <1>1 DEF PathsApart
<1> HIDE DEF m
<1>4. r \in Requests /\ Len(r.segments) = m
  BY <1>2, SampleFits
<1>5. match(p, r)
  BY <1>2, <1>3, SampleMatches
<1>6. q.method \in {AnyMethod, r.method}
  BY DEF Sample, MethodsApart
<1>7. ASSUME NEW i \in 1..n2, q.segments[i] \notin Identifiers
      PROVE  r.segments[i] = q.segments[i]
  <2>1. q.segments[i] \in Literals /\ i \in 1..m /\ i <= n2
    BY <1>2, <1>3, <1>7, PatternFits
  <2>2. r.segments[i] = IF i <= n /\ p.segments[i] \in Literals THEN p.segments[i] ELSE q.segments[i]
    BY <2>1 DEF Sample
  <2>3. i <= n /\ p.segments[i] \in Literals => p.segments[i] = q.segments[i]
    <3> SUFFICES ASSUME i <= n, p.segments[i] \in Literals PROVE p.segments[i] = q.segments[i]
      OBVIOUS
    <3>1. i \in 1..Shorter(p, q)
      BY <1>2 DEF Shorter
    <3>2. p.segments[i] \notin Identifiers
      BY PatternAssumption
    <3> QED
      BY <1>7, <3>1, <3>2 DEF PathsApart
  <2> QED
    BY <2>2, <2>3
<1>8. match(q, r)
  BY <1>3, <1>4, <1>6, <1>7 DEF match
<1> QED
  BY <1>4, <1>5, <1>8

\* pattern.go, comparePathsAndMethods: for any two patterns but "/" it
\* answers, without looking at a request, how the sets of requests that they
\* match relate: equal, one within the other, overlapping or disjoint.
THEOREM ComparisonIsExact ==
  \A p, q \in Patterns : hasSegments(p) /\ hasSegments(q)
    => comparePathsAndMethods(p, q) = TrueRelation[p][q]
<1> SUFFICES ASSUME NEW p \in Patterns, NEW q \in Patterns, hasSegments(p), hasSegments(q)
             PROVE  comparePathsAndMethods(p, q) = TrueRelation[p][q]
  OBVIOUS
<1> DEFINE P == {r \in Requests : match(p, r)}
           Q == {r \in Requests : match(q, r)}
           c == comparePathsAndMethods(p, q)
<1>1. TrueRelation[p][q] = SetRelation(P, Q)
  BY DEF TrueRelation, Matched
<1>2. ~RootAndMore(p, q)
  BY DEF RootAndMore
<1>3. /\ c \in Relationships
      /\ Within(c) <=> AtMost(p, q)
      /\ Around(c) <=> AtMost(q, p)
      /\ c = "disjoint" <=> MethodsApart(p, q) \/ PathsApart(p, q)
  BY <1>2, CompareMeans
<1>4. P \subseteq Q <=> AtMost(p, q)
  <2>1. AtMost(p, q) => P \subseteq Q
    BY AtMostMatchesNoMore
  <2>2. ~AtMost(p, q) => ~(P \subseteq Q)
    BY NotAtMostMatchesMore
  <2> QED
    BY <2>1, <2>2
<1>5. Q \subseteq P <=> AtMost(q, p)
  <2>1. AtMost(q, p) => Q \subseteq P
    BY AtMostMatchesNoMore
  <2>2. ~AtMost(q, p) => ~(Q \subseteq P)
    BY NotAtMostMatchesMore
  <2> QED
    BY <2>1, <2>2
<1>6. P \cap Q = {} <=> MethodsApart(p, q) \/ PathsApart(p, q)
  <2>1. MethodsApart(p, q) \/ PathsApart(p, q) => P \cap Q = {}
    BY ApartMatchNothing
  <2>2. ~(MethodsApart(p, q) \/ PathsApart(p, q)) => P \cap Q # {}
    BY NotApartMatchTogether
  <2> QED
    BY <2>1, <2>2
<1>7. P = Q <=> P \subseteq Q /\ Q \subseteq P
  OBVIOUS
<1> HIDE DEF P, Q, c
<1>8. SetRelation(P, Q) = c
  <2>1. CASE c = "equivalent"
    BY <1>3, <1>4, <1>5, <1>7, <2>1 DEF SetRelation, Within, Around
  <2>2. CASE c = "disjoint"
    <3>1. P # Q /\ P \cap Q = {}
      BY <1>3, <1>4, <1>6, <1>7, <2>2 DEF Within
    <3> QED
      BY <2>2, <3>1 DEF SetRelation
  <2>3. CASE c = "moreSpecific"
    BY <1>3, <1>4, <1>5, <1>6, <1>7, <2>3 DEF SetRelation, Within, Around
  <2>4. CASE c = "moreGeneral"
    BY <1>3, <1>4, <1>5, <1>6, <1>7, <2>4 DEF SetRelation, Within, Around
  <2>5. CASE c = "overlaps"
    BY <1>3, <1>4, <1>5, <1>6, <1>7, <2>5 DEF SetRelation, Within, Around
  <2> QED
    BY <1>3, <2>1, <2>2, <2>3, <2>4, <2>5 DEF Relationships
<1> QED
  BY <1>1, <1>8 DEF c

\* comparePathsAndMethods: the answer for the patterns in the other order.
LEMMA ComparisonInverts ==
  ASSUME NEW p \in Patterns, NEW q \in Patterns
  PROVE  comparePathsAndMethods(q, p) = inverseRelationship(comparePathsAndMethods(p, q))
<1> DEFINE r == comparePathsAndMethods(p, q)
           r2 == comparePathsAndMethods(q, p)
<1>1. /\ r = Panic <=> ~MethodsApart(p, q) /\ RootAndMore(p, q)
      /\ r # Panic => r \in Relationships
      /\ Within(r) <=> AtMost(p, q)
      /\ Around(r) <=> AtMost(q, p)
      /\ r = "disjoint" <=> MethodsApart(p, q) \/ (PathsApart(p, q) /\ ~RootAndMore(p, q))
  BY CompareMeans
<1>2. /\ r2 = Panic <=> ~MethodsApart(q, p) /\ RootAndMore(q, p)
      /\ r2 # Panic => r2 \in Relationships
      /\ Within(r2) <=> AtMost(q, p)
      /\ Around(r2) <=> AtMost(p, q)
      /\ r2 = "disjoint" <=> MethodsApart(q, p) \/ (PathsApart(q, p) /\ ~RootAndMore(q, p))
  BY CompareMeans
<1>3. Shorter(p, q) = Shorter(q, p)
  BY PatternFits, PatternAssumption DEF Shorter
<1>4. /\ MethodsApart(p, q) <=> MethodsApart(q, p)
      /\ PathsApart(p, q) <=> PathsApart(q, p)
      /\ RootAndMore(p, q) <=> RootAndMore(q, p)
  BY <1>3 DEF MethodsApart, PathsApart, RootAndMore
<1> SUFFICES r2 = inverseRelationship(r)
  OBVIOUS
<1> HIDE DEF r, r2
<1>5. CASE r = Panic
  BY <1>1, <1>2, <1>4, <1>5 DEF inverseRelationship, Panic
<1>6. CASE r # Panic
  <2> DEFINE s == inverseRelationship(r)
  <2>1. /\ s \in Relationships
        /\ Within(s) <=> Around(r)
        /\ Around(s) <=> Within(r)
        /\ s = "disjoint" <=> r = "disjoint"
    BY <1>1, <1>6 DEF inverseRelationship, Relationships, Within, Around
  <2>2. r2 \in Relationships
    BY <1>1, <1>2, <1>4, <1>6
  <2> HIDE DEF s
  <2>3. r2 = s
    BY <1>1, <1>2, <1>4, <2>1, <2>2, MeaningDetermines
  <2> QED
    BY <2>3 DEF s
<1> QED
  BY <1>5, <1>6

-----------------------------------------------------------------------------
\* The list of patterns.

\* parseConfig compared the two, and neither refused nor panicked.
Compatible(p, q) == comparePathsAndMethods(p, q) \notin Conflicts \cup {"panic"}

\* Any two patterns of the list, in either order.
AllCompatible == \A i, j \in DOMAIN patterns : i # j => Compatible(patterns[i], patterns[j])

ListInv ==
  /\ ListTypeOK
  /\ patterns \in Seq(Paths \ Malformed)
  /\ AllCompatible
  /\ MostSpecificFirst
  /\ LimiterOfPattern

\* What is compatible in one order is so in the other, so that the list does
\* not depend on which of the two the map yields first.
LEMMA CompatibleSymmetric ==
  ASSUME NEW p \in Patterns, NEW q \in Patterns, Compatible(p, q)
  PROVE  Compatible(q, p)
<1> DEFINE r == comparePathsAndMethods(p, q)
<1>1. comparePathsAndMethods(q, p) = inverseRelationship(r)
  BY ComparisonInverts
<1>2. r # "equivalent" /\ r # "overlaps" /\ r # "panic"
  BY DEF Compatible, Conflicts
<1> HIDE DEF r
<1>3. inverseRelationship(r) \notin Conflicts \cup {"panic"}
  BY <1>2 DEF inverseRelationship, Conflicts
<1> QED
  BY <1>1, <1>3 DEF Compatible

\* What the append, the copy and the assignment of parseConfig make of a list.
LEMMA InsertProperties ==
  ASSUME NEW S, NEW s \in Seq(S), NEW x \in S, NEW idx \in 1..(Len(s) + 1)
  PROVE  /\ Insert(s, idx, x) \in Seq(S)
         /\ Len(Insert(s, idx, x)) = Len(s) + 1
         /\ Insert(s, idx, x)[idx] = x
         /\ \A i \in 1..(Len(s) + 1) : i < idx => Insert(s, idx, x)[i] = s[i]
         /\ \A i \in 1..(Len(s) + 1) : i > idx => Insert(s, idx, x)[i] = s[i - 1]
  BY DEF Insert

\* parseConfig: inserting before the first less specific pattern keeps the
\* list in order.  What stands before the new pattern is not less specific
\* by the choice of the index; what stands after it is not more specific,
\* because it would then, by transitivity, be more specific than the
\* pattern at the index and stand before that one.
LEMMA InsertKeepsOrder ==
  ASSUME patterns \in Seq(Patterns), MostSpecificFirst,
         NEW p \in Patterns, NEW idx \in 1..(Len(patterns) + 1),
         insertionIndex(p, idx)
  PROVE  LET new == Insert(patterns, idx, p)
         IN  \A i, j \in DOMAIN new :
               i < j => comparePathsAndMethods(new[j], new[i]) # "moreSpecific"
<1> DEFINE new == Insert(patterns, idx, p)
<1>1. /\ new \in Seq(Patterns)
      /\ Len(new) = Len(patterns) + 1
      /\ new[idx] = p
      /\ \A i \in 1..(Len(patterns) + 1) : i < idx => new[i] = patterns[i]
      /\ \A i \in 1..(Len(patterns) + 1) : i > idx => new[i] = patterns[i - 1]
  BY InsertProperties
<1> HIDE DEF new
<1>2. SUFFICES ASSUME NEW i \in DOMAIN new, NEW j \in DOMAIN new, i < j,
                      comparePathsAndMethods(new[j], new[i]) = "moreSpecific"
               PROVE  FALSE
  BY DEF new
<1>3. /\ DOMAIN new = 1..(Len(patterns) + 1)
      /\ DOMAIN patterns = 1..Len(patterns)
      /\ Len(patterns) \in Nat
  BY <1>1
<1>4. CASE i # idx /\ j # idx
  <2> DEFINE old(k) == IF k < idx THEN k ELSE k - 1
  <2>1. new[i] = patterns[old(i)] /\ new[j] = patterns[old(j)]
    BY <1>1, <1>3, <1>4
  <2>2. old(i) \in DOMAIN patterns /\ old(j) \in DOMAIN patterns /\ old(i) < old(j)
    BY <1>2, <1>3, <1>4
  <2> QED
    BY <1>2, <2>1, <2>2 DEF MostSpecificFirst
<1>5. CASE j = idx
  <2>1. i \in DOMAIN patterns /\ i < idx /\ new[i] = patterns[i]
    BY <1>1, <1>2, <1>3, <1>5
  <2> QED
    BY <1>1, <1>2, <1>5, <2>1 DEF insertionIndex, IsBefore
<1>6. CASE i = idx
  <2>1. /\ idx \in DOMAIN patterns
        /\ j - 1 \in DOMAIN patterns
        /\ new[j] = patterns[j - 1]
        /\ idx <= j - 1
    BY <1>1, <1>2, <1>3, <1>6
  <2>2. /\ patterns[idx] \in Patterns
        /\ patterns[j - 1] \in Patterns
    BY <2>1
  <2>3. comparePathsAndMethods(p, patterns[idx]) = "moreSpecific"
    BY <2>1 DEF insertionIndex, IsBefore
  <2>4. comparePathsAndMethods(patterns[j - 1], p) = "moreSpecific"
    BY <1>1, <1>2, <1>6, <2>1
  <2>5. comparePathsAndMethods(patterns[j - 1], patterns[idx]) = "moreSpecific"
    BY <2>2, <2>3, <2>4, MoreSpecificIsStrictOrder
  <2>6. CASE idx = j - 1
    BY <2>2, <2>3, <2>4, <2>6, MoreSpecificIsStrictOrder
  <2>7. CASE idx < j - 1
    BY <2>1, <2>5, <2>7 DEF MostSpecificFirst
  <2> QED
    BY <2>1, <2>6, <2>7
<1> QED
  BY <1>4, <1>5, <1>6

\* A pattern that is not refused leaves any two patterns compatible.
LEMMA InsertKeepsCompatible ==
  ASSUME patterns \in Seq(Patterns), AllCompatible,
         NEW p \in Patterns, ~Refused(p), NEW idx \in 1..(Len(patterns) + 1)
  PROVE  LET new == Insert(patterns, idx, p)
         IN  \A i, j \in DOMAIN new : i # j => Compatible(new[i], new[j])
<1> DEFINE new == Insert(patterns, idx, p)
<1>1. /\ new \in Seq(Patterns)
      /\ Len(new) = Len(patterns) + 1
      /\ new[idx] = p
      /\ \A i \in 1..(Len(patterns) + 1) : i < idx => new[i] = patterns[i]
      /\ \A i \in 1..(Len(patterns) + 1) : i > idx => new[i] = patterns[i - 1]
  BY InsertProperties
<1> HIDE DEF new
<1>2. /\ DOMAIN new = 1..(Len(patterns) + 1)
      /\ DOMAIN patterns = 1..Len(patterns)
      /\ Len(patterns) \in Nat
  BY <1>1
<1>3. \A k \in DOMAIN patterns : Compatible(p, patterns[k]) /\ Compatible(patterns[k], p)
  <2> TAKE k \in DOMAIN patterns
  <2>1. Compatible(p, patterns[k])
    BY DEF Refused, Compatible
  <2>2. patterns[k] \in Patterns
    BY <1>2
  <2> QED
    BY <2>1, <2>2, CompatibleSymmetric
<1> DEFINE old(k) == IF k < idx THEN k ELSE k - 1
<1>4. ASSUME NEW k \in DOMAIN new, k # idx
      PROVE  old(k) \in DOMAIN patterns /\ new[k] = patterns[old(k)]
  BY <1>1, <1>2, <1>4
<1>5. ASSUME NEW i \in DOMAIN new, NEW j \in DOMAIN new, i # j, i # idx, j # idx
      PROVE  old(i) # old(j)
  BY <1>2, <1>5
<1> HIDE DEF old
<1>6. ASSUME NEW i \in DOMAIN new, NEW j \in DOMAIN new, i # j
      PROVE  Compatible(new[i], new[j])
  <2>1. CASE i = idx
    BY <1>1, <1>3, <1>4, <1>6, <2>1
  <2>2. CASE j = idx
    BY <1>1, <1>3, <1>4, <1>6, <2>2
  <2>3. CASE i # idx /\ j # idx
    BY <1>4, <1>5, <1>6, <2>3 DEF AllCompatible
  <2> QED
    BY <2>1, <2>2, <2>3
<1> QED
  BY <1>6 DEF new

\* The empty list satisfies the invariant ...
LEMMA ListInvInit == ListInit => ListInv
<1> SUFFICES ASSUME ListInit PROVE ListInv
  OBVIOUS
<1>1. todo \subseteq Paths
  <2>1. CASE todo = {}
    BY <2>1
  <2>2. ASSUME NEW f \in [1..MaxPaths -> Paths], todo = {f[i] : i \in 1..MaxPaths}
        PROVE  todo \subseteq Paths
    BY <2>2
  <2> QED
    BY <2>1, <2>2 DEF ListInit
<1>2. /\ patterns = << >>
      /\ limiters = << >>
      /\ status = "parsing"
  BY DEF ListInit
<1> QED
  BY <1>1, <1>2 DEF ListInv, ListTypeOK, AllCompatible, MostSpecificFirst, LimiterOfPattern

\* ... and every step of parseConfig keeps it.
LEMMA ListInvStep ==
  ASSUME ListInv, [ListNext]_listVars
  PROVE  ListInv'
<1> USE DEF ListInv
<1>1. ASSUME NEW p \in Paths, AddPattern(p) PROVE ListInv'
  <2>1. PICK idx \in 1..(Len(patterns) + 1) :
          /\ insertionIndex(p, idx)
          /\ patterns' = Insert(patterns, idx, p)
          /\ limiters' = Insert(limiters, idx, p)
    BY <1>1 DEF AddPattern
  <2>2. ListTypeOK'
    BY <1>1, <2>1, InsertProperties DEF AddPattern, ListTypeOK, LimiterOfPattern
  <2>3. ~Refused(p)
    BY <1>1 DEF AddPattern
  <2>4. p \in Paths \ Malformed /\ p \in Patterns /\ patterns \in Seq(Patterns)
    <3>1. p \notin Malformed
      BY <2>3 DEF Refused
    <3>2. Paths \ Malformed \subseteq Patterns
      BY PathsAssumption
    <3> QED
      BY <3>1, <3>2
  <2>5. (patterns \in Seq(Paths \ Malformed))'
    BY <2>1, <2>4, InsertProperties
  <2>6. AllCompatible'
    BY <2>1, <2>3, <2>4, InsertKeepsCompatible DEF AllCompatible
  <2>7. MostSpecificFirst'
    BY <2>1, <2>4, InsertKeepsOrder DEF MostSpecificFirst
  <2>8. LimiterOfPattern'
    BY <2>1 DEF LimiterOfPattern
  <2> QED
    BY <2>2, <2>5, <2>6, <2>7, <2>8
<1>2. ASSUME NEW p \in Paths, RefusePattern(p) PROVE ListInv'
  BY <1>2 DEF RefusePattern, ListTypeOK, AllCompatible, MostSpecificFirst, LimiterOfPattern
<1>3. CASE FinishParse
  BY <1>3 DEF FinishParse, ListTypeOK, AllCompatible, MostSpecificFirst, LimiterOfPattern
<1>4. CASE UNCHANGED listVars
  BY <1>4 DEF listVars, ListTypeOK, AllCompatible, MostSpecificFirst, LimiterOfPattern
<1> QED
  BY <1>1, <1>2, <1>3, <1>4 DEF ListNext

\* rate_limiter.go, parseConfig: the list is ordered by precedence and every
\* limiter stands where its pattern does, after every iteration, for any
\* paths and whatever the order of the map.
THEOREM PatternsInPrecedenceOrder == ListSpec => [](MostSpecificFirst /\ LimiterOfPattern)
<1>1. ListInit => ListInv
  BY ListInvInit
<1>2. ListInv /\ [ListNext]_listVars => ListInv'
  BY ListInvStep
<1>3. ListInv => MostSpecificFirst /\ LimiterOfPattern
  BY DEF ListInv
<1> QED
  BY <1>1, <1>2, <1>3, PTL DEF ListSpec

\* Of two patterns in the list that match one request, the first is the more
\* specific one: they are compatible, the request tells that they are not
\* disjoint, and the order of the list excludes "more general".
LEMMA FirstOfTwo ==
  ASSUME ListInv, NEW r \in Requests, NEW i \in MatchingAt(r), NEW j \in MatchingAt(r), i < j
  PROVE  TrueRelation[patterns[i]][patterns[j]] = "moreSpecific"
<1> DEFINE p == patterns[i]
           q == patterns[j]
           c == comparePathsAndMethods(p, q)
<1>1. /\ i \in DOMAIN patterns /\ j \in DOMAIN patterns /\ i # j
      /\ match(p, r) /\ match(q, r)
  BY DEF MatchingAt, ListInv
<1>2. p \in Patterns /\ q \in Patterns
  <2>1. p \in Paths \ Malformed /\ q \in Paths \ Malformed
    BY <1>1 DEF ListInv
  <2> QED
    BY <2>1, PathsAssumption
<1>3. Compatible(p, q) /\ comparePathsAndMethods(q, p) # "moreSpecific"
  BY <1>1 DEF ListInv, AllCompatible, MostSpecificFirst
<1> HIDE DEF p, q
<1>4. hasSegments(p) /\ hasSegments(q)
  BY <1>1 DEF match
<1>5. c = TrueRelation[p][q] /\ comparePathsAndMethods(q, p) = inverseRelationship(c)
  BY <1>2, <1>4, ComparisonIsExact, ComparisonInverts
<1>6. c # "disjoint"
  <2>1. ~MethodsApart(p, q) /\ ~PathsApart(p, q)
    BY <1>1, <1>2, ApartMatchNothing
  <2> QED
    BY <1>2, <2>1, CompareMeans
<1>7. c \in Relationships
  <2>1. c # Panic
    BY <1>3 DEF Compatible, Panic
  <2> QED
    BY <1>2, <2>1, CompareMeans
<1>8. c # "equivalent" /\ c # "overlaps"
  BY <1>3 DEF Compatible, Conflicts
<1>9. c # "moreGeneral"
  BY <1>3, <1>5 DEF inverseRelationship
<1> HIDE DEF c
<1>10. c = "moreSpecific"
  BY <1>6, <1>7, <1>8, <1>9 DEF Relationships
<1> QED
  BY <1>5, <1>10 DEF p, q

\* Manager.Allow: the limiter that it takes, the one of the first pattern
\* that matches, belongs to the most specific pattern of all that match, for
\* any configuration and any request.
THEOREM FirstMatchWins == ListSpec => []FirstMatchIsMostSpecific
<1>1. ListInit => ListInv
  BY ListInvInit
<1>2. ListInv /\ [ListNext]_listVars => ListInv'
  BY ListInvStep
<1>3. ListInv => FirstMatchIsMostSpecific
  <2> SUFFICES ASSUME ListInv, NEW r \in Requests, NEW first \in MatchingAt(r),
                      \A i \in MatchingAt(r) : first <= i,
                      NEW j \in MatchingAt(r) \ {first}
               PROVE  TrueRelation[patterns[first]][patterns[j]] = "moreSpecific"
    BY DEF FirstMatchIsMostSpecific
  <2>1. first \in DOMAIN patterns /\ j \in DOMAIN patterns /\ DOMAIN patterns \subseteq Nat
    BY DEF MatchingAt, ListInv
  <2>2. first <= j /\ first # j
    OBVIOUS
  <2>3. first < j
    BY <2>1, <2>2
  <2> QED
    BY <2>3, FirstOfTwo
<1> QED
  BY <1>1, <1>2, <1>3, PTL DEF ListSpec
=============================================================================
