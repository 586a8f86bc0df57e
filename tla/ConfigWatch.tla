---------------------------- MODULE ConfigWatch ----------------------------
(***************************************************************************)
(* The life of a rate-limit manager: its start, the goroutine that watches *)
(* the configuration under recoverytooling.DoUntilSuccess, and the         *)
(* requests that hold the lock while a new configuration waits for it.     *)
(* There are three kinds of managers under internal/resttooling:           *)
(*   "v2"       ratelimiter/v2/rate_limiter.go: parses into its own list   *)
(*              under the lock and stops watching after a success;         *)
(*   "v1"       ratelimiter/rate_limiter.go: builds the new limiters first *)
(*              and swaps them under the lock;                             *)
(*   "dynamic"  dynamicratelimiter/rate_limiter.go: one lock for all, and  *)
(*              a limiter is built when its key is first asked for.        *)
(*                                                                         *)
(* A configuration is a model value with a set of paths; some of them are  *)
(* bad.  For "v2" that is a path that cannot be added to the list          *)
(* (PatternList says which), and the parse ends after any part of the      *)
(* others; for the other two it is a limit that divides by zero.           *)
(***************************************************************************)
EXTENDS Integers, FiniteSets

CONSTANTS
  Configs,       \* what cfgGetter may return
  PathsOf,       \* [Configs -> set of paths]
  BadPaths,      \* paths that make parseConfig fail or panic
  Unreadable,    \* cfgGetter fails
  Callers,       \* calls of Manager.Allow
  MaxChanges     \* bound: changes of what cfgGetter returns

VARIABLES
  kind,            \* which of the three managers it is
  source,          \* what cfgGetter returns at the moment
  changes,         \* how often that has changed
  manager,         \* "new", "running" or "refused" (NewManager gave an error)
  watcher,         \* "off", "waiting", "fetched", "locking" or "done"
  fetched,         \* the configuration the watcher is about to parse
  lastConfigHash,  \* Manager.lastConfigHash: the configuration it is the hash of
  loaded,          \* Manager.patterns, as a set of paths
  reading,         \* calls that hold the read lock
  view,            \* the patterns each of them has started with
  ctx              \* the context of NewManager: "open" or "done"

watchVars == <<kind, source, changes, manager, watcher, fetched, lastConfigHash, loaded,
          reading, view, ctx>>
env == <<kind, source, changes>>
calls == <<reading, view>>

WatchedPaths == UNION {PathsOf[c] : c \in Configs}

WatchTypeOK ==
  /\ kind \in {"v1", "v2", "dynamic"}
  /\ source \in Configs \cup {Unreadable}
  /\ changes \in 0..MaxChanges
  /\ manager \in {"new", "running", "refused"}
  /\ watcher \in {"off", "waiting", "fetched", "locking", "done"}
  /\ fetched \in Configs \cup {Unreadable}
  /\ lastConfigHash \in Configs \cup {Unreadable}
  /\ loaded \subseteq WatchedPaths
  /\ reading \subseteq Callers
  /\ view \in [Callers -> SUBSET WatchedPaths]
  /\ ctx \in {"open", "done"}

WatchInit ==
  /\ kind \in {"v1", "v2", "dynamic"}
  /\ source \in Configs \cup {Unreadable}
  /\ changes = 0
  /\ manager = "new"
  /\ watcher = "off"
  /\ fetched = Unreadable
  /\ lastConfigHash = Unreadable
  /\ loaded = {}
  /\ reading = {}
  /\ view = [c \in Callers |-> {}]
  /\ ctx = "open"

-----------------------------------------------------------------------------
Parses(c) == PathsOf[c] \cap BadPaths = {}

\* What parseConfig leaves in the list: all paths, or, when it fails, those
\* that the map happened to yield before a bad one.
ParsedPaths(c) == IF Parses(c) THEN {PathsOf[c]} ELSE SUBSET (PathsOf[c] \ BadPaths)

NewManagerFails ==
  /\ manager = "new"
  /\ source # Unreadable => kind = "v2" /\ ~Parses(source)
  /\ manager' = "refused"
  /\ UNCHANGED <<env, watcher, fetched, lastConfigHash, loaded, calls, ctx>>

NewManager ==
  /\ manager = "new" /\ kind = "v2"
  /\ source # Unreadable /\ Parses(source)
  /\ manager' = "running"
  /\ watcher' = "waiting"
  /\ lastConfigHash' = source
  /\ loaded' = PathsOf[source]
  /\ UNCHANGED <<env, fetched, calls, ctx>>

\* NewRateLimitManager of "v1": buildLimiters divides by zero, and nobody
\* recovers, or the limiters are there.
NewRateLimitManager ==
  /\ manager = "new" /\ kind = "v1"
  /\ source # Unreadable
  /\ IF Parses(source)
     THEN /\ manager' = "running" /\ watcher' = "waiting"
          /\ lastConfigHash' = source /\ loaded' = PathsOf[source]
     ELSE /\ manager' = "refused"
          /\ UNCHANGED <<watcher, lastConfigHash, loaded>>
  /\ UNCHANGED <<env, fetched, calls, ctx>>

\* NewRateLimitManager of "dynamic" builds no limiter yet.
NewDynamicManager ==
  /\ manager = "new" /\ kind = "dynamic"
  /\ source # Unreadable
  /\ manager' = "running" /\ watcher' = "waiting"
  /\ lastConfigHash' = source /\ loaded' = PathsOf[source]
  /\ UNCHANGED <<env, fetched, calls, ctx>>

\* A tick of watchConfig that finds nothing to load: the configuration
\* cannot be read, and DoUntilSuccess starts watchConfig again, or it has the
\* hash of the last one.
TickNothing ==
  /\ watcher = "waiting"
  /\ source \in {Unreadable, lastConfigHash}
  /\ UNCHANGED watchVars

\* buildLimiters of "v1" panics; DoUntilSuccess starts the loop again, with
\* the old limiters and the old hash.
TickPanics ==
  /\ watcher = "waiting" /\ kind = "v1"
  /\ source \notin {Unreadable, lastConfigHash} /\ ~Parses(source)
  /\ UNCHANGED watchVars

\* Mutant: nothing is loaded any more after a configuration that failed.
TickChangedOnce ==
  /\ watcher = "waiting"
  /\ source \notin {Unreadable, lastConfigHash}
  /\ kind = "v1" => Parses(source)
  /\ Parses(lastConfigHash)
  /\ watcher' = "fetched"
  /\ fetched' = source
  /\ UNCHANGED <<env, manager, lastConfigHash, loaded, calls, ctx>>

\* A tick that finds another configuration; "v1" builds its limiters.
TickChanged ==
  /\ watcher = "waiting"
  /\ source \notin {Unreadable, lastConfigHash}
  /\ kind = "v1" => Parses(source)
  /\ watcher' = "fetched"
  /\ fetched' = source
  /\ UNCHANGED <<env, manager, lastConfigHash, loaded, calls, ctx>>

\* The goroutine asks for the write lock, with what it has fetched; calls have
\* come and gone, and the configuration may have changed again.
AskForLock ==
  /\ watcher = "fetched"
  /\ watcher' = "locking"
  /\ UNCHANGED <<env, manager, fetched, lastConfigHash, loaded, calls, ctx>>

\* Mutant: the lock is not waited for.
ReloadUnlocked ==
  /\ watcher = "locking" /\ kind = "v2"
  /\ lastConfigHash' = fetched
  /\ loaded' \in ParsedPaths(fetched)
  /\ watcher' = IF Parses(fetched) THEN "done" ELSE "waiting"
  /\ UNCHANGED <<env, manager, fetched, calls, ctx>>

\* parseConfig under the write lock.  The hash is stored first, so that a
\* configuration that fails is not tried again; DoUntilSuccess then starts
\* watchConfig again.  When the parse succeeds, watchConfig returns nil and
\* DoUntilSuccess ends.
Reload ==
  /\ watcher = "locking" /\ kind = "v2"
  /\ reading = {}
  /\ lastConfigHash' = fetched
  /\ loaded' \in ParsedPaths(fetched)
  /\ watcher' = IF Parses(fetched) THEN "done" ELSE "waiting"
  /\ UNCHANGED <<env, manager, fetched, calls, ctx>>

\* updateLimitersOnConfigChange swaps the map of the limiters, and goes on.
SwapLimiters ==
  /\ watcher = "locking" /\ kind = "v1"
  /\ reading = {}
  /\ lastConfigHash' = fetched /\ loaded' = PathsOf[fetched]
  /\ watcher' = "waiting"
  /\ UNCHANGED <<env, manager, fetched, calls, ctx>>

\* The same of "dynamic", which keeps the configuration for new limiters.
SwapConfig ==
  /\ watcher = "locking" /\ kind = "dynamic"
  /\ reading = {}
  /\ lastConfigHash' = fetched /\ loaded' = PathsOf[fetched]
  /\ watcher' = "waiting"
  /\ UNCHANGED <<env, manager, fetched, calls, ctx>>

\* The context of NewManager ends; watchConfig returns nil.
CancelContext ==
  /\ manager = "running"
  /\ ctx = "open"
  /\ ctx' = "done"
  /\ UNCHANGED <<env, manager, watcher, fetched, lastConfigHash, loaded, calls>>

WatcherCancelled ==
  /\ watcher = "waiting"
  /\ ctx = "done"
  /\ watcher' = "done"
  /\ UNCHANGED <<env, manager, fetched, lastConfigHash, loaded, calls, ctx>>

\* Manager.Allow takes the read lock, which is not given while a writer
\* waits, and keeps it while it fetches overrides.
AllowBegins(c) ==
  /\ manager = "running" /\ kind = "v2"
  /\ c \notin reading
  /\ watcher # "locking"
  /\ reading' = reading \cup {c}
  /\ view' = [view EXCEPT ![c] = loaded]
  /\ UNCHANGED <<env, manager, watcher, fetched, lastConfigHash, loaded, ctx>>

\* Allow of "v1" finds the limiter of the handler, or that of all, in a map.
AllowHandler(c) ==
  /\ manager = "running" /\ kind = "v1"
  /\ c \notin reading
  /\ watcher # "locking"
  /\ reading' = reading \cup {c}
  /\ view' = [view EXCEPT ![c] = loaded]
  /\ UNCHANGED <<env, manager, watcher, fetched, lastConfigHash, loaded, ctx>>

\* Allow of "dynamic" has the mutex to itself.
AllowKey(c) ==
  /\ manager = "running" /\ kind = "dynamic"
  /\ reading = {}
  /\ Parses(lastConfigHash)
  /\ reading' = {c}
  /\ view' = [view EXCEPT ![c] = loaded]
  /\ UNCHANGED <<env, manager, watcher, fetched, lastConfigHash, loaded, ctx>>

\* newLimiter divides by zero; the deferred Unlock runs, and the panic goes to
\* the caller.
AllowKeyPanics(c) ==
  /\ manager = "running" /\ kind = "dynamic"
  /\ reading = {}
  /\ ~Parses(lastConfigHash)
  /\ UNCHANGED watchVars

AllowReturns(c) ==
  /\ c \in reading
  /\ reading' = reading \ {c}
  /\ UNCHANGED <<env, manager, watcher, fetched, lastConfigHash, loaded, view, ctx>>

\* Somebody edits the configuration, or breaks it.
ChangeConfig ==
  /\ changes < MaxChanges
  /\ changes' = changes + 1
  /\ \E s \in (Configs \cup {Unreadable}) \ {source} : source' = s
  /\ UNCHANGED <<kind, manager, watcher, fetched, lastConfigHash, loaded, calls, ctx>>

WatchNext ==
  \/ NewManager
  \/ NewManagerFails
  \/ NewRateLimitManager \/ NewDynamicManager
  \/ TickNothing \/ TickPanics
  \/ TickChanged \/ AskForLock
  \/ Reload \/ SwapLimiters \/ SwapConfig
  \/ CancelContext
  \/ WatcherCancelled
  \/ \E c \in Callers : \/ AllowBegins(c) \/ AllowHandler(c) \/ AllowKey(c)
                     \/ AllowKeyPanics(c) \/ AllowReturns(c)
  \/ ChangeConfig

\* The ticker keeps ticking, the locks serve a waiting writer (sync.Mutex
\* hands over to one that has waited for a millisecond, so it gets its turn
\* between calls: strong fairness), and overrideFetcher is assumed to return.
Fairness ==
  /\ WF_watchVars(TickChanged) /\ WF_watchVars(AskForLock)
  /\ WF_watchVars(Reload) /\ WF_watchVars(SwapLimiters) /\ SF_watchVars(SwapConfig)
  /\ WF_watchVars(WatcherCancelled)
  /\ \A c \in Callers : WF_watchVars(AllowReturns(c))

WatchSpec == WatchInit /\ [][WatchNext]_watchVars

FairSpec == WatchSpec /\ Fairness

-----------------------------------------------------------------------------
\* Manager.Allow: from the loop over the patterns to the read of the limiter
\* at the same index, a call works with one configuration, in all managers.
CallSeesOneConfig == \A c \in reading : view[c] = loaded

\* The last change has been made, and it has left a configuration that the
\* running manager can use.
Settled ==
  /\ changes = MaxChanges /\ ctx = "open" /\ manager = "running"
  /\ source # Unreadable
  /\ kind # "dynamic" => Parses(source)

InForce == source # Unreadable /\ loaded = PathsOf[source]

\* ratelimiter/rate_limiter.go:97, dynamicratelimiter/rate_limiter.go: a
\* configuration that stays is in force in the end, also after others that
\* could not be read or built, and when it came while another one was fetched
\* and waited for the lock.
WatchedConfigIsLoaded == Settled /\ kind # "v2" ~> InForce \/ ctx = "done"

\* v2/rate_limiter.go:212 ("watchConfig periodically checks for changes in the
\* config, and updates the manager if necessary"): the same of "v2".  It does
\* not hold: watchConfig returns nil with the first configuration it has
\* loaded, DoUntilSuccess ends, and nobody sees a later change.
WatchedV2ConfigIsLoaded == Settled /\ kind = "v2" ~> InForce \/ ctx = "done"
=============================================================================
