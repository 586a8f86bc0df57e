---------------------------- MODULE ParallelSearch --------------------------
(***************************************************************************)
(* The similarity search of the Telegram bot, as TryCompletion and         *)
(* TryEmbedding of controllerv1 run it: one goroutine per time range in a  *)
(* conc pool that is cancelled on the first error, all of them appending   *)
(* to one slice under a mutex and cancelling the others when enough rows   *)
(* have been found.  The two handlers differ in when they cancel and in    *)
(* what they do with the error of the pool; served says which one it is.   *)
(*                                                                         *)
(* conc joins the errors of all the goroutines: errors.Is(err, Canceled)   *)
(* holds as soon as one of them is a cancellation.  An append is a read    *)
(* and a write of the slice; the cancellation branch reads its length      *)
(* without the mutex.                                                      *)
(***************************************************************************)
EXTENDS Integers, FiniteSets

CONSTANTS
  Ranges,      \* the time ranges that are searched
  Limit,       \* Limit of one search
  MaxResults   \* maxResults

ASSUME RangesAssumption == IsFiniteSet(Ranges)
ASSUME HolderAssumption == "nobody" \notin Ranges
ASSUME SizesAssumption == Limit \in Nat \ {0} /\ MaxResults \in Nat \ {0}

VARIABLES
  served,    \* which of the two serves the request
  pc,        \* the request: "embed", "search", "complete", "answered",
             \* "noResults" or "failed"
  task,      \* each goroutine: "off", "searching", "found", "appending", "over"
  found,     \* rows a goroutine has found
  left,      \* rows it still has to append
  snap,      \* the slice length it has read for the append under way, or -1
  taskErr,   \* what it returned: "nil", "canceled" or "other"
  length,    \* len(searchResults)
  mu,        \* holder of the mutex, or NoHolder
  poolCtx,   \* the context of the searches: "live", "canceled", "deadline"
  caller,    \* the context of the request: "live", "canceled", "deadline"
  cached     \* the explanation of this answer has been cached

searchVars == <<served, pc, task, found, left, snap, taskErr, length, mu, poolCtx,
          caller, cached>>

NoHolder == "nobody"

TypeOK ==
  /\ served \in {"completion", "embedding"}
  /\ pc \in {"embed", "search", "complete", "answered", "noResults", "failed"}
  /\ task \in [Ranges -> {"off", "searching", "found", "appending", "over"}]
  /\ found \in [Ranges -> 0..Limit]
  /\ left \in [Ranges -> 0..Limit]
  /\ snap \in [Ranges -> Int]
  /\ taskErr \in [Ranges -> {"nil", "canceled", "other"}]
  /\ length \in Nat
  /\ mu \in Ranges \cup {NoHolder}
  /\ poolCtx \in {"live", "canceled", "deadline"}
  /\ caller \in {"live", "canceled", "deadline"}
  /\ cached \in {"no", "yes"}

SearchInit ==
  /\ served \in {"completion", "embedding"}
  /\ pc = "embed"
  /\ task = [r \in Ranges |-> "off"]
  /\ found = [r \in Ranges |-> 0]
  /\ left = [r \in Ranges |-> 0]
  /\ snap = [r \in Ranges |-> -1]
  /\ taskErr = [r \in Ranges |-> "nil"]
  /\ length = 0
  /\ mu = NoHolder
  /\ poolCtx = "live"
  /\ caller = "live"
  /\ cached = "no"

\* Only the first cancellation of a context counts.
Canceled(c) == IF c = "live" THEN "canceled" ELSE c

\* The user's request is cancelled or times out; the searches with it.
CallerGivesUp ==
  /\ pc \in {"embed", "search", "complete"}
  /\ caller = "live"
  /\ caller' \in {"canceled", "deadline"}
  /\ poolCtx' = IF poolCtx = "live" THEN caller' ELSE poolCtx
  /\ UNCHANGED <<served, pc, task, found, left, snap, taskErr, length, mu,
                 cached>>

\* CreateEmbeddings, then a goroutine per range.
Embed ==
  /\ pc = "embed"
  /\ \/ /\ pc' = "search"
        /\ task' = [r \in Ranges |-> "searching"]
     \/ /\ pc' = "failed"
        /\ UNCHANGED task
  /\ UNCHANGED <<served, found, left, snap, taskErr, length, mu, poolCtx,
                 caller, cached>>

-----------------------------------------------------------------------------
(* One goroutine.                                                          *)

TaskOver(r, e) ==
  /\ task' = [task EXCEPT ![r] = "over"]
  /\ taskErr' = [taskErr EXCEPT ![r] = e]

\* FetchSimilaritySearch returns rows.
Found(r) ==
  /\ task[r] = "searching"
  /\ task' = [task EXCEPT ![r] = "found"]
  /\ \E n \in 0..Limit :
       /\ found' = [found EXCEPT ![r] = n]
       /\ left' = [left EXCEPT ![r] = n]
  /\ UNCHANGED <<served, pc, snap, taskErr, length, mu, poolCtx, caller,
                 cached>>

\* It returns an error that is not a cancellation, such as the deadline of
\* the request: the pool is cancelled.
SearchFails(r) ==
  /\ task[r] = "searching"
  /\ TaskOver(r, "other")
  /\ poolCtx' = Canceled(poolCtx)
  /\ UNCHANGED <<served, pc, found, left, snap, length, mu, caller, cached>>

\* It returns context.Canceled: nil if there are exactly maxResults rows now,
\* the error otherwise.
SearchCanceled(r) ==
  /\ task[r] = "searching"
  /\ poolCtx = "canceled"
  /\ TaskOver(r, IF length = MaxResults THEN "nil" ELSE "canceled")
  /\ UNCHANGED <<served, pc, found, left, snap, length, mu, poolCtx, caller,
                 cached>>

\* Mutant: the mutex is not taken.
LockNothing(r) ==
  /\ task[r] = "found"
  /\ task' = [task EXCEPT ![r] = "appending"]
  /\ UNCHANGED <<served, pc, found, left, snap, taskErr, length, mu, poolCtx,
                 caller, cached>>

Lock(r) ==
  /\ task[r] = "found"
  /\ mu = NoHolder
  /\ mu' = r
  /\ task' = [task EXCEPT ![r] = "appending"]
  /\ UNCHANGED <<served, pc, found, left, snap, taskErr, length, poolCtx,
                 caller, cached>>

\* The first half of an append.  TryEmbedding looks at the length before it
\* appends, and cancels when there were enough rows already.
ReadSlice(r) ==
  /\ task[r] = "appending"
  /\ left[r] > 0
  /\ snap[r] = -1
  /\ snap' = [snap EXCEPT ![r] = length]
  /\ poolCtx' = IF served = "embedding" /\ length = MaxResults
                THEN Canceled(poolCtx) ELSE poolCtx
  /\ UNCHANGED <<served, pc, task, found, left, taskErr, length, mu, caller,
                 cached>>

\* Mutant: TryCompletion cancels one row too early.
WriteSliceCancelsEarly(r) ==
  /\ task[r] = "appending"
  /\ snap[r] # -1
  /\ length' = snap[r] + 1
  /\ snap' = [snap EXCEPT ![r] = -1]
  /\ left' = [left EXCEPT ![r] = @ - 1]
  /\ poolCtx' = IF served = "completion" /\ length' = MaxResults - 1
                THEN Canceled(poolCtx) ELSE poolCtx
  /\ UNCHANGED <<served, pc, task, found, taskErr, mu, caller, cached>>

\* The second half.  TryCompletion cancels when the row was the last needed.
WriteSlice(r) ==
  /\ task[r] = "appending"
  /\ snap[r] # -1
  /\ length' = snap[r] + 1
  /\ snap' = [snap EXCEPT ![r] = -1]
  /\ left' = [left EXCEPT ![r] = @ - 1]
  /\ poolCtx' = IF served = "completion" /\ length' = MaxResults
                THEN Canceled(poolCtx) ELSE poolCtx
  /\ UNCHANGED <<served, pc, task, found, taskErr, mu, caller, cached>>

Unlock(r) ==
  /\ task[r] = "appending"
  /\ left[r] = 0
  /\ mu' = NoHolder
  /\ TaskOver(r, "nil")
  /\ UNCHANGED <<served, pc, found, left, snap, length, poolCtx, caller,
                 cached>>

-----------------------------------------------------------------------------
(* p.Wait and the rest of the handler.                                     *)

PoolErrors == {taskErr[r] : r \in Ranges} \ {"nil"}

\* TryCompletion ignores an error of the pool that is, or is joined with, a
\* cancellation; TryEmbedding ignores none.
WaitFails ==
  IF served = "completion"
  THEN PoolErrors # {} /\ "canceled" \notin PoolErrors
  ELSE PoolErrors # {}

Wait ==
  /\ pc = "search"
  /\ \A r \in Ranges : task[r] = "over"
  /\ pc' = IF WaitFails THEN "failed"
           ELSE IF served = "embedding" THEN "answered"
           ELSE IF length = 0 THEN "noResults"
           ELSE "complete"
  /\ UNCHANGED <<served, task, found, left, snap, taskErr, length, mu,
                 poolCtx, caller,
                 cached>>

\* The conversations are cached for ExplainMessage, unless one of them cannot
\* be parsed.
saveCacheItem == cached' \in {"no", "yes"}

\* CreateChatCompletion; then saveCacheItem, whose error is only logged.
Complete ==
  /\ pc = "complete"
  /\ \/ pc' = "answered" /\ saveCacheItem
     \/ pc' = "failed" /\ UNCHANGED cached
  /\ UNCHANGED <<served, task, found, left, snap, taskErr, length, mu,
                 poolCtx, caller>>

TaskStep(r) ==
  \/ Found(r)
  \/ SearchFails(r)
  \/ SearchCanceled(r)
  \/ Lock(r)
  \/ ReadSlice(r)
  \/ WriteSlice(r)
  \/ Unlock(r)

SearchNext ==
  \/ CallerGivesUp
  \/ Embed
  \/ \E r \in Ranges : TaskStep(r)
  \/ Wait
  \/ Complete

SearchSpec == SearchInit /\ [][SearchNext]_searchVars

-----------------------------------------------------------------------------
(* Properties.                                                             *)

\* The rows that have been appended: the range they belong to and their number.
AppendedRows == {a \in Ranges \X (1 .. Limit) : a[2] <= found[a[1]] - left[a[1]]}

\* The mutex: no append of one goroutine is lost to another, at any point: the
\* slice is as long as there are rows that were appended.
NoRowLost == length = Cardinality(AppendedRows)

\* While the caller waits and no search has failed, a search is given up only
\* when there are maxResults rows ("notify we got enough results"), although
\* they are counted by one goroutine, and the others see the cancellation, at
\* any time; and TryCompletion goes on with what it has.
GivenUpOnlyWhenEnough ==
  [][pc = "search" /\ pc' # "search" /\ caller = "live" /\ "other" \notin PoolErrors
       => /\ PoolErrors # {} => length >= MaxResults
          /\ served = "completion" => pc' # "failed"]_searchVars

\* story_try_embedding.go:59 ("if we got enough results - suppress, it's OK"):
\* a cancelled search does not fail a request that has enough rows.  It does in
\* TryEmbedding, which cancels with the row after the last one it needs, so
\* that the test for exactly maxResults rows is false from then on.
EnoughRowsSuppressed ==
  [][pc = "search" /\ pc' = "failed" /\ caller = "live" /\ "other" \notin PoolErrors
       => length < MaxResults]_searchVars
=============================================================================
