-------------------------------- MODULE RdbTx -------------------------------
(***************************************************************************)
(* DB.WithTx of internal/rdb: transactions on a pool of connections, the   *)
(* retries around them and the callbacks that run after a commit.  Each    *)
(* caller makes one call of WithTx outside any transaction, with the       *)
(* function F of its TxOptions; a nested WithTx with ContinueActive is     *)
(* part of F, and one without it only returns an error to F.               *)
(*                                                                         *)
(* The database, database/sql and pgx are external: a connection may be    *)
(* lost at any call, and a transaction is rolled back by the driver some   *)
(* time after the context it was begun with is done.                       *)
(***************************************************************************)
EXTENDS Integers, FiniteSets, Sequences

CONSTANTS
  Callers,       \* goroutines that call WithTx
  Idempotent,    \* those that set FIsIdempotent
  MaxOpenConns,  \* the size of the pool
  MaxAttempts    \* bound: attempts of one WithTx (the code has no limit)

ASSUME IdempotentAssumption == Idempotent \subseteq Callers
ASSUME CallersAssumption == IsFiniteSet(Callers)
ASSUME SizesAssumption == MaxOpenConns \in Nat \ {0} /\ MaxAttempts \in Nat \ {0}

VARIABLES
  pc,         \* where each caller is in WithTx
  ctx,        \* the context given to WithTx: "live" or "done"
  attempt,    \* attempts that retry.Do has started
  fRuns,      \* how often F has been entered
  tx,         \* the transaction of the last attempt: "none", "open", "over"
  err,        \* the error of the last attempt, "nil" if there is none
  aborted,    \* that error wraps errTransactionAborted: "yes" or "no"
  callbacks,  \* afterCommitCallbacks: the attempts that registered each
  ran,        \* how many of them have been called
  durable     \* attempts whose writes the database has made durable

vars == <<pc, ctx, attempt, fRuns, tx, err, aborted, callbacks, ran, durable>>

\* Errors as isRetryable tells them apart; "canceled" also stands for
\* context.DeadlineExceeded.
Errors == {"retryable", "fatal", "canceled"}

PCs == {"idle", "loop", "begin", "F", "finish", "callbacks", "returned",
        "panicked"}

TypeOK ==
  /\ pc \in [Callers -> PCs]
  /\ ctx \in [Callers -> {"live", "done"}]
  /\ attempt \in [Callers -> Nat]
  /\ fRuns \in [Callers -> Nat]
  /\ tx \in [Callers -> {"none", "open", "over"}]
  /\ err \in [Callers -> Errors \cup {"nil"}]
  /\ aborted \in [Callers -> {"yes", "no"}]
  /\ callbacks \in [Callers -> Seq(Nat)]
  /\ ran \in [Callers -> Nat]
  /\ durable \in [Callers -> SUBSET Nat]

Init ==
  /\ pc = [c \in Callers |-> "idle"]
  /\ ctx = [c \in Callers |-> "live"]
  /\ attempt = [c \in Callers |-> 0]
  /\ fRuns = [c \in Callers |-> 0]
  /\ tx = [c \in Callers |-> "none"]
  /\ err = [c \in Callers |-> "nil"]
  /\ aborted = [c \in Callers |-> "no"]
  /\ callbacks = [c \in Callers |-> <<>>]
  /\ ran = [c \in Callers |-> 0]
  /\ durable = [c \in Callers |-> {}]

Goto(c, from, to) ==
  /\ pc[c] = from
  /\ pc' = [pc EXCEPT ![c] = to]

\* The attempt is over with error e: retry.Do decides what comes next.
AttemptFails(c, from, e) ==
  /\ Goto(c, from, "loop")
  /\ err' = [err EXCEPT ![c] = e]

InUse == {c \in Callers : tx[c] = "open"}

CancelCtx(c) ==
  /\ pc[c] \notin {"idle", "returned"}
  /\ ctx[c] = "live"
  /\ ctx' = [ctx EXCEPT ![c] = "done"]
  /\ UNCHANGED <<pc, attempt, fRuns, tx, err, aborted, callbacks, ran, durable>>

\* database/sql rolls back a transaction whose context is done.
DriverRollsBack(c) ==
  /\ ctx[c] = "done"
  /\ tx[c] = "open"
  /\ tx' = [tx EXCEPT ![c] = "over"]
  /\ UNCHANGED <<pc, ctx, attempt, fRuns, err, aborted, callbacks, ran, durable>>

-----------------------------------------------------------------------------
(* retry.Do around the attempts.                                           *)

Call(c) ==
  /\ Goto(c, "idle", "loop")
  /\ UNCHANGED <<ctx, attempt, fRuns, tx, err, aborted, callbacks, ran, durable>>

\* Mutant: FIsIdempotent is not looked at.
ShouldTryAnyF(c) ==
  \/ attempt[c] = 0
  \/ err[c] = "retryable"

\* The strategies: the first attempt is free; then a retryable error for an
\* idempotent F (pgretries.Strategy), nothing otherwise (Limit(1)).
ShouldTry(c) ==
  \/ attempt[c] = 0
  \/ c \in Idempotent /\ err[c] = "retryable"

Attempt(c) ==
  /\ Goto(c, "loop", "begin")
  /\ ShouldTry(c)
  /\ ctx[c] = "live"
  /\ attempt[c] < MaxAttempts
  /\ attempt' = [attempt EXCEPT ![c] = @ + 1]
  /\ UNCHANGED <<ctx, fRuns, tx, err, aborted, callbacks, ran, durable>>

GiveUp(c) ==
  /\ Goto(c, "loop", "returned")
  /\ ~ShouldTry(c)
  /\ ctx[c] = "live"
  /\ UNCHANGED <<ctx, attempt, fRuns, tx, err, aborted, callbacks, ran, durable>>

\* Mutant: the breaker is looked at only when the strategies say no.
BreakerAfterStrategies(c) ==
  /\ Goto(c, "loop", "returned")
  /\ ~ShouldTry(c)
  /\ ctx[c] = "done"
  /\ err' = [err EXCEPT ![c] = "canceled"]
  /\ aborted' = [aborted EXCEPT ![c] = "no"]
  /\ UNCHANGED <<ctx, attempt, fRuns, tx, callbacks, ran, durable>>

\* The breaker is done: its error replaces the one of the last attempt.
BreakerDone(c) ==
  /\ Goto(c, "loop", "returned")
  /\ ctx[c] = "done"
  /\ err' = [err EXCEPT ![c] = "canceled"]
  /\ aborted' = [aborted EXCEPT ![c] = "no"]
  /\ UNCHANGED <<ctx, attempt, fRuns, tx, callbacks, ran, durable>>

-----------------------------------------------------------------------------
(* One attempt: beginTx, F, finishTx.                                      *)

Begin(c) ==
  /\ Goto(c, "begin", "F")
  /\ Cardinality(InUse) < MaxOpenConns
  /\ tx' = [tx EXCEPT ![c] = "open"]
  /\ fRuns' = [fRuns EXCEPT ![c] = @ + 1]
  /\ UNCHANGED <<ctx, attempt, err, aborted, callbacks, ran, durable>>

BeginFails(c) ==
  /\ \/ \E e \in {"retryable", "fatal"} : AttemptFails(c, "begin", e)
     \/ ctx[c] = "done" /\ AttemptFails(c, "begin", "canceled")
  /\ aborted' = [aborted EXCEPT ![c] = "no"]
  /\ UNCHANGED <<ctx, attempt, fRuns, tx, callbacks, ran, durable>>

\* F calls RegisterAfterCommitCallback; one callback per attempt is enough
\* to tell the attempts apart.
Register(c) ==
  /\ pc[c] = "F"
  /\ \A i \in DOMAIN callbacks[c] : callbacks[c][i] # attempt[c]
  /\ callbacks' = [callbacks EXCEPT ![c] = Append(@, attempt[c])]
  /\ UNCHANGED <<pc, ctx, attempt, fRuns, tx, err, aborted, ran, durable>>

\* F calls the function that TxRollbackFunc finds in its context.
FRollsBack(c) ==
  /\ pc[c] = "F"
  /\ tx[c] = "open"
  /\ tx' = [tx EXCEPT ![c] = "over"]
  /\ UNCHANGED <<pc, ctx, attempt, fRuns, err, aborted, callbacks, ran, durable>>

\* The error of F may be a cancellation of a context of its own.
FReturns(c) ==
  /\ Goto(c, "F", "finish")
  /\ \E e \in Errors \cup {"nil"} : err' = [err EXCEPT ![c] = e]
  /\ UNCHANGED <<ctx, attempt, fRuns, tx, aborted, callbacks, ran, durable>>

\* Nothing recovers: finishTx is never called.
FPanics(c) ==
  /\ Goto(c, "F", "panicked")
  /\ UNCHANGED <<ctx, attempt, fRuns, tx, err, aborted, callbacks, ran, durable>>

\* finishTx leaves a transaction alone that it takes to be over.
FinishCanceled(c) ==
  /\ err[c] = "canceled"
  /\ AttemptFails(c, "finish", "canceled")
  /\ aborted' = [aborted EXCEPT ![c] = "no"]
  /\ UNCHANGED <<ctx, attempt, fRuns, tx, callbacks, ran, durable>>

\* What finishTx returns after Rollback: a rollback that fails joins its
\* error to the one of F, and ErrTxDone is explained by the cancellation.
RollbackErrors(c) ==
  IF tx[c] = "open"
  THEN {err[c], "retryable"} \cup (IF ctx[c] = "done" THEN {"canceled"} ELSE {})
  ELSE IF ctx[c] = "done" THEN {"canceled"} ELSE {err[c]}

\* Mutant: the rollback is forgotten.
FinishWithoutRollback(c) ==
  /\ err[c] \in {"retryable", "fatal"}
  /\ \E e \in RollbackErrors(c) : AttemptFails(c, "finish", e)
  /\ aborted' = [aborted EXCEPT ![c] = "no"]
  /\ UNCHANGED <<ctx, attempt, fRuns, tx, callbacks, ran, durable>>

FinishRollback(c) ==
  /\ err[c] \in {"retryable", "fatal"}
  /\ \E e \in RollbackErrors(c) : AttemptFails(c, "finish", e)
  /\ tx' = [tx EXCEPT ![c] = "over"]
  /\ aborted' = [aborted EXCEPT ![c] = "no"]
  /\ UNCHANGED <<ctx, attempt, fRuns, callbacks, ran, durable>>

\* finishTx commits.
Commit(c) ==
  /\ err[c] = "nil"
  /\ tx[c] = "open"
  /\ Goto(c, "finish", "callbacks")
  /\ tx' = [tx EXCEPT ![c] = "over"]
  /\ durable' = [durable EXCEPT ![c] = @ \cup {attempt[c]}]
  /\ UNCHANGED <<ctx, attempt, fRuns, err, aborted, callbacks, ran>>

\* Mutant: ErrTxDone of Commit is taken for success.
CommitDoneIsSuccess(c) ==
  /\ err[c] = "nil"
  /\ tx[c] = "over"
  /\ Goto(c, "finish", "callbacks")
  /\ UNCHANGED <<ctx, attempt, fRuns, tx, err, aborted, callbacks, ran, durable>>

\* The transaction is over already: the cancellation is passed on if there
\* is one, otherwise F has rolled back.
CommitDone(c) ==
  /\ err[c] = "nil"
  /\ tx[c] = "over"
  /\ \/ ctx[c] = "done" /\ AttemptFails(c, "finish", "canceled")
        /\ aborted' = [aborted EXCEPT ![c] = "no"]
     \/ ctx[c] = "live" /\ AttemptFails(c, "finish", "fatal")
        /\ aborted' = [aborted EXCEPT ![c] = "yes"]
  /\ UNCHANGED <<ctx, attempt, fRuns, tx, callbacks, ran, durable>>

\* The database refuses the commit.
CommitRefused(c) ==
  /\ err[c] = "nil"
  /\ tx[c] = "open"
  /\ AttemptFails(c, "finish", "fatal")
  /\ tx' = [tx EXCEPT ![c] = "over"]
  /\ aborted' = [aborted EXCEPT ![c] = "yes"]
  /\ UNCHANGED <<ctx, attempt, fRuns, callbacks, ran, durable>>

\* The connection is lost, or the context ends, while the commit is under
\* way: the database may have committed or not.
CommitUnknown(c) ==
  /\ err[c] = "nil"
  /\ tx[c] = "open"
  /\ \/ AttemptFails(c, "finish", "retryable")
        /\ aborted' = [aborted EXCEPT ![c] = "yes"]
     \/ ctx[c] = "done" /\ AttemptFails(c, "finish", "canceled")
        /\ aborted' = [aborted EXCEPT ![c] = "no"]
  /\ tx' = [tx EXCEPT ![c] = "over"]
  /\ \/ durable' = [durable EXCEPT ![c] = @ \cup {attempt[c]}]
     \/ UNCHANGED durable
  /\ UNCHANGED <<ctx, attempt, fRuns, callbacks, ran>>

RunCallback(c) ==
  /\ pc[c] = "callbacks"
  /\ ran[c] < Len(callbacks[c])
  /\ ran' = [ran EXCEPT ![c] = @ + 1]
  /\ UNCHANGED <<pc, ctx, attempt, fRuns, tx, err, aborted, callbacks, durable>>

CallbackPanics(c) ==
  /\ ran[c] < Len(callbacks[c])
  /\ Goto(c, "callbacks", "panicked")
  /\ ran' = [ran EXCEPT ![c] = @ + 1]
  /\ UNCHANGED <<ctx, attempt, fRuns, tx, err, aborted, callbacks, durable>>

ReturnNil(c) ==
  /\ ran[c] = Len(callbacks[c])
  /\ Goto(c, "callbacks", "returned")
  /\ UNCHANGED <<ctx, attempt, fRuns, tx, err, aborted, callbacks, ran, durable>>

-----------------------------------------------------------------------------
Finish(c) ==
  \/ FinishCanceled(c)
  \/ FinishRollback(c)
  \/ Commit(c)
  \/ CommitDone(c)
  \/ CommitRefused(c)
  \/ CommitUnknown(c)

Retry(c) == Attempt(c) \/ GiveUp(c) \/ BreakerDone(c)

Step(c) ==
  \/ CancelCtx(c)
  \/ DriverRollsBack(c)
  \/ Call(c)
  \/ Retry(c)
  \/ Begin(c)
  \/ BeginFails(c)
  \/ Register(c)
  \/ FRollsBack(c)
  \/ FReturns(c)
  \/ FPanics(c)
  \/ Finish(c)
  \/ RunCallback(c)
  \/ CallbackPanics(c)
  \/ ReturnNil(c)

Next == \E c \in Callers : Step(c)

\* The goroutine of a caller runs, the driver notices a context that is done
\* and BeginTxx returns then.  F may never return and the pool may be full.
Fairness ==
  \A c \in Callers :
    /\ WF_vars(Retry(c))
    /\ WF_vars(BeginFails(c) /\ ctx[c] = "done")
    /\ WF_vars(Finish(c))
    /\ WF_vars(RunCallback(c))
    /\ WF_vars(ReturnNil(c))
    /\ WF_vars(DriverRollsBack(c))

Spec == Init /\ [][Next]_vars

FairSpec == Spec /\ Fairness

-----------------------------------------------------------------------------
(* Properties.                                                             *)

\* rdb.go, WithTx: nil is returned only if the last attempt is durable and
\* every registered callback has been called, once.
NilMeansCommitted ==
  \A c \in Callers :
    (pc[c] = "returned" /\ err[c] = "nil")
      => attempt[c] \in durable[c] /\ ran[c] = Len(callbacks[c])

\* rdb.go:277: callbacks are called after a commit only, and a call that ends
\* with an error has called none of them.
CallbacksAfterCommitOnly ==
  \A c \in Callers :
    ran[c] > 0 => attempt[c] \in durable[c] /\ err[c] = "nil" /\ tx[c] = "over"

\* rdb.go:152-172: an F that is not declared idempotent is run once at most,
\* so its writes are durable once at most.
NotIdempotentRunsOnce ==
  \A c \in Callers \ Idempotent : fRuns[c] <= 1 /\ durable[c] \subseteq {1}

\* The pool is never overdrawn, and a caller that returned with nil or with
\* an error other than a cancellation has given its connection back.
ConnectionsGivenBack ==
  /\ Cardinality(InUse) <= MaxOpenConns
  /\ \A c \in Callers :
       pc[c] \in {"loop", "begin", "callbacks", "returned"} /\ tx[c] = "open"
         => err[c] = "canceled" /\ pc[c] \in {"loop", "returned"}

\* retry.Do: a new attempt is started only with a live context, and never
\* while the transaction of the previous attempt is still open.
AttemptsDoNotOverlap ==
  [][\A c \in Callers :
       attempt'[c] # attempt[c] => ctx[c] = "live" /\ tx[c] # "open"]_vars

\* A caller whose context is done gets out of WithTx, unless F does not
\* return, and the pool gets back a transaction that was left open.
CancelEndsCall ==
  \A c \in Callers :
    /\ (ctx[c] = "done" /\ pc[c] # "F") ~> (pc[c] \in {"returned", "panicked", "F"})
    /\ (ctx[c] = "done" /\ pc[c] \notin {"F", "begin"})
         ~> (tx[c] # "open" \/ pc[c] = "F")

=============================================================================
