----------------------------- MODULE RdbTxProofs ----------------------------
(***************************************************************************)
(* The safety of DB.WithTx for any number of callers, any size of the pool *)
(* and any number of attempts.  TxInv says, for each place of WithTx, what *)
(* the transaction of the last attempt, its error and the callbacks look   *)
(* like there; the properties follow from it, none is inductive alone.     *)
(***************************************************************************)
EXTENDS RdbTx, FiniteSetTheorems, TLAPS

\* Before the first attempt there is no transaction and no error.
FirstAttempt(c) ==
  /\ pc[c] = "idle" => attempt[c] = 0
  /\ attempt[c] = 0 => tx[c] = "none" /\ pc[c] \in {"idle", "loop", "returned"}
  /\ pc[c] = "loop" /\ attempt[c] # 0 => err[c] # "nil"

\* F is entered once per attempt at most, and only attempts are durable.
RunsPerAttempt(c) ==
  /\ fRuns[c] <= attempt[c]
  /\ pc[c] = "begin" => fRuns[c] < attempt[c]
  /\ \A i \in durable[c] : i \in 1..attempt[c]
  /\ c \notin Idempotent => attempt[c] <= 1

\* Where a transaction may be open.
OpenTx(c) ==
  tx[c] = "open" =>
    \/ pc[c] \in {"F", "finish", "panicked"}
    \/ pc[c] \in {"loop", "returned"} /\ err[c] = "canceled"

\* The callbacks run when the last attempt is durable.
Committed(c) == attempt[c] \in durable[c] /\ err[c] = "nil" /\ tx[c] = "over"

CallbackPhase(c) ==
  /\ ran[c] <= Len(callbacks[c])
  /\ ran[c] > 0 => Committed(c) /\ pc[c] \in {"callbacks", "returned", "panicked"}
  /\ pc[c] = "callbacks" => Committed(c)
  /\ pc[c] = "returned" /\ err[c] = "nil"
       => Committed(c) /\ ran[c] = Len(callbacks[c])

CallInv(c) ==
  FirstAttempt(c) /\ RunsPerAttempt(c) /\ OpenTx(c) /\ CallbackPhase(c)

TxInv ==
  /\ TypeOK
  /\ Cardinality(InUse) <= MaxOpenConns
  /\ \A c \in Callers : CallInv(c)

\* The open transactions are finitely many.
LEMMA InUseFinite == IsFiniteSet(InUse) /\ Cardinality(InUse) \in Nat
<1>1. InUse \subseteq Callers
  BY DEF InUse
<1> QED
  BY <1>1, CallersAssumption, FS_Subset, FS_CardinalityType

\* The steps keep the types.
LEMMA TypeStep ==
  ASSUME TypeOK, NEW c \in Callers, Step(c)
  PROVE  TypeOK'
<1> USE DEF TypeOK, PCs, Errors, Goto, AttemptFails
<1>1. CASE CancelCtx(c)
  BY <1>1 DEF CancelCtx
<1>2. CASE DriverRollsBack(c)
  BY <1>2 DEF DriverRollsBack
<1>3. CASE Call(c)
  BY <1>3 DEF Call
<1>4. CASE Attempt(c)
  BY <1>4 DEF Attempt
<1>5. CASE GiveUp(c)
  BY <1>5 DEF GiveUp
<1>6. CASE BreakerDone(c)
  BY <1>6 DEF BreakerDone
<1>7. CASE Begin(c)
  BY <1>7 DEF Begin
<1>8. CASE BeginFails(c)
  <2>1. PICK e \in Errors : AttemptFails(c, "begin", e)
    BY <1>8 DEF BeginFails
  <2> QED
    BY <1>8, <2>1 DEF BeginFails
<1>9. CASE Register(c)
  BY <1>9 DEF Register
<1>10. CASE FRollsBack(c)
  BY <1>10 DEF FRollsBack
<1>11. CASE FReturns(c)
  BY <1>11 DEF FReturns
<1>12. CASE FPanics(c)
  BY <1>12 DEF FPanics
<1>13. CASE FinishCanceled(c)
  BY <1>13 DEF FinishCanceled
<1>14. CASE FinishRollback(c)
  BY <1>14 DEF FinishRollback, RollbackErrors
<1>15. CASE Commit(c)
  BY <1>15 DEF Commit
<1>16. CASE CommitDone(c)
  BY <1>16 DEF CommitDone
<1>17. CASE CommitRefused(c)
  BY <1>17 DEF CommitRefused
<1>18. CASE CommitUnknown(c)
  <2>1. PICK e \in Errors : AttemptFails(c, "finish", e)
    BY <1>18 DEF CommitUnknown
  <2>2. durable' \in [Callers -> SUBSET Nat]
    <3>1. durable[c] \cup {attempt[c]} \in SUBSET Nat
      OBVIOUS
    <3> QED
      BY <1>18, <3>1 DEF CommitUnknown
  <2>3. aborted' \in [Callers -> {"yes", "no"}]
    BY <1>18 DEF CommitUnknown
  <2> QED
    BY <1>18, <2>1, <2>2, <2>3 DEF CommitUnknown
<1>19. CASE RunCallback(c)
  BY <1>19 DEF RunCallback
<1>20. CASE CallbackPanics(c)
  BY <1>20 DEF CallbackPanics
<1>21. CASE ReturnNil(c)
  BY <1>21 DEF ReturnNil
<1> QED
  BY <1>1, <1>2, <1>3, <1>4, <1>5, <1>6, <1>7, <1>8, <1>9, <1>10, <1>11, <1>12,
     <1>13, <1>14, <1>15, <1>16, <1>17, <1>18, <1>19, <1>20, <1>21
  DEF Step, Finish, Retry

\* A step opens one transaction at most, and then the pool had room.
LEMMA PoolStep ==
  ASSUME TxInv, NEW c \in Callers, Step(c)
  PROVE  Cardinality(InUse)' <= MaxOpenConns
<1> USE DEF TxInv
<1>1. CASE Begin(c)
  <2>1. InUse' = InUse \cup {c}
    BY <1>1 DEF Begin, InUse, TypeOK
  <2>2. c \notin InUse
    BY <1>1 DEF Begin, Goto, InUse, CallInv, OpenTx
  <2>3. Cardinality(InUse') = Cardinality(InUse) + 1
    BY <2>1, <2>2, InUseFinite, FS_AddElement
  <2> QED
    BY <1>1, <2>3, InUseFinite, SizesAssumption DEF Begin
<1>2. CASE ~Begin(c)
  <2>1. InUse' \subseteq InUse
    BY <1>2 DEF Step, Finish, Retry, InUse, TypeOK, CancelCtx, DriverRollsBack,
       Call, Attempt, GiveUp, BreakerDone, BeginFails, Register, FRollsBack,
       FReturns, FPanics, FinishCanceled, FinishRollback, Commit, CommitDone,
       CommitRefused, CommitUnknown, RunCallback, CallbackPanics, ReturnNil
  <2>2. Cardinality(InUse') <= Cardinality(InUse)
    BY <2>1, InUseFinite, FS_Subset
  <2>3. Cardinality(InUse') \in Nat
    BY <2>1, InUseFinite, FS_Subset, FS_CardinalityType
  <2> QED
    BY <2>2, <2>3, InUseFinite, SizesAssumption
<1> QED
  BY <1>1, <1>2

\* A step of one caller changes nothing of what CallInv says of another.
LEMMA OtherCallers ==
  ASSUME TypeOK, NEW c \in Callers, Step(c), NEW d \in Callers, d # c
  PROVE  /\ pc'[d] = pc[d] /\ attempt'[d] = attempt[d] /\ fRuns'[d] = fRuns[d]
         /\ tx'[d] = tx[d] /\ err'[d] = err[d] /\ callbacks'[d] = callbacks[d]
         /\ ran'[d] = ran[d] /\ durable'[d] = durable[d] /\ ctx'[d] = ctx[d]
<1> USE DEF TypeOK, Goto, AttemptFails
<1>1. CASE CancelCtx(c) \/ DriverRollsBack(c) \/ Call(c)
  BY <1>1 DEF CancelCtx, DriverRollsBack, Call
<1>2. CASE Retry(c)
  BY <1>2 DEF Retry, Attempt, GiveUp, BreakerDone
<1>3. CASE Begin(c) \/ BeginFails(c) \/ Register(c)
  BY <1>3 DEF Begin, BeginFails, Register
<1>4. CASE FRollsBack(c) \/ FReturns(c) \/ FPanics(c)
  BY <1>4 DEF FRollsBack, FReturns, FPanics
<1>5. CASE FinishCanceled(c) \/ FinishRollback(c) \/ CommitDone(c)
  BY <1>5 DEF FinishCanceled, FinishRollback, CommitDone
<1>6. CASE Commit(c) \/ CommitRefused(c) \/ CommitUnknown(c)
  BY <1>6 DEF Commit, CommitRefused, CommitUnknown
<1>7. CASE RunCallback(c) \/ CallbackPanics(c) \/ ReturnNil(c)
  BY <1>7 DEF RunCallback, CallbackPanics, ReturnNil
<1> QED
  BY <1>1, <1>2, <1>3, <1>4, <1>5, <1>6, <1>7 DEF Step, Finish

\* Each step of a caller keeps what CallInv says of it.
LEMMA OwnStep ==
  ASSUME TypeOK, NEW c \in Callers, CallInv(c), Step(c)
  PROVE  CallInv(c)'
<1> USE DEF TypeOK, Goto, AttemptFails, CallInv, FirstAttempt, RunsPerAttempt,
            OpenTx, CallbackPhase, Committed
<1>1. CASE CancelCtx(c)
  BY <1>1 DEF CancelCtx
<1>2. CASE DriverRollsBack(c)
  BY <1>2 DEF DriverRollsBack
<1>3. CASE Call(c)
  BY <1>3 DEF Call
<1>4. CASE Attempt(c)
  BY <1>4 DEF Attempt, ShouldTry
<1>5. CASE GiveUp(c)
  BY <1>5 DEF GiveUp, ShouldTry
<1>6. CASE BreakerDone(c)
  BY <1>6 DEF BreakerDone
<1>7. CASE Begin(c)
  BY <1>7 DEF Begin
<1>8. CASE BeginFails(c)
  BY <1>8 DEF BeginFails
<1>9. CASE Register(c)
  <2>1. callbacks'[c] = Append(callbacks[c], attempt[c])
    BY <1>9 DEF Register
  <2>2. callbacks[c] \in Seq(Nat) /\ attempt[c] \in Nat
    OBVIOUS
  <2>3. Len(callbacks'[c]) = Len(callbacks[c]) + 1
    BY <2>1, <2>2
  <2>4. ran[c] = 0 /\ pc[c] = "F"
    BY <1>9 DEF Register
  <2> QED
    BY <1>9, <2>2, <2>3, <2>4 DEF Register
<1>10. CASE FRollsBack(c)
  BY <1>10 DEF FRollsBack
<1>11. CASE FReturns(c)
  BY <1>11 DEF FReturns
<1>12. CASE FPanics(c)
  BY <1>12 DEF FPanics
<1>13. CASE FinishCanceled(c)
  BY <1>13 DEF FinishCanceled
<1>14. CASE FinishRollback(c)
  BY <1>14 DEF FinishRollback, RollbackErrors
<1>15. CASE Commit(c)
  BY <1>15 DEF Commit
<1>16. CASE CommitDone(c)
  BY <1>16 DEF CommitDone
<1>17. CASE CommitRefused(c)
  BY <1>17 DEF CommitRefused
<1>18. CASE CommitUnknown(c)
  <2>1. /\ pc[c] = "finish" /\ pc'[c] = "loop" /\ err'[c] # "nil"
        /\ tx'[c] = "over" /\ attempt[c] # 0 /\ ran[c] = 0
    BY <1>18 DEF CommitUnknown
  <2>2. \A i \in durable'[c] : i \in durable[c] \/ i = attempt[c]
    BY <1>18 DEF CommitUnknown
  <2>3. /\ attempt' = attempt /\ fRuns' = fRuns /\ ran' = ran
        /\ callbacks' = callbacks
    BY <1>18 DEF CommitUnknown
  <2> QED
    BY <2>1, <2>2, <2>3
<1>19. CASE RunCallback(c)
  BY <1>19 DEF RunCallback
<1>20. CASE CallbackPanics(c)
  BY <1>20 DEF CallbackPanics
<1>21. CASE ReturnNil(c)
  BY <1>21 DEF ReturnNil
<1> QED
  BY <1>1, <1>2, <1>3, <1>4, <1>5, <1>6, <1>7, <1>8, <1>9, <1>10, <1>11, <1>12,
     <1>13, <1>14, <1>15, <1>16, <1>17, <1>18, <1>19, <1>20, <1>21
  DEF Step, Finish, Retry

\* Every step keeps the invariant.
LEMMA TxStep ==
  ASSUME TxInv, [Next]_vars
  PROVE  TxInv'
<1>1. ASSUME NEW c \in Callers, Step(c)
      PROVE  TxInv'
  <2>1. TypeOK' /\ Cardinality(InUse)' <= MaxOpenConns
    BY <1>1, TypeStep, PoolStep DEF TxInv
  <2>2. ASSUME NEW d \in Callers
        PROVE  CallInv(d)'
    <3>1. CASE d = c
      BY <1>1, <3>1, OwnStep DEF TxInv
    <3>2. CASE d # c
      <4>1. CallInv(d)
        BY DEF TxInv
      <4>2. /\ pc'[d] = pc[d] /\ attempt'[d] = attempt[d]
            /\ fRuns'[d] = fRuns[d] /\ tx'[d] = tx[d] /\ err'[d] = err[d]
            /\ callbacks'[d] = callbacks[d] /\ ran'[d] = ran[d]
            /\ durable'[d] = durable[d]
        BY <1>1, <3>2, OtherCallers DEF TxInv
      <4> QED
        BY <4>1, <4>2 DEF CallInv, FirstAttempt, RunsPerAttempt, OpenTx,
                          CallbackPhase, Committed
    <3> QED
      BY <3>1, <3>2
  <2> QED
    BY <2>1, <2>2 DEF TxInv
<1>2. CASE UNCHANGED vars
  BY <1>2 DEF TxInv, TypeOK, InUse, CallInv, FirstAttempt, RunsPerAttempt,
              OpenTx, CallbackPhase, Committed, vars
<1> QED
  BY <1>1, <1>2 DEF Next

\* Initially nobody has called WithTx.
LEMMA TxInit == Init => TxInv
<1> SUFFICES ASSUME Init
             PROVE  TxInv
  OBVIOUS
<1>1. InUse = {}
  BY DEF Init, InUse
<1>2. Cardinality(InUse) <= MaxOpenConns
  BY <1>1, FS_EmptySet, SizesAssumption
<1>3. TypeOK
  BY DEF Init, TypeOK, PCs, Errors
<1>4. \A c \in Callers : CallInv(c)
  BY DEF Init, CallInv, FirstAttempt, RunsPerAttempt, OpenTx, CallbackPhase,
         Committed
<1> QED
  BY <1>2, <1>3, <1>4 DEF TxInv

\* The invariant of WithTx holds in every behaviour.
THEOREM TxInvariant == Spec => []TxInv
BY TxInit, TxStep, PTL DEF Spec

\* The variables of WithTx keep their types.
THEOREM TxTypeCorrect == Spec => []TypeOK
<1>1. TxInv => TypeOK
  BY DEF TxInv
<1> QED
  BY <1>1, TxInvariant, PTL

\* rdb.go, WithTx: a nil result means a durable transaction all of whose
\* callbacks have been called.
THEOREM NilResultIsCommit == Spec => []NilMeansCommitted
<1>1. TxInv => NilMeansCommitted
  BY DEF TxInv, CallInv, CallbackPhase, Committed, NilMeansCommitted
<1> QED
  BY <1>1, TxInvariant, PTL

\* rdb.go:277: no callback is called for a transaction that is not durable.
THEOREM CallbacksFollowCommit == Spec => []CallbacksAfterCommitOnly
<1>1. TxInv => CallbacksAfterCommitOnly
  BY DEF TxInv, CallInv, CallbackPhase, Committed, CallbacksAfterCommitOnly
<1> QED
  BY <1>1, TxInvariant, PTL

\* rdb.go:152-172: without FIsIdempotent, F runs once at most.
THEOREM RunsOnceUnlessIdempotent == Spec => []NotIdempotentRunsOnce
<1>1. TxInv => NotIdempotentRunsOnce
  <2> SUFFICES ASSUME TxInv, NEW c \in Callers \ Idempotent
               PROVE  fRuns[c] <= 1 /\ durable[c] \subseteq {1}
    BY DEF NotIdempotentRunsOnce
  <2>1. RunsPerAttempt(c) /\ attempt[c] \in Nat /\ fRuns[c] \in Nat
    BY DEF TxInv, CallInv, TypeOK
  <2> QED
    BY <2>1 DEF RunsPerAttempt
<1> QED
  BY <1>1, TxInvariant, PTL

\* The pool is never overdrawn, and only a cancellation error can leave a
\* connection behind when WithTx returns.
THEOREM PoolAccounting == Spec => []ConnectionsGivenBack
<1>1. TxInv => ConnectionsGivenBack
  BY DEF TxInv, CallInv, OpenTx, ConnectionsGivenBack
<1> QED
  BY <1>1, TxInvariant, PTL

\* retry.Do: attempts of one call do not overlap and need a live context.
THEOREM AttemptsAreSequential == Spec => AttemptsDoNotOverlap
<1>1. ASSUME TxInv, [Next]_vars
      PROVE  [\A c \in Callers :
                attempt'[c] # attempt[c] => ctx[c] = "live" /\ tx[c] # "open"]_vars
  <2> SUFFICES ASSUME Next, NEW d \in Callers, attempt'[d] # attempt[d]
               PROVE  ctx[d] = "live" /\ tx[d] # "open"
    BY <1>1
  <2>1. PICK c \in Callers : Step(c)
    BY DEF Next
  <2>2. c = d
    BY <1>1, <2>1, OtherCallers DEF TxInv
  <2>3. Attempt(d)
    BY <2>1, <2>2 DEF Step, Finish, Retry, CancelCtx, DriverRollsBack, Call,
       GiveUp, BreakerDone, Begin, BeginFails, Register, FRollsBack, FReturns,
       FPanics, FinishCanceled, FinishRollback, Commit, CommitDone,
       CommitRefused, CommitUnknown, RunCallback, CallbackPanics, ReturnNil
  <2>4. FirstAttempt(d) /\ OpenTx(d)
    BY <1>1 DEF TxInv, CallInv
  <2> QED
    BY <2>3, <2>4 DEF Attempt, Goto, ShouldTry, FirstAttempt, OpenTx
<1> QED
  BY <1>1, TxInvariant, PTL DEF Spec, AttemptsDoNotOverlap
=============================================================================
