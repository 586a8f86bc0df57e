------------------------- MODULE InProcessJobProofs -------------------------
(***************************************************************************)
(* The latch of an InProcessJob, for every number of executors and of      *)
(* slots.  The inductive invariant is LatchInv: the counter equals the     *)
(* number of executions that hold a slot, and that number is bounded by    *)
(* the capacity.  The bound alone is not inductive: a release could drive  *)
(* the counter below the holders; the equation is what excludes it.        *)
(***************************************************************************)
EXTENDS InProcessJob, FiniteSetTheorems, TLAPS

\* The strengthening under which every property below is an invariant.
LatchInv ==
  /\ TypeOK
  /\ LatchCountsHolders
  /\ runningCount <= MaxRunningCount
  /\ NeverNonPositive

\* The executions that hold a slot are finitely many: at any time the counter
\* of job.go has a number of executions to be compared with.
LEMMA HoldersFinite ==
  /\ IsFiniteSet(Holders)
  /\ Cardinality(Holders) \in Nat
<1>1. Holders \subseteq Executors
  BY DEF Holders
<1>2. IsFiniteSet(Holders)
  BY <1>1, ExecutorsAssumption, FS_Subset
<1> QED
  BY <1>2, FS_CardinalityType

\* Taking the latch adds exactly one holder.
LEMMA TakeLatchHolders ==
  ASSUME TypeOK, NEW e \in Executors, TakeLatch(e)
  PROVE  /\ e \notin Holders
         /\ Holders' = Holders \cup {e}
         /\ Cardinality(Holders') = Cardinality(Holders) + 1
<1>1. e \notin Holders /\ Holders' = Holders \cup {e}
  BY DEF TakeLatch, Goto, Holders, TypeOK, PCs
<1> QED
  BY <1>1, HoldersFinite, FS_AddElement

\* Releasing removes exactly one holder, so the counter is positive before.
LEMMA ReleaseHolders ==
  ASSUME TypeOK, NEW e \in Executors, Release(e)
  PROVE  /\ e \in Holders
         /\ Holders' = Holders \ {e}
         /\ Cardinality(Holders') = Cardinality(Holders) - 1
         /\ Cardinality(Holders) > 0
<1>1. e \in Holders /\ Holders' = Holders \ {e}
  BY DEF Release, Goto, Holders, TypeOK, PCs
<1>2. Cardinality(Holders') = Cardinality(Holders) - 1
  BY <1>1, HoldersFinite, FS_RemoveElement
<1>3. Cardinality(Holders) # 0
  BY <1>1, HoldersFinite, FS_EmptySet
<1> QED
  BY <1>1, <1>2, <1>3, HoldersFinite

\* Every other step leaves the holders alone.
LEMMA OtherStepHolders ==
  ASSUME TypeOK, NEW e \in Executors,
         \/ Skip(e)
         \/ JobStarted(e)
         \/ ExecReturns(e)
         \/ ExecPanics(e)
         \/ Finished(e)
  PROVE  /\ Holders' = Holders
         /\ runningCount' = runningCount
         /\ nonPositive' = nonPositive
BY DEF Skip, JobStarted, ExecReturns, ExecPanics, Finished, Goto, Holders,
       TypeOK, PCs, metrics

\* The types are kept by every step of every execution of job.go.
LEMMA TypeStep ==
  ASSUME TypeOK, [Next]_vars
  PROVE  TypeOK'
<1> USE DEF TypeOK, PCs, Statuses
<1>1. ASSUME NEW e \in Executors, TakeLatch(e)
      PROVE  TypeOK'
  BY <1>1 DEF TakeLatch, Goto, metrics
<1>2. ASSUME NEW e \in Executors, Skip(e)
      PROVE  TypeOK'
  BY <1>2 DEF Skip
<1>3. ASSUME NEW e \in Executors, JobStarted(e)
      PROVE  TypeOK'
  BY <1>3 DEF JobStarted, Goto
<1>4. ASSUME NEW e \in Executors, ExecReturns(e)
      PROVE  TypeOK'
  BY <1>4 DEF ExecReturns, Goto, metrics
<1>5. ASSUME NEW e \in Executors, ExecPanics(e)
      PROVE  TypeOK'
  BY <1>5 DEF ExecPanics, Goto
<1>6. ASSUME NEW e \in Executors, Finished(e)
      PROVE  TypeOK'
  BY <1>6 DEF Finished, Goto
<1>7. ASSUME NEW e \in Executors, Release(e)
      PROVE  TypeOK'
  BY <1>7 DEF Release, Goto, metrics
<1>8. CASE UNCHANGED vars
  BY <1>8 DEF vars
<1> QED
  BY <1>1, <1>2, <1>3, <1>4, <1>5, <1>6, <1>7, <1>8 DEF Next, Step

\* The latch invariant is kept by every step of every execution.
LEMMA LatchStep ==
  ASSUME LatchInv, [Next]_vars
  PROVE  LatchInv'
<1> USE DEF LatchInv, LatchCountsHolders, NeverNonPositive
<1>t. TypeOK'
  BY TypeStep
<1>1. ASSUME NEW e \in Executors, TakeLatch(e)
      PROVE  LatchInv'
  <2>1. runningCount' = runningCount + 1 /\ runningCount < MaxRunningCount
    BY <1>1 DEF TakeLatch
  <2>2. nonPositive' = nonPositive
    BY <1>1 DEF TakeLatch
  <2> QED
    BY <1>1, <1>t, <2>1, <2>2, TakeLatchHolders, MaxRunningCountAssumption
    DEF TypeOK
<1>2. ASSUME NEW e \in Executors, Release(e)
      PROVE  LatchInv'
  <2>1. runningCount > 0
    BY <1>2, ReleaseHolders
  <2>2. runningCount' = runningCount - 1 /\ nonPositive' = nonPositive
    BY <1>2, <2>1 DEF Release, TypeOK
  <2> QED
    BY <1>2, <1>t, <2>1, <2>2, ReleaseHolders, MaxRunningCountAssumption
    DEF TypeOK
<1>3. ASSUME NEW e \in Executors,
             \/ Skip(e)
             \/ JobStarted(e)
             \/ ExecReturns(e)
             \/ ExecPanics(e)
             \/ Finished(e)
      PROVE  LatchInv'
  BY <1>3, <1>t, OtherStepHolders
<1>4. CASE UNCHANGED vars
  BY <1>4, <1>t DEF vars, Holders
<1> QED
  BY <1>1, <1>2, <1>3, <1>4 DEF Next, Step

\* Initially no execution holds a slot and the counter is zero.
LEMMA LatchInit == Init => LatchInv
<1> SUFFICES ASSUME Init
             PROVE  LatchInv
  OBVIOUS
<1>1. Holders = {}
  BY DEF Init, Holders
<1>2. Cardinality(Holders) = 0
  BY <1>1, FS_EmptySet
<1> QED
  BY <1>2, MaxRunningCountAssumption
  DEF Init, LatchInv, TypeOK, LatchCountsHolders, NeverNonPositive, PCs, Statuses

\* In every behaviour of the job, the latch invariant holds.
THEOREM LatchInvariant == Spec => []LatchInv
BY LatchInit, LatchStep, PTL DEF Spec

\* job.go, Execute: the variables keep their types.
THEOREM TypeCorrect == Spec => []TypeOK
<1>1. LatchInv => TypeOK
  BY DEF LatchInv
<1> QED
  BY <1>1, LatchInvariant, PTL

\* job.go, Execute: runningCount is the number of executions between the
\* latch and its release, whatever the outcome of the job function.
THEOREM CounterExact == Spec => []LatchCountsHolders
<1>1. LatchInv => LatchCountsHolders
  BY DEF LatchInv
<1> QED
  BY <1>1, LatchInvariant, PTL

\* job.go: no more executions run the job function than there are slots.
THEOREM BoundedExecutions == Spec => []AtMostMaxExecuting
<1>1. LatchInv => AtMostMaxExecuting
  <2> SUFFICES ASSUME LatchInv
               PROVE  AtMostMaxExecuting
    OBVIOUS
  <2>1. Executing \subseteq Holders
    BY DEF Executing, Holders
  <2>2. Cardinality(Executing) <= Cardinality(Holders)
    BY <2>1, HoldersFinite, FS_Subset
  <2>3. Cardinality(Executing) \in Nat
    BY <2>1, HoldersFinite, FS_Subset, FS_CardinalityType
  <2> QED
    BY <2>2, <2>3, HoldersFinite, MaxRunningCountAssumption
    DEF LatchInv, LatchCountsHolders, AtMostMaxExecuting
<1> QED
  BY <1>1, LatchInvariant, PTL

\* job.go:89: the branch commented "this should never happen" is dead.
THEOREM DecrementNeverAtZero == Spec => []NeverNonPositive
<1>1. LatchInv => NeverNonPositive
  BY DEF LatchInv
<1> QED
  BY <1>1, LatchInvariant, PTL

\* job.go, Execute: a call is skipped only when all the slots are held, so
\* neither an error nor a panic of the job function uses up a slot for good.
THEOREM SkipsAreJustified == Spec => SkippedOnlyWhenFull
<1>1. ASSUME LatchInv, [Next]_vars
      PROVE  [skips' # skips => Cardinality(Holders) = MaxRunningCount]_vars
  <2> SUFFICES ASSUME Next, skips' # skips
               PROVE  Cardinality(Holders) = MaxRunningCount
    BY <1>1
  <2>1. PICK e \in Executors : Step(e)
    BY DEF Next
  <2>2. Skip(e)
    BY <2>1 DEF Step, TakeLatch, JobStarted, ExecReturns, ExecPanics,
                Finished, Release, metrics
  <2>3. runningCount >= MaxRunningCount
    BY <2>2 DEF Skip
  <2> QED
    BY <1>1, <2>3, MaxRunningCountAssumption
    DEF LatchInv, LatchCountsHolders, TypeOK
<1> QED
  BY <1>1, LatchInvariant, PTL DEF Spec, SkippedOnlyWhenFull

-----------------------------------------------------------------------------
\* collector.go: the executions that JobStarted has counted and finished(err)
\* has not are finitely many.
LEMMA CountedFinite ==
  /\ IsFiniteSet(Counted)
  /\ Cardinality(Counted) \in Nat
<1>1. Counted \subseteq Executors
  BY DEF Counted
<1>2. IsFiniteSet(Counted)
  BY <1>1, ExecutorsAssumption, FS_Subset
<1> QED
  BY <1>2, FS_CardinalityType

\* JobStarted adds an execution to them, a panic and finished(err) take one
\* away, and nothing else changes them.
LEMMA CountedSteps ==
  ASSUME TypeOK, NEW e \in Executors
  PROVE  /\ JobStarted(e) => Cardinality(Counted') = Cardinality(Counted) + 1
         /\ ExecPanics(e) \/ Finished(e) => Cardinality(Counted') = Cardinality(Counted) - 1
         /\ TakeLatch(e) \/ Skip(e) \/ ExecReturns(e) \/ Release(e) => Counted' = Counted
<1>1. JobStarted(e) => e \notin Counted /\ Counted' = Counted \cup {e}
  BY DEF JobStarted, Goto, Counted, TypeOK, PCs
<1>2. ExecPanics(e) \/ Finished(e) => e \in Counted /\ Counted' = Counted \ {e}
  BY DEF ExecPanics, Finished, Goto, Counted, TypeOK, PCs
<1>3. TakeLatch(e) \/ Skip(e) \/ ExecReturns(e) \/ Release(e) => Counted' = Counted
  BY DEF TakeLatch, Skip, ExecReturns, Release, Goto, Counted, TypeOK, PCs
<1> QED
  BY <1>1, <1>2, <1>3, CountedFinite, FS_AddElement, FS_RemoveElement

\* collector.go: finished(err) records one status.
LEMMA StatusSteps ==
  ASSUME TypeOK, NEW e \in Executors, Finished(e)
  PROVE  status'["success"] + status'["timeout"] + status'["canceled"] + status'["unhandled"]
           = status["success"] + status["timeout"] + status["canceled"] + status["unhandled"] + 1
<1>1. outcome[e] \in Statuses /\ status \in [Statuses -> Nat]
  BY DEF TypeOK
<1>2. status' = [status EXCEPT ![outcome[e]] = @ + 1]
  BY DEF Finished
<1>3. CASE outcome[e] = "success"
  BY <1>1, <1>2, <1>3 DEF Statuses
<1>4. CASE outcome[e] = "timeout"
  BY <1>1, <1>2, <1>4 DEF Statuses
<1>5. CASE outcome[e] = "canceled"
  BY <1>1, <1>2, <1>5 DEF Statuses
<1>6. CASE outcome[e] = "unhandled"
  BY <1>1, <1>2, <1>6 DEF Statuses
<1> QED
  BY <1>1, <1>3, <1>4, <1>5, <1>6 DEF Statuses

\* What the steps of collector.go keep: every run that was started is in
\* progress, has its status or panicked, and the gauge has lost the panics.
Books ==
  /\ runs = Cardinality(Counted) + panics
            + status["success"] + status["timeout"]
            + status["canceled"] + status["unhandled"]
  /\ inProgress = Cardinality(Counted) + panics

\* Every step of an execution keeps the books of collector.go in balance.
LEMMA BooksStep ==
  ASSUME TypeOK, Books, [Next]_vars
  PROVE  Books'
<1>1. /\ runs \in Nat /\ panics \in Nat /\ inProgress \in Int
      /\ status["success"] \in Nat /\ status["timeout"] \in Nat
      /\ status["canceled"] \in Nat /\ status["unhandled"] \in Nat
  BY DEF TypeOK, Statuses
<1>2. Cardinality(Counted) \in Nat
  BY CountedFinite
<1> USE DEF Books
<1>3. ASSUME NEW e \in Executors, JobStarted(e)
      PROVE  Books'
  BY <1>1, <1>2, <1>3, CountedSteps DEF JobStarted
<1>4. ASSUME NEW e \in Executors, ExecPanics(e)
      PROVE  Books'
  BY <1>1, <1>2, <1>4, CountedSteps DEF ExecPanics
<1>5. ASSUME NEW e \in Executors, Finished(e)
      PROVE  Books'
  <2>1. /\ runs' = runs /\ panics' = panics /\ inProgress' = inProgress - 1
    BY <1>5 DEF Finished
  <2>2. Cardinality(Counted') = Cardinality(Counted) - 1
    BY <1>5, CountedSteps
  <2>3. status'["success"] + status'["timeout"] + status'["canceled"] + status'["unhandled"]
          = status["success"] + status["timeout"] + status["canceled"] + status["unhandled"] + 1
    BY <1>5, StatusSteps
  <2>4. /\ status'["success"] \in Nat /\ status'["timeout"] \in Nat
        /\ status'["canceled"] \in Nat /\ status'["unhandled"] \in Nat
    BY TypeStep DEF TypeOK, Statuses
  <2> QED
    BY <1>1, <1>2, <2>1, <2>2, <2>3, <2>4
<1>6. ASSUME NEW e \in Executors, TakeLatch(e) \/ Skip(e) \/ ExecReturns(e) \/ Release(e)
      PROVE  Books'
  BY <1>6, CountedSteps DEF TakeLatch, Skip, ExecReturns, Release, metrics
<1>7. CASE UNCHANGED vars
  BY <1>7 DEF vars, Counted
<1> QED
  BY <1>3, <1>4, <1>5, <1>6, <1>7 DEF Next, Step

\* The books are in balance in every behaviour.
LEMMA BooksAlways == Spec => []Books
<1>1. Init => Books
  <2> SUFFICES ASSUME Init
               PROVE  Books
    OBVIOUS
  <2>1. Counted = {}
    BY DEF Init, Counted
  <2>2. Cardinality(Counted) = 0
    BY <2>1, FS_EmptySet
  <2> QED
    BY <2>2 DEF Init, Books, Statuses
<1>2. TypeOK /\ Books /\ [Next]_vars => Books'
  BY BooksStep
<1> QED
  BY <1>1, <1>2, TypeCorrect, PTL DEF Spec

\* collector.go: the gauge never reads less than the executions in progress,
\* and without a panic it is their number and every run started is accounted for.
THEOREM BooksBalance == Spec => []MetricsBalance
<1>1. TypeOK /\ Books => MetricsBalance
  <2> SUFFICES ASSUME TypeOK, Books
               PROVE  MetricsBalance
    OBVIOUS
  <2>1. panics \in Nat /\ Cardinality(Counted) \in Nat
    BY CountedFinite DEF TypeOK
  <2>2. /\ status["success"] \in Nat /\ status["timeout"] \in Nat
        /\ status["canceled"] \in Nat /\ status["unhandled"] \in Nat
    BY DEF TypeOK, Statuses
  <2> QED
    BY <2>1, <2>2 DEF Books, MetricsBalance
<1> QED
  BY <1>1, BooksAlways, TypeCorrect, PTL

\* The mutex-protected counter of job.go implements the slots of JobSlots.
THEOREM CounterImplementsSlots == Spec => ImplementsSlots
<1>1. Init => Slots!Init
  BY DEF Init, Slots!Init, Holders
<1>2. ASSUME LatchInv, [Next]_vars
      PROVE  [Slots!Next]_Holders
  <2>1. ASSUME NEW e \in Executors, TakeLatch(e)
        PROVE  Slots!Next
    <3>0. e \notin Holders /\ Holders' = Holders \cup {e}
      BY <1>2, <2>1, TakeLatchHolders DEF LatchInv
    <3>1. Slots!Admit(e)
      BY <1>2, <2>1, <3>0
      DEF Slots!Admit, LatchInv, LatchCountsHolders, TakeLatch,
          Cardinality, Slots!Cardinality
    <3> QED
      BY <3>1 DEF Slots!Next
  <2>2. ASSUME NEW e \in Executors, Release(e)
        PROVE  Slots!Next
    <3>1. Slots!Leave(e)
      BY <1>2, <2>2, ReleaseHolders DEF Slots!Leave, LatchInv
    <3> QED
      BY <3>1 DEF Slots!Next
  <2>3. ASSUME NEW e \in Executors,
               \/ Skip(e)
               \/ JobStarted(e)
               \/ ExecReturns(e)
               \/ ExecPanics(e)
               \/ Finished(e)
        PROVE  Holders' = Holders
    BY <1>2, <2>3, OtherStepHolders DEF LatchInv
  <2>4. CASE UNCHANGED vars
    BY <2>4 DEF vars, Holders
  <2> QED
    BY <1>2, <2>1, <2>2, <2>3, <2>4 DEF Next, Step
<1> QED
  BY <1>1, <1>2, LatchInvariant, PTL DEF Spec, ImplementsSlots, Slots!Spec
=============================================================================
