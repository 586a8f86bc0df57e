---------------------------- MODULE ChatBotProofs ----------------------------
(***************************************************************************)
(* What a load that reports success has stored, what /explain explains,    *)
(* and what the searches of a request find, for any export, number of      *)
(* loads, messages and ranges.                                             *)
(*                                                                         *)
(* What findThreads computes plays no part in what a load stores: DOMAIN   *)
(* Threads is any set of threads.  That they are the threads of the export *)
(* is shown for the loop of findThreads, message by message.               *)
(***************************************************************************)
EXTENDS ChatBot, ParallelSearch, FiniteSetTheorems, NaturalsInduction, WellFoundedInduction, TLAPS

DumpRecords ==
  [pc : {"off", "idle", "storing", "nil", "err", "killed"}, left : SUBSET DOMAIN Threads,
   failed : BOOLEAN]

\* A load that has not failed has stored what it has not got left.
DumpInv ==
  /\ dump \in [Dumps -> DumpRecords]
  /\ rows \in Seq(DOMAIN Threads)
  /\ \A d \in Dumps :
       (dump[d].pc = "storing" /\ ~dump[d].failed) \/ dump[d].pc = "nil" =>
         \A k \in DOMAIN Threads : k \in dump[d].left \/ k \in Range(rows)
  /\ \A d \in Dumps : dump[d].pc = "nil" => dump[d].left = {}

\* Appending a row adds the thread it holds.
LEMMA RowAdded ==
  ASSUME NEW T, NEW s \in Seq(T), NEW k \in T
  PROVE  /\ Append(s, k) \in Seq(T)
         /\ k \in Range(Append(s, k))
         /\ \A x \in Range(s) : x \in Range(Append(s, k))
<1> DEFINE t == Append(s, k)
<1>1. /\ t \in Seq(T) /\ Len(t) = Len(s) + 1 /\ t[Len(s) + 1] = k
      /\ \A i \in 1 .. Len(s) : t[i] = s[i]
      /\ DOMAIN s = 1 .. Len(s) /\ DOMAIN t = 1 .. Len(t) /\ Len(s) \in Nat
  OBVIOUS
<1> HIDE DEF t
<1>2. k \in Range(t)
  BY <1>1 DEF Range
<1>3. ASSUME NEW x \in Range(s)
      PROVE  x \in Range(t)
  <2>1. PICK i \in 1 .. Len(s) : s[i] = x
    BY <1>1, <1>3 DEF Range
  <2> QED
    BY <1>1, <2>1 DEF Range
<1> QED
  BY <1>1, <1>2, <1>3 DEF t

\* One load changes, and no row is taken away.
LEMMA LoadMoves ==
  ASSUME DumpInv, NEW d \in Dumps, NEW r \in DumpRecords, dump' = [dump EXCEPT ![d] = r],
         rows' \in Seq(DOMAIN Threads), \A x \in Range(rows) : x \in Range(rows'),
         r.pc = "nil" => r.left = {},
         (r.pc = "storing" /\ ~r.failed) \/ r.pc = "nil" =>
            \A k \in DOMAIN Threads : k \in r.left \/ k \in Range(rows')
  PROVE  DumpInv'
<1>1. dump' \in [Dumps -> DumpRecords] /\ dump'[d] = r
      /\ \A e \in Dumps : e # d => dump'[e] = dump[e]
  BY DEF DumpInv
<1>2. ASSUME NEW e \in Dumps
      PROVE  /\ dump'[e].pc = "nil" => dump'[e].left = {}
             /\ (dump'[e].pc = "storing" /\ ~dump'[e].failed) \/ dump'[e].pc = "nil" =>
                  \A k \in DOMAIN Threads : k \in dump'[e].left \/ k \in Range(rows')
  <2>1. CASE e = d
    BY <1>1, <2>1
  <2>2. CASE e # d
    BY <1>1, <2>2 DEF DumpInv
  <2> QED
    BY <2>1, <2>2
<1> QED
  BY <1>1, <1>2 DEF DumpInv

LEMMA DumpKeeps ==
  ASSUME DumpInv, NEW d \in Dumps,
         \/ DumpBegins(d) \/ DumpReturns(d) \/ DumpKilled(d)
         \/ \E k \in DOMAIN Threads : \/ CreateChatThreadFails(d, k)
                                      \/ \E answered \in BOOLEAN : CreateChatThread(d, k, answered)
  PROVE  DumpInv'
<1>1. /\ dump \in [Dumps -> DumpRecords] /\ rows \in Seq(DOMAIN Threads) /\ dump[d] \in DumpRecords
      /\ (dump[d].pc = "storing" /\ ~dump[d].failed) =>
           \A k \in DOMAIN Threads : k \in dump[d].left \/ k \in Range(rows)
  BY DEF DumpInv
<1>2. CASE DumpBegins(d)
  <2> DEFINE r == [dump[d] EXCEPT !.pc = "storing", !.left = DOMAIN Threads]
  <2>1. dump' = [dump EXCEPT ![d] = r] /\ rows' = rows
    BY <1>2 DEF DumpBegins
  <2>2. r \in DumpRecords /\ r.left = DOMAIN Threads /\ r.pc = "storing"
    BY <1>1 DEF DumpRecords
  <2> HIDE DEF r
  <2> QED
    BY <1>1, <2>1, <2>2, LoadMoves
<1>3. CASE DumpReturns(d)
  <2> DEFINE pc0 == IF dump[d].failed THEN "err" ELSE "nil"
             r == [dump[d] EXCEPT !.pc = pc0]
  <2>1. dump' = [dump EXCEPT ![d] = r] /\ rows' = rows
    BY <1>3 DEF DumpReturns
  <2>2. pc0 \in {"err", "nil"} /\ (pc0 = "nil" => ~dump[d].failed)
    OBVIOUS
  <2> HIDE DEF pc0
  <2>3. r \in DumpRecords /\ r.left = dump[d].left /\ r.pc = pc0
    BY <1>1, <2>2 DEF DumpRecords
  <2>4. dump[d].pc = "storing" /\ dump[d].left = {}
    BY <1>3 DEF DumpReturns
  <2> HIDE DEF r
  <2> QED
    BY <1>1, <2>1, <2>2, <2>3, <2>4, LoadMoves
<1>4. CASE DumpKilled(d)
  <2> DEFINE r == [dump[d] EXCEPT !.pc = "killed", !.left = {}]
  <2>1. dump' = [dump EXCEPT ![d] = r] /\ rows' = rows
    BY <1>4 DEF DumpKilled
  <2>2. r \in DumpRecords /\ r.pc = "killed"
    BY <1>1 DEF DumpRecords
  <2> HIDE DEF r
  <2> QED
    BY <1>1, <2>1, <2>2, LoadMoves
<1>5. ASSUME NEW k \in DOMAIN Threads, CreateChatThreadFails(d, k)
      PROVE  DumpInv'
  <2> DEFINE left0 == dump[d].left \ {k}
             r == [dump[d] EXCEPT !.left = left0, !.failed = TRUE]
  <2>1. dump' = [dump EXCEPT ![d] = r] /\ rows' = rows /\ dump[d].pc = "storing"
    BY <1>5 DEF CreateChatThreadFails
  <2>2. left0 \in SUBSET DOMAIN Threads
    BY <1>1 DEF DumpRecords
  <2> HIDE DEF left0
  <2>3. r \in DumpRecords /\ r.pc = "storing" /\ r.failed
    BY <1>1, <2>1, <2>2 DEF DumpRecords
  <2> HIDE DEF r
  <2> QED
    BY <1>1, <2>1, <2>3, LoadMoves
<1>6. ASSUME NEW k \in DOMAIN Threads, NEW answered \in BOOLEAN, CreateChatThread(d, k, answered)
      PROVE  DumpInv'
  <2> DEFINE left0 == IF answered THEN dump[d].left \ {k} ELSE dump[d].left
             r == [dump[d] EXCEPT !.left = left0]
  <2>1. dump' = [dump EXCEPT ![d] = r] /\ rows' = Append(rows, k) /\ dump[d].pc = "storing"
    BY <1>6 DEF CreateChatThread
  <2>2. left0 \in SUBSET DOMAIN Threads /\ \A x \in dump[d].left : x = k \/ x \in left0
    BY <1>1 DEF DumpRecords
  <2> HIDE DEF left0
  <2>3. /\ r \in DumpRecords /\ r.pc = "storing" /\ r.failed = dump[d].failed
        /\ r.left = left0
    BY <1>1, <2>1, <2>2 DEF DumpRecords
  <2>4. /\ rows' \in Seq(DOMAIN Threads) /\ k \in Range(rows')
        /\ \A x \in Range(rows) : x \in Range(rows')
    <3> HIDE DEF r
    <3>1. k \in DOMAIN Threads /\ rows \in Seq(DOMAIN Threads) /\ rows' = Append(rows, k)
      BY <1>1, <2>1
    <3> QED
      BY <3>1, RowAdded
  <2> HIDE DEF r
  <2>5. r.pc = "storing" /\ ~r.failed =>
          \A x \in DOMAIN Threads : x \in r.left \/ x \in Range(rows')
    BY <1>1, <2>1, <2>2, <2>3, <2>4
  <2> QED
    BY <2>1, <2>3, <2>4, <2>5, LoadMoves
<1> QED
  BY <1>2, <1>3, <1>4, <1>5, <1>6

\* The generation of embeddings changes neither rows nor what the handlers have.
LEMMA GenerateLeaves ==
  ASSUME GenerateBegins \/ FetchFails \/ Generate \/ \E r \in gen.batch : UpsertFails(r)
  PROVE  UNCHANGED <<dump, rows>> /\ UNCHANGED telegram
<1>1. CASE GenerateBegins \/ FetchFails
  BY <1>1, Zenon DEF GenerateBegins, FetchFails
<1>2. CASE Generate
  <2>1. CASE FetchChatThreadToGenerateEmbedding
    BY <2>1, Zenon DEF FetchChatThreadToGenerateEmbedding
  <2>2. CASE NextRound
    BY <2>2, Zenon DEF NextRound
  <2>3. ASSUME NEW r \in gen.batch, EmbedNothing(r) \/ UpsertEmbedding(r)
        PROVE  UNCHANGED <<dump, rows>> /\ UNCHANGED telegram
    BY <2>3, Zenon DEF EmbedNothing, UpsertEmbedding
  <2> QED
    BY <1>2, <2>1, <2>2, <2>3, Zenon DEF Generate
<1>3. ASSUME NEW r \in gen.batch, UpsertFails(r)
      PROVE  UNCHANGED <<dump, rows>> /\ UNCHANGED telegram
  BY <1>3, Zenon DEF UpsertFails
<1> QED
  BY <1>1, <1>2, <1>3, Zenon

\* DumpChatHistory: a load that returns nil has stored every thread, whatever
\* other loads, lost answers and failed statements there were.
THEOREM LoadIsComplete == Spec => []DumpIsComplete
<1>1. Init => DumpInv
  <2> SUFFICES ASSUME Init
               PROVE  DumpInv
    OBVIOUS
  <2>1. PICK s \in Scenarios :
          /\ dump = [d \in Dumps |-> [pc |-> IF d \in s.dumps THEN "idle" ELSE "off",
                                      left |-> {}, failed |-> FALSE]]
          /\ rows = s.rows
    BY DEF Init
  <2>2. rows \in Seq(DOMAIN Threads)
    BY <2>1, RowsAssumption
  <2>3. dump \in [Dumps -> DumpRecords]
    BY <2>1 DEF DumpRecords
  <2>4. \A d \in Dumps : dump[d].pc \in {"idle", "off"}
    BY <2>1
  <2> QED
    BY <2>2, <2>3, <2>4 DEF DumpInv
<1>2. DumpInv /\ [Next]_vars => DumpInv'
  <2> SUFFICES ASSUME DumpInv, [Next]_vars
               PROVE  DumpInv'
    OBVIOUS
  <2>1. CASE UNCHANGED <<dump, rows>>
    BY <2>1 DEF DumpInv
  <2>2. CASE \E d \in Dumps :
               \/ DumpBegins(d) \/ DumpReturns(d) \/ DumpKilled(d)
               \/ \E k \in DOMAIN Threads :
                    \/ CreateChatThreadFails(d, k)
                    \/ \E answered \in BOOLEAN : CreateChatThread(d, k, answered)
    BY <2>2, DumpKeeps
  <2>3. CASE GenerateBegins \/ FetchFails \/ Generate \/ \E r \in gen.batch : UpsertFails(r)
    BY <2>1, <2>3, GenerateLeaves
  <2>4. CASE \E m \in Messages :
               HandlePlain(m) \/ ExplainMessage(m) \/ Ask(m)
                 \/ CompletionUncached(m) \/ CompletionCached(m) \/ Reply(m)
    BY <2>1, <2>4 DEF HandlePlain, ExplainMessage, Ask, CompletionUncached, CompletionCached, Reply,
                      storage
  <2>5. CASE \E s \in DOMAIN cache : Expire(s)
    BY <2>1, <2>5 DEF Expire, storage
  <2>6. CASE UNCHANGED vars
    BY <2>1, <2>6 DEF vars, storage
  <2> QED
    BY <2>2, <2>3, <2>4, <2>5, <2>6 DEF Next
<1>3. DumpInv => DumpIsComplete
  BY DEF DumpInv, DumpIsComplete
<1> QED
  BY <1>1, <1>2, <1>3, PTL DEF Spec
-----------------------------------------------------------------------------
\* The generation of embeddings.

GenInv ==
  /\ DOMAIN gen = {"pc", "batch", "failed", "since"}
  /\ rows \in Seq(DOMAIN Threads)
  /\ gen.since \in Nat /\ gen.since <= Len(rows)
  /\ gen.pc = "nil" => \A i \in 1 .. gen.since : i \in embedded

\* What a step of GenerateEmbeddings does to the number of rows it began with.
LEMMA GenerateMoves ==
  ASSUME GenInv,
         GenerateBegins \/ FetchFails \/ Generate \/ \E r \in gen.batch : UpsertFails(r)
  PROVE  GenInv'
<1>1. /\ rows' = rows /\ rows \in Seq(DOMAIN Threads) /\ Len(rows) \in Nat
      /\ DOMAIN rows = 1 .. Len(rows)
      /\ gen.since \in Nat /\ gen.since <= Len(rows)
  BY GenerateLeaves DEF GenInv
<1> DEFINE Moved ==
             /\ DOMAIN gen' = DOMAIN gen
             /\ gen'.since \in {gen.since, Len(rows)}
             /\ gen'.pc = "nil" => DOMAIN rows \subseteq embedded /\ embedded' = embedded
<1>2. DOMAIN gen = {"pc", "batch", "failed", "since"}
  BY DEF GenInv
<1>3. ASSUME GenerateBegins PROVE Moved
  <2>1. gen' = [gen EXCEPT !.pc = "fetch", !.since = Len(rows)]
    BY <1>3 DEF GenerateBegins
  <2>2. DOMAIN gen' = DOMAIN gen /\ gen'.since = Len(rows) /\ gen'.pc = "fetch"
    BY <1>2, <2>1
  <2> QED
    BY <2>2
<1>4. ASSUME FetchFails PROVE Moved
  <2>1. gen' = [gen EXCEPT !.pc = "err"]
    BY <1>4 DEF FetchFails
  <2> QED
    BY <1>2, <2>1
<1>5. ASSUME FetchChatThreadToGenerateEmbedding PROVE Moved
  <2>1. CASE DOMAIN rows \ embedded = {}
    <3>1. gen' = [gen EXCEPT !.pc = "nil"] /\ embedded' = embedded
      BY <1>5, <2>1 DEF FetchChatThreadToGenerateEmbedding
    <3>2. DOMAIN gen' = DOMAIN gen /\ gen'.since = gen.since
      BY <1>2, <3>1
    <3> QED
      BY <2>1, <3>1, <3>2
  <2>2. CASE DOMAIN rows \ embedded # {}
    <3>1. PICK batch : gen' = [gen EXCEPT !.pc = "pool", !.batch = batch]
      BY <1>5, <2>2 DEF FetchChatThreadToGenerateEmbedding
    <3>2. DOMAIN gen' = DOMAIN gen /\ gen'.since = gen.since /\ gen'.pc = "pool"
      BY <1>2, <3>1
    <3> QED
      BY <3>2
  <2> QED
    BY <2>1, <2>2
<1>6. ASSUME NextRound PROVE Moved
  <2> DEFINE to == IF gen.failed THEN "err" ELSE "fetch"
  <2>1. gen' = [gen EXCEPT !.pc = to]
    BY <1>6 DEF NextRound
  <2>2. to # "nil"
    OBVIOUS
  <2> HIDE DEF to
  <2>3. DOMAIN gen' = DOMAIN gen /\ gen'.since = gen.since /\ gen'.pc = to
    BY <1>2, <2>1
  <2> QED
    BY <2>2, <2>3
<1>7. ASSUME NEW r \in gen.batch, EmbedNothing(r) \/ UpsertEmbedding(r) \/ UpsertFails(r)
      PROVE  Moved
  <2> DEFINE rest == gen.batch \ {r}
  <2>1. /\ gen.pc = "pool"
        /\ \/ gen' = [gen EXCEPT !.batch = rest]
           \/ gen' = [gen EXCEPT !.batch = rest, !.failed = TRUE]
    BY <1>7 DEF EmbedNothing, UpsertEmbedding, UpsertFails
  <2> HIDE DEF rest
  <2>2. DOMAIN gen' = DOMAIN gen /\ gen'.since = gen.since /\ gen'.pc = gen.pc
    BY <1>2, <2>1
  <2> QED
    BY <2>1, <2>2
<1>8. Moved
  BY <1>3, <1>4, <1>5, <1>6, <1>7 DEF Generate
<1> HIDE DEF Moved
<1>9. gen'.since \in Nat /\ gen'.since <= Len(rows)
  BY <1>1, <1>8 DEF Moved
<1> QED
  BY <1>1, <1>2, <1>8, <1>9 DEF GenInv, Moved

\* GenerateEmbeddings: when it returns nil, every thread that was stored when it
\* began has an embedding, for any number of threads, loads and pages.
THEOREM GeneratedIsComplete == Spec => []NilMeansEmbedded
<1>1. Init => GenInv
  <2> SUFFICES ASSUME Init
               PROVE  GenInv
    OBVIOUS
  <2>1. PICK s \in Scenarios : rows = s.rows
    BY DEF Init
  <2>2. rows \in Seq(DOMAIN Threads)
    BY <2>1, RowsAssumption
  <2>3. gen.since = 0 /\ gen.pc = "idle" /\ DOMAIN gen = {"pc", "batch", "failed", "since"}
    BY DEF Init
  <2> QED
    BY <2>2, <2>3 DEF GenInv
<1>2. GenInv /\ [Next]_vars => GenInv'
  <2> SUFFICES ASSUME GenInv, [Next]_vars
               PROVE  GenInv'
    OBVIOUS
  <2>1. CASE UNCHANGED <<rows, gen, embedded>>
    BY <2>1 DEF GenInv
  <2>2. ASSUME NEW d \in Dumps, DumpBegins(d) \/ DumpReturns(d) \/ DumpKilled(d)
        PROVE  GenInv'
    BY <2>1, <2>2 DEF DumpBegins, DumpReturns, DumpKilled
  <2>3. ASSUME NEW d \in Dumps, NEW k \in DOMAIN Threads, CreateChatThreadFails(d, k)
        PROVE  GenInv'
    BY <2>1, <2>3 DEF CreateChatThreadFails
  <2>4. ASSUME NEW d \in Dumps, NEW k \in DOMAIN Threads, NEW answered \in BOOLEAN,
               CreateChatThread(d, k, answered)
        PROVE  GenInv'
    <3>1. rows' = Append(rows, k) /\ UNCHANGED <<gen, embedded>>
      BY <2>4 DEF CreateChatThread
    <3>2. rows' \in Seq(DOMAIN Threads) /\ Len(rows') = Len(rows) + 1 /\ Len(rows) \in Nat
      BY <3>1 DEF GenInv
    <3> QED
      BY <3>1, <3>2 DEF GenInv
  <2>5. CASE GenerateBegins \/ FetchFails \/ Generate \/ \E r \in gen.batch : UpsertFails(r)
    BY <2>5, GenerateMoves
  <2>6. CASE \E m \in Messages :
               HandlePlain(m) \/ ExplainMessage(m) \/ Ask(m)
                 \/ CompletionUncached(m) \/ CompletionCached(m) \/ Reply(m)
    BY <2>1, <2>6 DEF HandlePlain, ExplainMessage, Ask, CompletionUncached, CompletionCached, Reply,
                      storage
  <2>7. CASE \E s \in DOMAIN cache : Expire(s)
    BY <2>1, <2>7 DEF Expire, storage
  <2>8. CASE UNCHANGED vars
    BY <2>1, <2>8 DEF vars, storage
  <2> QED
    BY <2>2, <2>3, <2>4, <2>5, <2>6, <2>7, <2>8 DEF Next
<1>3. GenInv => NilMeansEmbedded
  BY DEF GenInv, NilMeansEmbedded
<1> QED
  BY <1>1, <1>2, <1>3, PTL DEF Spec
-----------------------------------------------------------------------------
\* Explanations.

HandlerStates == {"off", "new", "asking", "answered", "done"}
Senders == {0} \cup {m.sender : m \in Messages}

\* No question of sender s was cached after place i, up to place n.
LastOf(s, i, n) == \A j \in 1 .. n : j > i => SenderOf(saved[j]) # s

\* Questions are cached once each, after they were asked.
SavedInv ==
  /\ saved \in Seq(Messages)
  /\ before \in [Messages -> Nat]
  /\ handler \in [Messages -> HandlerStates]
  /\ \A m \in Messages : handler[m] = "asking" => IsQuestion(m)
  /\ \A m \in Messages : before[m] <= Len(saved)
  /\ \A i \in 1 .. Len(saved) :
       /\ IsQuestion(saved[i]) /\ before[saved[i]] < i
       /\ handler[saved[i]] \in {"answered", "done"}
  /\ \A i, j \in 1 .. Len(saved) : saved[i] = saved[j] => i = j

\* The cache has the question of a sender that was cached last.
CacheInv ==
  /\ cache \in [Senders -> Messages \cup {NoQuestion}]
  /\ \A s \in Senders : cache[s] # NoQuestion =>
       \E i \in 1 .. Len(saved) :
         saved[i] = cache[s] /\ SenderOf(saved[i]) = s /\ LastOf(s, i, Len(saved))

\* What has been explained was the last one at that time.
ExplainedInv ==
  /\ explained \in [Messages -> Messages \cup {NoQuestion}]
  /\ \A m \in Messages : explained[m] # NoQuestion =>
       /\ handler[m] = "done"
       /\ \E i \in 1 .. before[m] :
            saved[i] = explained[m] /\ SenderOf(saved[i]) = m.sender /\ LastOf(m.sender, i, before[m])

ExplainInv == SavedInv /\ CacheInv /\ ExplainedInv

\* A handler goes on, and nothing of what it has done is touched.
LEMMA HandlerMoves ==
  ASSUME ExplainInv, NEW m \in Messages, handler[m] \in {"new", "asking", "answered"},
         NEW h \in {"answered", "done"}, handler' = [handler EXCEPT ![m] = h],
         UNCHANGED <<cache, saved, before, explained>>
  PROVE  ExplainInv'
<1>1. /\ handler' \in [Messages -> HandlerStates] /\ handler'[m] = h
      /\ \A x \in Messages : x # m => handler'[x] = handler[x]
  BY DEF ExplainInv, SavedInv, HandlerStates
<1>2. \A x \in Messages : explained[x] # NoQuestion => x # m
  BY DEF ExplainInv, ExplainedInv
<1>3. SavedInv'
  BY <1>1 DEF ExplainInv, SavedInv, IsQuestion
<1>4. CacheInv'
  BY DEF ExplainInv, CacheInv, LastOf, SenderOf
<1>5. ExplainedInv'
  BY <1>1, <1>2 DEF ExplainInv, ExplainedInv, LastOf, SenderOf
<1> QED
  BY <1>3, <1>4, <1>5 DEF ExplainInv

\* A message that waits has been neither cached nor explained.
LEMMA NewIsUnknown ==
  ASSUME ExplainInv, NEW m \in Messages, handler[m] \in {"new", "asking"}
  PROVE  explained[m] = NoQuestion /\ \A i \in 1 .. Len(saved) : saved[i] # m
BY DEF ExplainInv, ExplainedInv, SavedInv

LEMMA AskKeeps ==
  ASSUME ExplainInv, NEW m \in Messages, Ask(m)
  PROVE  ExplainInv'
<1>1. /\ handler' = [handler EXCEPT ![m] = "asking"] /\ before' = [before EXCEPT ![m] = Len(saved)]
      /\ UNCHANGED <<cache, saved, explained>> /\ handler[m] = "new" /\ IsQuestion(m)
  BY DEF Ask
<1>2. explained[m] = NoQuestion /\ \A i \in 1 .. Len(saved) : saved[i] # m
  BY <1>1, NewIsUnknown
<1>3. /\ saved \in Seq(Messages) /\ Len(saved) \in Nat
      /\ handler' \in [Messages -> HandlerStates] /\ handler'[m] = "asking"
      /\ before' \in [Messages -> Nat] /\ before'[m] = Len(saved)
      /\ \A x \in Messages : x # m => handler'[x] = handler[x] /\ before'[x] = before[x]
      /\ \A i \in 1 .. Len(saved) : saved[i] \in Messages
  BY <1>1 DEF ExplainInv, SavedInv, HandlerStates
<1>4. SavedInv'
  BY <1>1, <1>2, <1>3 DEF ExplainInv, SavedInv, IsQuestion
<1>5. CacheInv'
  BY <1>1 DEF ExplainInv, CacheInv, LastOf, SenderOf
<1>6. ExplainedInv'
  <2> SUFFICES ASSUME NEW x \in Messages, explained[x] # NoQuestion
               PROVE  /\ handler'[x] = "done"
                      /\ \E i \in 1 .. before'[x] :
                           /\ saved[i] = explained[x] /\ SenderOf(saved[i]) = x.sender
                           /\ LastOf(x.sender, i, before'[x])
    BY <1>1 DEF ExplainedInv, LastOf, SenderOf, ExplainInv
  <2>1. x # m
    BY <1>2
  <2> QED
    BY <1>3, <2>1 DEF ExplainInv, ExplainedInv
<1> QED
  BY <1>4, <1>5, <1>6 DEF ExplainInv

LEMMA ExplainKeeps ==
  ASSUME ExplainInv, NEW m \in Messages, ExplainMessage(m)
  PROVE  ExplainInv'
<1>1. /\ handler' = [handler EXCEPT ![m] = "done"] /\ before' = [before EXCEPT ![m] = Len(saved)]
      /\ explained' = [explained EXCEPT ![m] = cache[m.sender]]
      /\ UNCHANGED <<cache, saved>> /\ handler[m] = "new"
  BY DEF ExplainMessage, Finish
<1>2. \A i \in 1 .. Len(saved) : saved[i] # m
  BY <1>1, NewIsUnknown
<1>3. /\ saved \in Seq(Messages) /\ Len(saved) \in Nat
      /\ handler' \in [Messages -> HandlerStates] /\ handler'[m] = "done"
      /\ before' \in [Messages -> Nat] /\ before'[m] = Len(saved)
      /\ \A x \in Messages : x # m => handler'[x] = handler[x] /\ before'[x] = before[x]
      /\ \A i \in 1 .. Len(saved) : saved[i] \in Messages
  BY <1>1 DEF ExplainInv, SavedInv, HandlerStates
<1>4. SavedInv'
  <2>1. \A x \in Messages : /\ handler'[x] = "asking" => IsQuestion(x)
                            /\ before'[x] <= Len(saved)
    BY <1>3 DEF ExplainInv, SavedInv
  <2>2. \A i \in 1 .. Len(saved) :
          /\ IsQuestion(saved[i]) /\ before'[saved[i]] < i
          /\ handler'[saved[i]] \in {"answered", "done"}
    BY <1>2, <1>3 DEF ExplainInv, SavedInv
  <2>3. \A i, j \in 1 .. Len(saved) : saved[i] = saved[j] => i = j
    BY DEF ExplainInv, SavedInv
  <2>4. saved' = saved
    BY <1>1
  <2> QED
    BY ONLY <1>3, <2>1, <2>2, <2>3, <2>4 DEF SavedInv, IsQuestion
<1>5. CacheInv'
  BY <1>1 DEF ExplainInv, CacheInv, LastOf, SenderOf
<1>6. /\ explained' \in [Messages -> Messages \cup {NoQuestion}]
      /\ explained'[m] = cache[m.sender] /\ m.sender \in Senders
      /\ \A x \in Messages : x # m => explained'[x] = explained[x]
  <2>1. m.sender \in Senders
    BY DEF Senders
  <2>2. cache[m.sender] \in Messages \cup {NoQuestion}
    BY <2>1 DEF ExplainInv, CacheInv
  <2>3. explained \in [Messages -> Messages \cup {NoQuestion}]
    BY DEF ExplainInv, ExplainedInv
  <2> QED
    BY <1>1, <2>1, <2>2, <2>3
<1>7. ExplainedInv'
  <2> SUFFICES ASSUME NEW x \in Messages, explained'[x] # NoQuestion
               PROVE  /\ handler'[x] = "done"
                      /\ \E i \in 1 .. before'[x] :
                           /\ saved[i] = explained'[x] /\ SenderOf(saved[i]) = x.sender
                           /\ LastOf(x.sender, i, before'[x])
    BY <1>1, <1>6 DEF ExplainedInv, LastOf, SenderOf
  <2>1. CASE x = m
    BY <1>3, <1>6, <2>1 DEF ExplainInv, CacheInv
  <2>2. CASE x # m
    BY <1>3, <1>6, <2>2 DEF ExplainInv, ExplainedInv
  <2> QED
    BY <2>1, <2>2
<1> QED
  BY <1>4, <1>5, <1>7 DEF ExplainInv

LEMMA ExpireKeeps ==
  ASSUME ExplainInv, NEW s \in Senders, Expire(s)
  PROVE  ExplainInv'
<1>1. cache' = [cache EXCEPT ![s] = NoQuestion] /\ UNCHANGED <<handler, saved, before, explained>>
  BY DEF Expire
<1>2. /\ cache' \in [Senders -> Messages \cup {NoQuestion}] /\ cache'[s] = NoQuestion
      /\ \A t \in Senders : t # s => cache'[t] = cache[t]
  BY <1>1 DEF ExplainInv, CacheInv
<1>3. SavedInv' /\ ExplainedInv'
  <2>1. SavedInv'
    BY <1>1 DEF ExplainInv, SavedInv, IsQuestion
  <2>2. ExplainedInv'
    BY <1>1 DEF ExplainInv, ExplainedInv, LastOf, SenderOf
  <2> QED
    BY <2>1, <2>2
<1>4. CacheInv'
  <2> SUFFICES ASSUME NEW t \in Senders, cache'[t] # NoQuestion
               PROVE  \E i \in 1 .. Len(saved) :
                        saved[i] = cache'[t] /\ SenderOf(saved[i]) = t /\ LastOf(t, i, Len(saved))
    BY <1>1, <1>2 DEF CacheInv, LastOf, SenderOf
  <2> QED
    BY <1>2 DEF ExplainInv, CacheInv
<1> QED
  BY <1>3, <1>4 DEF ExplainInv

\* saveCacheItem: the question takes the last place.
LEMMA CompletionCachedKeeps ==
  ASSUME ExplainInv, NEW m \in Messages, CompletionCached(m)
  PROVE  ExplainInv'
<1> DEFINE n == Len(saved)
<1>1. /\ handler' = [handler EXCEPT ![m] = "answered"] /\ saved' = Append(saved, m)
      /\ cache' = [cache EXCEPT ![SenderOf(m)] = m]
      /\ UNCHANGED <<before, explained>> /\ handler[m] = "asking"
  BY DEF CompletionCached
<1>2. explained[m] = NoQuestion /\ \A i \in 1 .. n : saved[i] # m
  BY <1>1, NewIsUnknown
<1>3. /\ n \in Nat /\ saved' \in Seq(Messages) /\ Len(saved') = n + 1 /\ saved'[n + 1] = m
      /\ \A i \in 1 .. n : saved'[i] = saved[i] /\ saved[i] \in Messages
  BY <1>1 DEF ExplainInv, SavedInv
<1>4. /\ handler' \in [Messages -> HandlerStates] /\ handler'[m] = "answered"
      /\ \A x \in Messages : x # m => handler'[x] = handler[x]
  BY <1>1 DEF ExplainInv, SavedInv, HandlerStates
<1>5. SenderOf(m) \in Senders
  BY DEF SenderOf, Senders
<1>6. /\ cache' \in [Senders -> Messages \cup {NoQuestion}] /\ cache'[SenderOf(m)] = m
      /\ \A t \in Senders : t # SenderOf(m) => cache'[t] = cache[t]
  BY <1>1, <1>5 DEF ExplainInv, CacheInv
<1>7. \A x \in Messages : before[x] \in Nat /\ before[x] <= n
  BY DEF ExplainInv, SavedInv
<1> HIDE DEF n
<1>8. SavedInv'
  <2>1. \A x \in Messages : /\ handler'[x] = "asking" => IsQuestion(x)
                            /\ before'[x] <= Len(saved')
    BY <1>1, <1>3, <1>4, <1>7 DEF ExplainInv, SavedInv
  <2>2. ASSUME NEW i \in 1 .. Len(saved')
        PROVE  /\ IsQuestion(saved'[i]) /\ before'[saved'[i]] < i
               /\ handler'[saved'[i]] \in {"answered", "done"}
    <3>1. CASE i = n + 1
      <4>1. saved'[i] = m /\ IsQuestion(m)
        BY <1>1, <1>3, <3>1 DEF ExplainInv, SavedInv
      <4> QED
        BY <1>1, <1>3, <1>4, <1>7, <3>1, <4>1
    <3>2. CASE i \in 1 .. n
      <4>1. saved'[i] = saved[i] /\ saved[i] \in Messages /\ saved[i] # m
        BY <1>2, <1>3, <3>2
      <4> QED
        BY <1>1, <1>4, <3>2, <4>1 DEF ExplainInv, SavedInv, n
    <3> QED
      BY <1>3, <3>1, <3>2
  <2>3. ASSUME NEW i \in 1 .. Len(saved'), NEW j \in 1 .. Len(saved'), saved'[i] = saved'[j]
        PROVE  i = j
    <3>1. CASE i \in 1 .. n /\ j \in 1 .. n
      BY <1>3, <2>3, <3>1 DEF ExplainInv, SavedInv, n
    <3>2. CASE i = n + 1 \/ j = n + 1
      BY <1>2, <1>3, <2>3, <3>2
    <3> QED
      BY <1>3, <3>1, <3>2
  <2>4. before' \in [Messages -> Nat]
    BY <1>1 DEF ExplainInv, SavedInv
  <2> QED
    BY <1>3, <1>4, <2>1, <2>2, <2>3, <2>4 DEF SavedInv, IsQuestion
<1>9. CacheInv'
  <2> SUFFICES ASSUME NEW t \in Senders, cache'[t] # NoQuestion
               PROVE  \E i \in 1 .. n + 1 :
                        /\ saved'[i] = cache'[t] /\ SenderOf(saved'[i]) = t
                        /\ \A j \in 1 .. n + 1 : j > i => SenderOf(saved'[j]) # t
    BY <1>3, <1>6 DEF CacheInv, LastOf, SenderOf
  <2>1. CASE t = SenderOf(m)
    <3>1. /\ n + 1 \in 1 .. n + 1 /\ saved'[n + 1] = cache'[t] /\ SenderOf(saved'[n + 1]) = t
          /\ \A j \in 1 .. n + 1 : ~(j > n + 1)
      BY <1>3, <1>6, <2>1
    <3> QED
      BY <3>1
  <2>2. CASE t # SenderOf(m)
    <3>1. PICK i \in 1 .. n :
            saved[i] = cache[t] /\ SenderOf(saved[i]) = t /\ LastOf(t, i, n)
      BY <1>6, <2>2 DEF ExplainInv, CacheInv, n
    <3>2. \A j \in 1 .. n + 1 : j > i => SenderOf(saved'[j]) # t
      BY <1>3, <2>2, <3>1 DEF LastOf
    <3> QED
      BY <1>3, <1>6, <2>2, <3>1, <3>2
  <2> QED
    BY <2>1, <2>2
<1>10. ExplainedInv'
  <2> SUFFICES ASSUME NEW x \in Messages, explained[x] # NoQuestion
               PROVE  /\ handler'[x] = "done"
                      /\ \E i \in 1 .. before[x] :
                           /\ saved'[i] = explained[x] /\ SenderOf(saved'[i]) = x.sender
                           /\ \A j \in 1 .. before[x] : j > i => SenderOf(saved'[j]) # x.sender
    <3>1. explained' \in [Messages -> Messages \cup {NoQuestion}] /\ explained' = explained
          /\ before' = before
      BY <1>1 DEF ExplainInv, ExplainedInv
    <3> QED
      BY <3>1, Zenon DEF ExplainedInv, LastOf, SenderOf
  <2>1. x # m /\ handler[x] = "done"
    BY <1>2 DEF ExplainInv, ExplainedInv
  <2>2. PICK i \in 1 .. before[x] :
          saved[i] = explained[x] /\ SenderOf(saved[i]) = x.sender /\ LastOf(x.sender, i, before[x])
    BY DEF ExplainInv, ExplainedInv
  <2>3. \A j \in 1 .. before[x] : saved'[j] = saved[j]
    BY <1>3, <1>7
  <2> QED
    BY <1>4, <2>1, <2>2, <2>3 DEF LastOf
<1> QED
  BY <1>8, <1>9, <1>10 DEF ExplainInv

LEMMA ExplainInit ==
  ASSUME Init
  PROVE  ExplainInv
<1>1. /\ cache = [s \in Senders |-> NoQuestion] /\ saved = << >>
      /\ before = [m \in Messages |-> 0] /\ explained = [m \in Messages |-> NoQuestion]
  BY DEF Init, Senders
<1>2. handler \in [Messages -> {"new", "off"}]
  BY DEF Init
<1>3. SavedInv
  BY <1>1, <1>2 DEF SavedInv, HandlerStates
<1> QED
  BY <1>1, <1>3 DEF ExplainInv, CacheInv, ExplainedInv

LEMMA ExplainStep ==
  ASSUME ExplainInv, [Next]_vars
  PROVE  ExplainInv'
<1>1. CASE UNCHANGED telegram
  BY <1>1 DEF telegram, ExplainInv, SavedInv, CacheInv, ExplainedInv, LastOf, SenderOf, IsQuestion
<1>2. ASSUME NEW m \in Messages, HandlePlain(m) \/ CompletionUncached(m) \/ Reply(m)
      PROVE  ExplainInv'
  BY <1>2, HandlerMoves DEF HandlePlain, CompletionUncached, Reply, Finish
<1>3. ASSUME NEW m \in Messages, ExplainMessage(m) \/ Ask(m) \/ CompletionCached(m)
      PROVE  ExplainInv'
  BY <1>3, ExplainKeeps, AskKeeps, CompletionCachedKeeps
<1>4. ASSUME NEW s \in DOMAIN cache, Expire(s)
      PROVE  ExplainInv'
  <2>1. s \in Senders
    BY DEF ExplainInv, CacheInv
  <2> QED
    BY <1>4, <2>1, ExpireKeeps
<1>5. CASE GenerateBegins \/ FetchFails \/ Generate \/ \E r \in gen.batch : UpsertFails(r)
  BY <1>1, <1>5, GenerateLeaves
<1>6. CASE \E d \in Dumps :
             \/ DumpBegins(d) \/ DumpReturns(d) \/ DumpKilled(d)
             \/ \E k \in DOMAIN Threads :
                  \/ CreateChatThreadFails(d, k)
                  \/ \E answered \in BOOLEAN : CreateChatThread(d, k, answered)
  BY <1>1, <1>6, Zenon DEF DumpBegins, DumpReturns, DumpKilled, CreateChatThreadFails, CreateChatThread
<1>7. CASE UNCHANGED vars
  BY <1>1, <1>7 DEF vars
<1> QED
  BY <1>2, <1>3, <1>4, <1>5, <1>6, <1>7 DEF Next

\* What /explain explains is the answer to the sender's own question that was
\* cached last, however the handlers of other messages interleave with it and
\* in whatever order the questions were asked.
THEOREM ExplainsLastAnswer == Spec => []ExplainsOwnLastAnswer
<1>1. ASSUME ExplainInv
      PROVE  ExplainsOwnLastAnswer
  <2> SUFFICES ASSUME NEW m \in Messages, explained[m] # NoQuestion
               PROVE  \E k \in 1 .. before[m] :
                        /\ saved[k] = explained[m]
                        /\ saved[k].sender = m.sender /\ saved[k].chat = "private"
                        /\ \A j \in 1 .. before[m] :
                             saved[j].sender = m.sender /\ saved[j].chat = "private" => j <= k
    BY DEF ExplainsOwnLastAnswer
  <2>1. PICK k \in 1 .. before[m] :
          saved[k] = explained[m] /\ SenderOf(saved[k]) = m.sender /\ LastOf(m.sender, k, before[m])
    BY <1>1 DEF ExplainInv, ExplainedInv
  <2>2. /\ Len(saved) \in Nat
        /\ before[m] \in Nat /\ before[m] <= Len(saved)
        /\ \A i \in 1 .. Len(saved) : IsQuestion(saved[i])
    BY <1>1 DEF ExplainInv, SavedInv
  <2>3. saved[k].sender = m.sender /\ saved[k].chat = "private"
    <3>1. saved[k].chat # "public"
      BY <2>1, SendersAssumption DEF SenderOf
    <3>2. IsQuestion(saved[k])
      BY <2>2
    <3>3. saved[k].chat = "private"
      BY <3>1, <3>2 DEF IsQuestion
    <3> QED
      BY <2>1, <3>3 DEF SenderOf
  <2>4. ASSUME NEW j \in 1 .. before[m], saved[j].sender = m.sender, saved[j].chat = "private"
        PROVE  j <= k
    <3>1. SenderOf(saved[j]) = m.sender
      BY <2>4 DEF SenderOf
    <3> QED
      BY <2>1, <2>2, <3>1 DEF LastOf
  <2> QED
    BY <2>1, <2>3, <2>4
<1>2. Init => ExplainInv
  BY ExplainInit
<1>3. ExplainInv /\ [Next]_vars => ExplainInv'
  BY ExplainStep
<1> QED
  BY <1>1, <1>2, <1>3, PTL DEF Spec
-----------------------------------------------------------------------------
\* A search.

\* Only the holder of the mutex appends, and nothing changes the slice between
\* the two halves of an append.
Guarded ==
  \A r \in Ranges :
    /\ task[r] = "appending" => mu = r
    /\ snap[r] # -1 => task[r] = "appending" /\ snap[r] = length /\ left[r] > 0
    /\ left[r] <= found[r]
    /\ task[r] \in {"off", "searching"} => left[r] = found[r]
    /\ taskErr[r] # "nil" => task[r] = "over"
    /\ pc = "embed" => task[r] = "off"

Reason == (\E r \in Ranges : taskErr[r] = "other") \/ length >= MaxResults

\* While the caller waits, the searches are cancelled by a failure or because
\* there are enough rows, and there is no other cancellation.
ReasonInv ==
  caller = "live" =>
    /\ poolCtx # "live" => Reason
    /\ \A r \in Ranges : taskErr[r] = "canceled" => Reason

SearchInv == TypeOK /\ Guarded /\ NoRowLost /\ ReasonInv

\* A goroutine that appends a row adds one to the rows appended.
LEMMA RowAppended ==
  ASSUME TypeOK, NEW r \in Ranges, left[r] > 0, left[r] <= found[r],
         left' = [left EXCEPT ![r] = @ - 1], UNCHANGED found
  PROVE  Cardinality(AppendedRows') = Cardinality(AppendedRows) + 1
<1> DEFINE a == <<r, found[r] - left[r] + 1>>
           before0 == AppendedRows
           after == AppendedRows'
<1>1. Limit \in Nat /\ left \in [Ranges -> 0 .. Limit] /\ found \in [Ranges -> 0 .. Limit]
  BY SizesAssumption DEF TypeOK
<1>2. left'[r] = left[r] - 1 /\ \A x \in Ranges : x # r => left'[x] = left[x]
  BY <1>1
<1>3. a \in Ranges \X (1 .. Limit) /\ a \notin before0
  BY <1>1 DEF AppendedRows
<1>4. after = before0 \cup {a}
  <2>1. ASSUME NEW b \in Ranges \X (1 .. Limit)
        PROVE  b \in after <=> b \in before0 \/ b = a
    <3>1. PICK x \in Ranges, i \in 1 .. Limit : b = <<x, i>>
      OBVIOUS
    <3>2. CASE x = r
      BY <1>1, <1>2, <3>1, <3>2 DEF AppendedRows
    <3>3. CASE x # r
      BY <1>1, <1>2, <3>1, <3>3 DEF AppendedRows
    <3> QED
      BY <3>2, <3>3
  <2>2. after \subseteq Ranges \X (1 .. Limit) /\ before0 \subseteq Ranges \X (1 .. Limit)
    BY DEF AppendedRows
  <2> QED
    BY <1>3, <2>1, <2>2
<1>5. IsFiniteSet(before0)
  <2>1. IsFiniteSet(Ranges \X (1 .. Limit))
    <3>1. IsFiniteSet(1 .. Limit)
      BY ONLY <1>1, FS_Interval
    <3>2. IsFiniteSet(Ranges)
      BY RangesAssumption
    <3> QED
      BY ONLY <3>1, <3>2, FS_Product
  <2> QED
    BY <2>1, FS_Subset DEF AppendedRows
<1> HIDE DEF a, before0, after
<1>6. Cardinality(before0 \cup {a}) = Cardinality(before0) + 1
  BY <1>3, <1>5, FS_AddElement
<1> QED
  BY <1>4, <1>6 DEF before0, after

\* What has been appended depends on the rows that are left.
LEMMA RowsKept ==
  ASSUME TypeOK, NoRowLost, TypeOK', UNCHANGED length,
         \A r \in Ranges : found'[r] - left'[r] = found[r] - left[r]
  PROVE  NoRowLost'
<1>1. AppendedRows' = AppendedRows
  <2>1. ASSUME NEW b \in Ranges \X (1 .. Limit)
        PROVE  b \in AppendedRows' <=> b \in AppendedRows
    <3>1. b[1] \in Ranges
      OBVIOUS
    <3> QED
      BY <3>1 DEF AppendedRows
  <2>2. /\ AppendedRows' \subseteq Ranges \X (1 .. Limit)
        /\ AppendedRows \subseteq Ranges \X (1 .. Limit)
    BY DEF AppendedRows
  <2> QED
    BY <2>1, <2>2
<1> QED
  BY <1>1 DEF NoRowLost

\* Steps that leave the slice and what is left of the rows alone.
LEMMA TaskMoves ==
  ASSUME SearchInv, TypeOK', UNCHANGED <<served, found, left, length>>,
         Guarded', ReasonInv'
  PROVE  SearchInv'
BY RowsKept DEF SearchInv

LEMMA SearchTyped ==
  ASSUME SearchInv, [SearchNext]_searchVars
  PROVE  TypeOK'
<1> USE DEF SearchInv, TypeOK
<1>1. CASE CallerGivesUp
  BY <1>1 DEF CallerGivesUp
<1>2. CASE Embed
  BY <1>2 DEF Embed
<1>3. CASE Wait \/ Complete
  BY <1>3 DEF Wait, Complete, saveCacheItem
<1>4. ASSUME NEW r \in Ranges, Found(r)
      PROVE  TypeOK'
  BY <1>4 DEF Found
<1>5. ASSUME NEW r \in Ranges, SearchFails(r) \/ SearchCanceled(r)
      PROVE  TypeOK'
  BY <1>5 DEF SearchFails, SearchCanceled, TaskOver, Canceled
<1>6. ASSUME NEW r \in Ranges, Lock(r) \/ Unlock(r)
      PROVE  TypeOK'
  BY <1>6 DEF Lock, Unlock, TaskOver
<1>7. ASSUME NEW r \in Ranges, ReadSlice(r)
      PROVE  TypeOK'
  BY <1>7 DEF ReadSlice, Canceled
<1>8. ASSUME NEW r \in Ranges, WriteSlice(r)
      PROVE  TypeOK'
  <2>1. left[r] > 0 /\ snap[r] = length
    BY <1>8 DEF WriteSlice, Guarded
  <2>2. Limit \in Nat
    BY SizesAssumption
  <2> QED
    BY <1>8, <2>1, <2>2 DEF WriteSlice, Canceled
<1>9. CASE UNCHANGED searchVars
  BY <1>9 DEF searchVars
<1> QED
  BY <1>1, <1>2, <1>3, <1>4, <1>5, <1>6, <1>7, <1>8, <1>9 DEF SearchNext, TaskStep

LEMMA SearchStep ==
  ASSUME SearchInv, [SearchNext]_searchVars
  PROVE  SearchInv'
<1>0. TypeOK /\ TypeOK' /\ Guarded /\ ReasonInv /\ NoRowLost
  BY SearchTyped DEF SearchInv
<1>1. CASE CallerGivesUp
  <2>1. UNCHANGED <<served, pc, task, found, left, snap, taskErr, length, mu>> /\ caller' # "live"
    BY <1>1 DEF CallerGivesUp
  <2> QED
    BY <1>0, <2>1, TaskMoves DEF Guarded, ReasonInv
<1>2. CASE Embed
  <2>1. /\ UNCHANGED <<served, found, left, snap, taskErr, length, mu, poolCtx, caller>>
        /\ pc = "embed" /\ pc' # "embed"
        /\ \A r \in Ranges : task'[r] = "searching" \/ task'[r] = task[r]
    BY <1>2 DEF Embed
  <2>2. Guarded'
    BY <1>0, <2>1 DEF Guarded
  <2>3. ReasonInv'
    BY <1>0, <2>1 DEF ReasonInv, Reason
  <2> QED
    BY <1>0, <2>1, <2>2, <2>3, TaskMoves
<1>3. CASE Wait \/ Complete
  <2>1. /\ UNCHANGED <<served, task, found, left, snap, taskErr, length, mu, poolCtx, caller>>
        /\ pc' # "embed"
    BY <1>3 DEF Wait, Complete
  <2> QED
    BY <1>0, <2>1, TaskMoves DEF Guarded, ReasonInv, Reason
<1>9. CASE UNCHANGED searchVars
  BY <1>0, <1>9, TaskMoves DEF Guarded, ReasonInv, Reason, searchVars
<1>4. ASSUME NEW r \in Ranges, Found(r)
      PROVE  SearchInv'
  <2>1. /\ UNCHANGED <<served, pc, snap, taskErr, length, mu, poolCtx, caller>>
        /\ task[r] = "searching" /\ task'[r] = "found" /\ left'[r] = found'[r]
        /\ \A x \in Ranges : x # r => /\ task'[x] = task[x]
                                      /\ found'[x] = found[x] /\ left'[x] = left[x]
    BY <1>0, <1>4 DEF Found, TypeOK
  <2>2. Guarded'
    BY <1>0, <2>1 DEF Guarded, TypeOK
  <2>3. ReasonInv'
    BY <1>0, <2>1 DEF ReasonInv, Reason
  <2>4. \A x \in Ranges : found'[x] - left'[x] = found[x] - left[x]
    BY <1>0, <2>1 DEF Guarded, TypeOK
  <2> QED
    BY <1>0, <2>1, <2>2, <2>3, <2>4, RowsKept DEF SearchInv
<1>5. ASSUME NEW r \in Ranges, SearchFails(r) \/ SearchCanceled(r)
      PROVE  SearchInv'
  <2>1. /\ UNCHANGED <<served, pc, found, left, snap, length, mu, caller>>
        /\ task[r] = "searching" /\ task'[r] = "over"
        /\ \A x \in Ranges : x # r => task'[x] = task[x] /\ taskErr'[x] = taskErr[x]
    BY <1>0, <1>5 DEF SearchFails, SearchCanceled, TaskOver, TypeOK
  <2>2. Guarded'
    BY <1>0, <2>1 DEF Guarded
  <2>3. CASE SearchFails(r)
    <3>1. taskErr'[r] = "other" /\ poolCtx' = Canceled(poolCtx)
      BY <1>0, <2>3 DEF SearchFails, TaskOver, TypeOK
    <3> QED
      BY <1>0, <2>1, <2>2, <3>1, TaskMoves DEF ReasonInv, Reason, Canceled
  <2>4. CASE SearchCanceled(r)
    <3>1. /\ poolCtx = "canceled" /\ UNCHANGED poolCtx
          /\ taskErr'[r] = IF length = MaxResults THEN "nil" ELSE "canceled"
      BY <1>0, <2>4 DEF SearchCanceled, TaskOver, TypeOK
    <3>2. taskErr[r] = "nil"
      BY <1>0, <2>1 DEF Guarded
    <3>3. ReasonInv'
      <4>1. Reason <=> Reason'
        BY <2>1, <3>1, <3>2 DEF Reason
      <4>2. caller = "live" => Reason
        BY <1>0, <3>1 DEF ReasonInv
      <4> QED
        BY <1>0, <2>1, <3>1, <4>1, <4>2 DEF ReasonInv
    <3> QED
      BY <1>0, <2>1, <2>2, <3>3, TaskMoves
  <2> QED
    BY <1>5, <2>3, <2>4
<1>6. ASSUME NEW r \in Ranges, Lock(r) \/ Unlock(r)
      PROVE  SearchInv'
  <2>1. /\ UNCHANGED <<served, pc, found, left, snap, length, poolCtx, caller>>
        /\ \A x \in Ranges : x # r => task'[x] = task[x] /\ taskErr'[x] = taskErr[x]
        /\ \/ task[r] = "found" /\ task'[r] = "appending" /\ taskErr' = taskErr
              /\ mu = NoHolder /\ mu' = r
           \/ task[r] = "appending" /\ task'[r] = "over" /\ taskErr'[r] = "nil" /\ left[r] = 0
    BY <1>0, <1>6 DEF Lock, Unlock, TaskOver, TypeOK
  <2>2. taskErr[r] = "nil" /\ taskErr'[r] = "nil"
    BY <1>0, <2>1 DEF Guarded
  <2>3. NoHolder \notin Ranges
    BY HolderAssumption DEF NoHolder
  <2>4. Guarded'
    BY <1>0, <2>1, <2>2, <2>3 DEF Guarded
  <2>5. \A x \in Ranges : taskErr'[x] = taskErr[x]
    BY <2>1, <2>2
  <2>6. ReasonInv'
    BY <1>0, <2>1, <2>5 DEF ReasonInv, Reason
  <2> QED
    BY <1>0, <2>1, <2>4, <2>6, TaskMoves
<1>7. ASSUME NEW r \in Ranges, ReadSlice(r)
      PROVE  SearchInv'
  <2>1. /\ UNCHANGED <<served, pc, task, found, left, taskErr, length, mu, caller>>
        /\ task[r] = "appending" /\ left[r] > 0 /\ snap[r] = -1 /\ snap'[r] = length
        /\ \A x \in Ranges : x # r => snap'[x] = snap[x]
        /\ poolCtx' = IF served = "embedding" /\ length = MaxResults
                      THEN Canceled(poolCtx) ELSE poolCtx
    BY <1>0, <1>7 DEF ReadSlice, TypeOK
  <2>2. Guarded'
    BY <1>0, <2>1 DEF Guarded
  <2>3. ReasonInv'
    <3>1. MaxResults \in Nat /\ length \in Nat
      BY <1>0, SizesAssumption DEF TypeOK
    <3> QED
      BY <1>0, <2>1, <3>1 DEF ReasonInv, Reason, Canceled
  <2> QED
    BY <1>0, <2>1, <2>2, <2>3, TaskMoves
<1>8. ASSUME NEW r \in Ranges, WriteSlice(r)
      PROVE  SearchInv'
  <2>1. /\ UNCHANGED <<served, pc, task, found, taskErr, mu, caller>>
        /\ task[r] = "appending" /\ snap[r] # -1 /\ snap'[r] = -1 /\ length' = snap[r] + 1
        /\ left' = [left EXCEPT ![r] = @ - 1] /\ left'[r] = left[r] - 1
        /\ \A x \in Ranges : x # r => snap'[x] = snap[x] /\ left'[x] = left[x]
        /\ poolCtx' = IF served = "completion" /\ length' = MaxResults
                      THEN Canceled(poolCtx) ELSE poolCtx
    BY <1>0, <1>8 DEF WriteSlice, TypeOK
  <2>2. left[r] > 0 /\ left[r] <= found[r] /\ length' = length + 1
    BY <1>0, <2>1 DEF Guarded
  <2>3. \A x \in Ranges : x # r => snap[x] = -1
    BY <1>0, <2>1 DEF Guarded
  <2>4. left \in [Ranges -> 0 .. Limit] /\ found \in [Ranges -> 0 .. Limit] /\ length \in Nat
        /\ MaxResults \in Nat
    BY <1>0, SizesAssumption DEF TypeOK
  <2>5. Guarded'
    BY <1>0, <2>1, <2>2, <2>3, <2>4 DEF Guarded
  <2>6. ReasonInv'
    BY <1>0, <2>1, <2>2, <2>3, <2>4 DEF ReasonInv, Reason, Canceled, Guarded
  <2>7. NoRowLost'
    <3>1. Cardinality(AppendedRows') = Cardinality(AppendedRows) + 1
      BY <1>0, <2>1, <2>2, RowAppended
    <3> QED
      BY <1>0, <2>2, <3>1 DEF NoRowLost
  <2> QED
    BY <1>0, <2>5, <2>6, <2>7 DEF SearchInv
<1> QED
  BY <1>1, <1>2, <1>3, <1>4, <1>5, <1>6, <1>7, <1>8, <1>9 DEF SearchNext, TaskStep

LEMMA SearchStarts ==
  ASSUME SearchInit
  PROVE  SearchInv
<1>1. TypeOK /\ Guarded /\ ReasonInv
  BY SizesAssumption DEF SearchInit, TypeOK, Guarded, ReasonInv
<1>2. AppendedRows = {}
  <2>1. ASSUME NEW b \in Ranges \X (1 .. Limit)
        PROVE  b \notin AppendedRows
    <3>1. b[1] \in Ranges /\ b[2] \in 1 .. Limit
      OBVIOUS
    <3>2. found[b[1]] = 0 /\ left[b[1]] = 0
      BY <3>1 DEF SearchInit
    <3> QED
      BY <3>1, <3>2 DEF AppendedRows
  <2> QED
    BY <2>1 DEF AppendedRows
<1>3. NoRowLost
  BY <1>2, FS_EmptySet DEF NoRowLost, SearchInit
<1> QED
  BY <1>1, <1>3 DEF SearchInv

\* For any number of ranges and rows, the slice of TryCompletion and
\* TryEmbedding has every row that a goroutine has appended, at any point.
THEOREM EveryRowKept == SearchSpec => []NoRowLost
<1>1. SearchInit => SearchInv
  BY SearchStarts
<1>2. SearchInv /\ [SearchNext]_searchVars => SearchInv'
  BY SearchStep
<1>3. SearchInv => NoRowLost
  BY DEF SearchInv
<1> QED
  BY <1>1, <1>2, <1>3, PTL DEF SearchSpec

\* While the caller waits, only a failure or enough rows make the handlers give
\* a search up, and TryCompletion fails only if a search has failed.
THEOREM GivenUpForAReason == SearchSpec => GivenUpOnlyWhenEnough
<1>1. SearchInit => SearchInv
  BY SearchStarts
<1>2. SearchInv /\ [SearchNext]_searchVars => SearchInv'
  BY SearchStep
<1>3. ASSUME SearchInv, [SearchNext]_searchVars, pc = "search", pc' # "search",
             caller = "live", "other" \notin PoolErrors
      PROVE  /\ PoolErrors # {} => length >= MaxResults
             /\ served = "completion" => pc' # "failed"
  <2>1. Wait /\ TypeOK /\ ReasonInv
    BY <1>3 DEF SearchNext, CallerGivesUp, Embed, TaskStep, Found, SearchFails,
                SearchCanceled, Lock, ReadSlice, WriteSlice, Unlock,
                Complete, searchVars, SearchInv
  <2>2. \A r \in Ranges : taskErr[r] \in {"nil", "canceled"}
    BY <1>3, <2>1 DEF TypeOK, PoolErrors
  <2>3. ASSUME PoolErrors # {}
        PROVE  "canceled" \in PoolErrors /\ length >= MaxResults
    <3>1. PICK r \in Ranges : taskErr[r] = "canceled"
      BY <2>2, <2>3 DEF PoolErrors
    <3>2. "canceled" \in PoolErrors
      BY <3>1 DEF PoolErrors
    <3>3. Reason
      BY <1>3, <2>1, <3>1 DEF ReasonInv
    <3> QED
      BY <2>2, <3>2, <3>3 DEF Reason
  <2>4. served = "completion" => pc' # "failed"
    BY <2>1, <2>3 DEF Wait, WaitFails
  <2> QED
    BY <2>3, <2>4
<1> QED
  BY <1>1, <1>2, <1>3, PTL DEF SearchSpec, GivenUpOnlyWhenEnough

-----------------------------------------------------------------------------
\* The threads of an export.

\* Induction in the form that the proofs use it: a set of numbers that is
\* not empty has a least member.
LEMMA LeastNatural ==
  ASSUME NEW T \in SUBSET Nat, T # {}
  PROVE  \E x \in T : \A y \in T : x <= y
<1>1. PICK x \in T : \A y \in T : ~(<<y, x>> \in OpToRel(<, Nat))
  BY NatLessThanWellFounded, WFMin
<1>2. \A y \in T : y < x => <<y, x>> \in OpToRel(<, Nat)
  <2>1. OpToRel(<, Nat) = {ss \in Nat \X Nat : ss[1] < ss[2]}
    BY DEF OpToRel
  <2>2. ASSUME NEW y \in Nat, NEW z \in Nat, y < z
        PROVE  <<y, z>> \in {ss \in Nat \X Nat : ss[1] < ss[2]}
    BY <2>2
  <2> QED
    BY <2>1, <2>2
<1>3. \A y \in T : ~(y < x)
  BY <1>1, <1>2, Zenon
<1> QED
  BY <1>3


NothingFound == [r |-> << >>, place |-> << >>]

\* findThreads: its loop has a state after every message.  States for the
\* first m messages extend to one more, so there is no least m without them.
LEMMA LoopRuns ==
  ASSUME NEW S, NEW input \in Seq(S)
  PROVE  \E loop : /\ findThreads(input) = loop[Len(input)].r
                    /\ loop[0] = NothingFound
                    /\ \A i \in 1 .. Len(input) : loop[i] = ThreadOf(loop[i - 1], input[i])
<1> DEFINE n == Len(input)
           Body(f, m) == [i \in 0 .. m |-> IF i = 0 THEN NothingFound ELSE ThreadOf(f[i - 1], input[i])]
           T == {m \in 0 .. n : ~\E f : f = Body(f, m)}
<1>1. n \in Nat
  OBVIOUS
<1>2. T = {}
  <2> SUFFICES ASSUME T # {} PROVE FALSE
    OBVIOUS
  <2>1. PICK m \in T : \A y \in T : m <= y
    <3>1. T \in SUBSET Nat
      BY <1>1
    <3> HIDE DEF T
    <3> QED
      BY <3>1, LeastNatural
  <2>2. m \in Nat /\ m <= n /\ ~\E f : f = Body(f, m)
    BY <1>1, <2>1
  <2>3. m # 0
    <3> DEFINE f0 == [i \in 0 .. 0 |-> NothingFound]
    <3>1. f0 = Body(f0, 0)
      OBVIOUS
    <3> HIDE DEF f0, Body
    <3> QED
      BY <2>2, <3>1
  <2>4. m - 1 \in 0 .. n /\ m - 1 \notin T
    <3>1. m - 1 \in 0 .. n /\ ~(m <= m - 1)
      BY <1>1, <2>2, <2>3
    <3> HIDE DEF T
    <3> QED
      BY <2>1, <3>1
  <2>5. PICK f : f = Body(f, m - 1)
    BY <2>4
  <2> DEFINE g == [i \in 0 .. m |-> IF i = m THEN ThreadOf(f[m - 1], input[m]) ELSE f[i]]
  <2>6. g = Body(g, m)
    <3>1. ASSUME NEW i \in 0 .. m
          PROVE  g[i] = IF i = 0 THEN NothingFound ELSE ThreadOf(g[i - 1], input[i])
      <4>1. CASE i = m
        BY <2>2, <2>3, <4>1
      <4>2. CASE i # m
        <5>1. i \in 0 .. (m - 1) /\ g[i] = f[i]
          BY <2>2, <4>2
        <5>2. i # 0 => i - 1 \in 0 .. (m - 1) /\ g[i - 1] = f[i - 1]
          BY <2>2, <4>2, <5>1
        <5>3. f[i] = IF i = 0 THEN NothingFound ELSE ThreadOf(f[i - 1], input[i])
          BY <2>5, <5>1
        <5> QED
          BY <5>1, <5>2, <5>3
      <4> QED
        BY <4>1, <4>2
    <3>2. g = [i \in 0 .. m |-> IF i = 0 THEN NothingFound ELSE ThreadOf(g[i - 1], input[i])]
      BY <3>1
    <3> QED
      BY <3>2
  <2> HIDE DEF g, Body
  <2> QED
    BY <2>2, <2>6
<1>3. n \in 0 .. n
  BY <1>1
<1>4. \E f : f = Body(f, n)
  BY <1>2, <1>3
<1> DEFINE loop == CHOOSE f : f = Body(f, n)
<1>5. findThreads(input) = loop[n].r
  BY Zenon DEF findThreads, NothingFound
<1> HIDE DEF Body
<1>6. loop = Body(loop, n)
  BY <1>4, Zenon
<1> HIDE DEF loop
<1>7. loop[0] = NothingFound /\ \A i \in 1 .. n : loop[i] = ThreadOf(loop[i - 1], input[i])
  BY <1>1, <1>6 DEF Body
<1> QED
  BY <1>5, <1>7

\* The map says of every message in a thread, and of no other, where it is.
Mapped(r, place) ==
  /\ \A x \in DOMAIN place :
       place[x] \in DOMAIN r /\ \E a \in DOMAIN r[place[x]] : r[place[x]][a].id = x
  /\ \A k \in DOMAIN r : \A a \in DOMAIN r[k] :
       r[k][a].id \in DOMAIN place /\ place[r[k][a].id] = k

\* A thread begins with a first message and goes on with answers, in the
\* order of the first n messages of the export.
Grown(t, input, n) ==
  /\ t # << >> /\ t[1].reply = 0
  /\ \A a \in 2 .. Len(t) : \E b \in 1 .. (a - 1) : t[a].reply = t[b].id
  /\ \A a \in DOMAIN t : \E i \in 1 .. n : t[a] = input[i]
  /\ \A a, b \in DOMAIN t : a < b => \E i, j \in 1 .. n : i < j /\ t[a] = input[i] /\ t[b] = input[j]

\* Among the first n messages, no answer to a message of the thread is missing.
NoneMissing(t, input, n) ==
  \A i, j \in 1 .. n :
    i < j /\ input[i] \in Range(t) /\ input[j].reply = input[i].id => input[j] \in Range(t)

\* The state of the loop after n messages.
LoopInv(loop, input, n) ==
  /\ loop.r \in Seq(Seq(Range(input)))
  /\ Mapped(loop.r, loop.place)
  /\ \A k \in DOMAIN loop.r : Grown(loop.r[k], input, n) /\ NoneMissing(loop.r[k], input, n)
  /\ \A i \in 1 .. n : input[i].reply = 0 => \E k \in DOMAIN loop.r : loop.r[k][1] = input[i]

\* Messages with different ids, none of them 0.
ProperExport(input) ==
  /\ input \in Seq(Range(input))
  /\ \A i \in DOMAIN input : input[i].id # 0
  /\ \A i, j \in DOMAIN input : input[i].id = input[j].id => i = j

\* A thread, empty or not, with one more message.
LEMMA Longer ==
  ASSUME NEW M, NEW t \in Seq(M), NEW v \in M
  PROVE  LET u == Append(t, v)
         IN  /\ u \in Seq(M) /\ u # << >>
             /\ Len(u) = Len(t) + 1 /\ Len(t) \in Nat
             /\ DOMAIN t = 1 .. Len(t) /\ DOMAIN u = 1 .. (Len(t) + 1)
             /\ \A a \in DOMAIN t : a \in DOMAIN u /\ u[a] = t[a]
             /\ u[Len(t) + 1] = v
             /\ \A a \in DOMAIN u : a \in DOMAIN t \/ a = Len(t) + 1
             /\ Range(u) = Range(t) \cup {v}
<1> DEFINE u == Append(t, v)
<1>1. /\ u \in Seq(M) /\ u # << >>
      /\ Len(u) = Len(t) + 1 /\ Len(t) \in Nat
      /\ DOMAIN t = 1 .. Len(t) /\ DOMAIN u = 1 .. (Len(t) + 1)
      /\ \A a \in 1 .. Len(t) : u[a] = t[a]
      /\ u[Len(t) + 1] = v
  OBVIOUS
<1> SUFFICES /\ \A a \in DOMAIN t : a \in DOMAIN u /\ u[a] = t[a]
             /\ \A a \in DOMAIN u : a \in DOMAIN t \/ a = Len(t) + 1
             /\ Range(u) = Range(t) \cup {v}
  BY <1>1
<1> HIDE DEF u
<1>2. /\ \A a \in DOMAIN t : a \in DOMAIN u /\ u[a] = t[a]
      /\ \A a \in DOMAIN u : a \in DOMAIN t \/ a = Len(t) + 1
      /\ Len(t) + 1 \in DOMAIN u
  BY <1>1
<1>3. Range(u) = Range(t) \cup {v}
  BY <1>1, <1>2 DEF Range
<1> QED
  BY <1>2, <1>3

\* A thread is what it was when a message does not touch it.
LEMMA GrownStays ==
  ASSUME NEW input, NEW n \in Nat, NEW t, Grown(t, input, n - 1)
  PROVE  Grown(t, input, n)
<1>1. \A i \in 1 .. (n - 1) : i \in 1 .. n
  OBVIOUS
<1>2. \A a \in DOMAIN t : \E i \in 1 .. n : t[a] = input[i]
  BY <1>1 DEF Grown
<1>3. ASSUME NEW a \in DOMAIN t, NEW b \in DOMAIN t, a < b
      PROVE  \E i, j \in 1 .. n : i < j /\ t[a] = input[i] /\ t[b] = input[j]
  <2>1. PICK i \in 1 .. (n - 1), j \in 1 .. (n - 1) : i < j /\ t[a] = input[i] /\ t[b] = input[j]
    BY <1>3 DEF Grown
  <2> QED
    BY <1>1, <2>1
<1> QED
  BY <1>2, <1>3 DEF Grown

\* A thread that grows, or begins, with message n.
LEMMA ThreadGrows ==
  ASSUME NEW input, ProperExport(input), NEW n \in 1 .. Len(input),
         NEW t \in Seq(Range(input)),
         \/ t = << >> /\ input[n].reply = 0
         \/ Grown(t, input, n - 1) /\ \E b \in DOMAIN t : t[b].id = input[n].reply
  PROVE  Grown(Append(t, input[n]), input, n)
<1> DEFINE v == input[n]
           u == Append(t, v)
<1>0. Len(input) \in Nat /\ DOMAIN input = 1 .. Len(input) /\ v \in Range(input)
  BY DEF ProperExport, Range
<1>1. /\ u # << >>
      /\ Len(u) = Len(t) + 1 /\ Len(t) \in Nat
      /\ DOMAIN t = 1 .. Len(t) /\ DOMAIN u = 1 .. (Len(t) + 1)
      /\ \A a \in DOMAIN t : a \in DOMAIN u /\ u[a] = t[a]
      /\ u[Len(t) + 1] = v
      /\ \A a \in DOMAIN u : a \in DOMAIN t \/ a = Len(t) + 1
  BY <1>0, Longer
<1>2. n \in Nat /\ n \in 1 .. n /\ \A i \in 1 .. (n - 1) : i \in 1 .. n /\ i < n
  BY <1>0
<1> HIDE DEF u
<1>3. CASE t = << >> /\ v.reply = 0
  <2>1. Len(t) = 0
    BY <1>3
  <2>2. DOMAIN u = {1} /\ u[1] = v /\ Len(u) = 1
    BY <1>1, <2>1
  <2>3. \A a \in DOMAIN u : \E i \in 1 .. n : u[a] = input[i]
    BY <1>2, <2>2
  <2>4. \A a, b \in DOMAIN u : ~(a < b)
    BY <2>2
  <2>5. \A a \in 2 .. Len(u) : FALSE
    BY <2>2
  <2>6. Grown(u, input, n)
    BY <1>1, <1>3, <2>2, <2>3, <2>4, <2>5 DEF Grown
  <2> QED
    BY <2>6 DEF u
<1>4. CASE Grown(t, input, n - 1) /\ \E b \in DOMAIN t : t[b].id = v.reply
  <2>1. Len(t) # 0 /\ 1 \in DOMAIN t
    BY <1>1, <1>4
  <2>2. u[1].reply = 0
    BY <1>1, <1>4, <2>1 DEF Grown
  <2>3. ASSUME NEW a \in 2 .. Len(u)
        PROVE  \E b \in 1 .. (a - 1) : u[a].reply = u[b].id
    <3>1. CASE a = Len(t) + 1
      <4>1. PICK b \in DOMAIN t : t[b].id = v.reply
        BY <1>4
      <4>2. b \in 1 .. (a - 1) /\ u[a] = v /\ u[b] = t[b]
        BY <1>1, <3>1, <4>1
      <4> QED
        BY <4>1, <4>2
    <3>2. CASE a # Len(t) + 1
      <4>1. a \in 2 .. Len(t) /\ a \in DOMAIN t
        BY <1>1, <3>2
      <4>2. PICK b \in 1 .. (a - 1) : t[a].reply = t[b].id
        BY <1>4, <4>1 DEF Grown
      <4>3. b \in DOMAIN t
        BY <1>1, <4>1
      <4> QED
        BY <1>1, <4>1, <4>2, <4>3
    <3> QED
      BY <3>1, <3>2
  <2>4. ASSUME NEW a \in DOMAIN u
        PROVE  \E i \in 1 .. n : u[a] = input[i]
    <3>1. CASE a = Len(t) + 1
      BY <1>1, <1>2, <3>1
    <3>2. CASE a \in DOMAIN t
      <4>1. PICK i \in 1 .. (n - 1) : t[a] = input[i]
        BY <1>4, <3>2 DEF Grown
      <4> QED
        BY <1>1, <1>2, <3>2, <4>1
    <3> QED
      BY <1>1, <3>1, <3>2
  <2>5. ASSUME NEW a \in DOMAIN u, NEW b \in DOMAIN u, a < b
        PROVE  \E i, j \in 1 .. n : i < j /\ u[a] = input[i] /\ u[b] = input[j]
    <3>1. a \in DOMAIN t /\ u[a] = t[a]
      BY <1>1, <2>5
    <3>2. CASE b = Len(t) + 1
      <4>1. PICK i \in 1 .. (n - 1) : t[a] = input[i]
        BY <1>4, <3>1 DEF Grown
      <4> QED
        BY <1>1, <1>2, <3>1, <3>2, <4>1
    <3>3. CASE b \in DOMAIN t
      <4>1. PICK i \in 1 .. (n - 1), j \in 1 .. (n - 1) : i < j /\ t[a] = input[i] /\ t[b] = input[j]
        BY <1>4, <2>5, <3>1, <3>3 DEF Grown
      <4>2. u[b] = t[b]
        BY <1>1, <3>3
      <4> QED
        BY <1>2, <3>1, <4>1, <4>2
    <3> QED
      BY <1>1, <3>2, <3>3
  <2>6. Grown(u, input, n)
    BY <1>1, <2>2, <2>3, <2>4, <2>5 DEF Grown
  <2> QED
    BY <2>6 DEF u
<1> QED
  BY <1>3, <1>4

\* One message is put into the thread k, a new one or the one where what it
\* answers is.
LEMMA MessagePlaced ==
  ASSUME NEW input, ProperExport(input), NEW n \in 1 .. Len(input),
         NEW loop, LoopInv(loop, input, n - 1),
         NEW k \in 1 .. (Len(loop.r) + 1), NEW t \in Seq(Range(input)),
         \/ k = Len(loop.r) + 1 /\ t = << >> /\ input[n].reply = 0
         \/ /\ k \in DOMAIN loop.r /\ t = loop.r[k] /\ input[n].reply # 0
            /\ input[n].reply \in DOMAIN loop.place /\ loop.place[input[n].reply] = k,
         NEW next, next.r \in Seq(Seq(Range(input))),
         DOMAIN next.r = DOMAIN loop.r \cup {k},
         next.r[k] = Append(t, input[n]),
         \A l \in DOMAIN loop.r : l # k => next.r[l] = loop.r[l],
         next.place = Put(loop.place, input[n].id, k)
  PROVE  LoopInv(next, input, n)
<1> DEFINE v == input[n]
           r == loop.r
           rr == next.r
           place == loop.place
           pp == next.place
           u == Append(t, v)
<1>1. /\ Len(input) \in Nat /\ DOMAIN input = 1 .. Len(input) /\ v \in Range(input)
      /\ n \in Nat /\ n \in DOMAIN input /\ n \in 1 .. n
      /\ \A i \in 1 .. n : i \in DOMAIN input /\ (i = n \/ i \in 1 .. (n - 1))
      /\ \A i \in 1 .. (n - 1) : i \in DOMAIN input /\ i # n
  <2>1. Len(input) \in Nat /\ DOMAIN input = 1 .. Len(input)
    BY DEF ProperExport
  <2>2. v \in Range(input)
    BY <2>1 DEF Range
  <2> HIDE DEF v
  <2> QED
    BY <2>1, <2>2
<1>2. /\ u \in Seq(Range(input)) /\ u # << >>
      /\ Len(u) = Len(t) + 1 /\ Len(t) \in Nat
      /\ DOMAIN t = 1 .. Len(t) /\ DOMAIN u = 1 .. (Len(t) + 1)
      /\ \A a \in DOMAIN t : a \in DOMAIN u /\ u[a] = t[a]
      /\ u[Len(t) + 1] = v
      /\ \A a \in DOMAIN u : a \in DOMAIN t \/ a = Len(t) + 1
      /\ Range(u) = Range(t) \cup {v}
  BY <1>1, Longer
<1>3. /\ DOMAIN pp = DOMAIN place \cup {v.id}
      /\ pp[v.id] = k
      /\ \A x \in DOMAIN place : x # v.id => pp[x] = place[x]
  BY DEF Put
<1>4. /\ r \in Seq(Seq(Range(input)))
      /\ Mapped(r, place)
      /\ \A l \in DOMAIN r : Grown(r[l], input, n - 1) /\ NoneMissing(r[l], input, n - 1)
      /\ \A i \in 1 .. (n - 1) : input[i].reply = 0 => \E l \in DOMAIN r : r[l][1] = input[i]
  BY DEF LoopInv
<1>5. /\ rr \in Seq(Seq(Range(input)))
      /\ DOMAIN rr = DOMAIN r \cup {k}
      /\ rr[k] = u
      /\ \A l \in DOMAIN r : l # k => rr[l] = r[l]
      /\ \A l \in DOMAIN rr : l # k => l \in DOMAIN r
  OBVIOUS
<1>6. \/ k \notin DOMAIN r /\ t = << >> /\ v.reply = 0
      \/ k \in DOMAIN r /\ t = r[k] /\ v.reply # 0 /\ v.reply \in DOMAIN place /\ place[v.reply] = k
  BY <1>4
<1>7. \A i, j \in DOMAIN input : input[i].id = input[j].id => i = j
  BY DEF ProperExport
<1>8. \A i \in DOMAIN input : input[i].id # 0
  BY DEF ProperExport
<1>9. t = << >> => DOMAIN t = {} /\ Range(t) = {}
  BY DEF Range
<1> HIDE DEF v, r, rr, place, pp, u
<1>10. v.id \notin DOMAIN place
  <2> SUFFICES ASSUME v.id \in DOMAIN place PROVE FALSE
    OBVIOUS
  <2> DEFINE l == place[v.id]
  <2>1. l \in DOMAIN r /\ \E a \in DOMAIN r[l] : r[l][a].id = v.id
    BY <1>4 DEF Mapped
  <2>0. PICK a \in DOMAIN r[l] : r[l][a].id = v.id
    BY <2>1
  <2>2. PICK i \in 1 .. (n - 1) : r[l][a] = input[i]
    BY <1>4, <2>1 DEF Grown
  <2> QED
    BY <1>1, <1>7, <2>0, <2>2 DEF v
<1>11. Mapped(rr, pp)
  <2>1. ASSUME NEW x \in DOMAIN pp
        PROVE  pp[x] \in DOMAIN rr /\ \E a \in DOMAIN rr[pp[x]] : rr[pp[x]][a].id = x
    <3>1. CASE x = v.id
      <4>1. Len(t) + 1 \in DOMAIN u
        BY <1>2
      <4> QED
        BY <1>2, <1>3, <1>5, <3>1, <4>1
    <3>2. CASE x # v.id
      <4>1. x \in DOMAIN place /\ pp[x] = place[x]
        BY <1>3, <3>2
      <4>2. PICK a \in DOMAIN r[place[x]] : r[place[x]][a].id = x
        BY <1>4, <4>1 DEF Mapped
      <4>3. place[x] \in DOMAIN r
        BY <1>4, <4>1 DEF Mapped
      <4>4. CASE place[x] = k
        <5>1. t = r[k] /\ a \in DOMAIN t /\ t[a].id = x
          BY <1>6, <4>2, <4>3, <4>4
        <5>2. a \in DOMAIN u /\ u[a] = t[a]
          BY <1>2, <5>1
        <5> QED
          BY <1>5, <4>1, <4>4, <5>1, <5>2
      <4>5. CASE place[x] # k
        BY <1>5, <4>1, <4>2, <4>3, <4>5
      <4> QED
        BY <4>4, <4>5
    <3> QED
      BY <3>1, <3>2
  <2>2. ASSUME NEW l \in DOMAIN rr, NEW a \in DOMAIN rr[l]
        PROVE  rr[l][a].id \in DOMAIN pp /\ pp[rr[l][a].id] = l
    <3>1. CASE l # k
      <4>1. l \in DOMAIN r /\ rr[l] = r[l]
        BY <1>5, <3>1
      <4>2. r[l][a].id \in DOMAIN place /\ place[r[l][a].id] = l
        BY <1>4, <4>1 DEF Mapped
      <4> QED
        BY <1>3, <1>10, <4>1, <4>2
    <3>2. CASE l = k /\ a \in DOMAIN t
      <4>1. k \in DOMAIN r /\ t = r[k] /\ u[a] = t[a]
        BY <1>2, <1>6, <1>9, <3>2
      <4>2. t[a].id \in DOMAIN place /\ place[t[a].id] = k
        BY <1>4, <3>2, <4>1 DEF Mapped
      <4> QED
        BY <1>3, <1>5, <1>10, <3>2, <4>1, <4>2
    <3>3. CASE l = k /\ a = Len(t) + 1
      BY <1>2, <1>3, <1>5, <3>3
    <3> QED
      BY <1>2, <1>5, <3>1, <3>2, <3>3
  <2> QED
    BY <2>1, <2>2 DEF Mapped
<1>12. ASSUME NEW l \in DOMAIN rr PROVE Grown(rr[l], input, n)
  <2>1. CASE l # k
    <3>1. l \in DOMAIN r /\ rr[l] = r[l] /\ Grown(r[l], input, n - 1)
      BY <1>4, <1>5, <2>1
    <3> QED
      BY <1>1, <3>1, GrownStays
  <2>2. CASE l = k
    <3>1. k \in DOMAIN r => \E b \in DOMAIN t : t[b].id = v.reply
      <4> SUFFICES ASSUME k \in DOMAIN r PROVE \E b \in DOMAIN t : t[b].id = v.reply
        OBVIOUS
      <4>1. t = r[k] /\ v.reply \in DOMAIN place /\ place[v.reply] = k
        BY <1>6
      <4>2. \E b \in DOMAIN r[place[v.reply]] : r[place[v.reply]][b].id = v.reply
        BY <1>4, <4>1 DEF Mapped
      <4> QED
        BY <4>1, <4>2
    <3>2. \/ t = << >> /\ v.reply = 0
          \/ Grown(t, input, n - 1) /\ \E b \in DOMAIN t : t[b].id = v.reply
      BY <1>4, <1>6, <3>1
    <3>3. Grown(u, input, n)
      BY <3>2, ThreadGrows DEF u, v
    <3> QED
      BY <1>5, <2>2, <3>3
  <2> QED
    BY <2>1, <2>2
<1>13. ASSUME NEW l \in DOMAIN rr PROVE NoneMissing(rr[l], input, n)
  <2> SUFFICES ASSUME NEW i \in 1 .. n, NEW j \in 1 .. n, i < j, input[i] \in Range(rr[l]),
                      input[j].reply = input[i].id
               PROVE  input[j] \in Range(rr[l])
    BY DEF NoneMissing
  <2>1. i \in 1 .. (n - 1) /\ input[i] # v
    <3>1. i \in 1 .. (n - 1)
      BY <1>1
    <3>2. i \in DOMAIN input /\ i # n
      BY <1>1, <3>1
    <3> QED
      BY <1>1, <1>7, <3>1, <3>2 DEF v
  <2>2. l \in DOMAIN r /\ input[i] \in Range(r[l])
    <3>1. CASE l = k
      BY <1>2, <1>5, <1>6, <1>9, <2>1, <3>1
    <3>2. CASE l # k
      BY <1>5, <3>2
    <3> QED
      BY <3>1, <3>2
  <2>3. Range(r[l]) \subseteq Range(rr[l])
    BY <1>2, <1>5, <1>6, <2>2
  <2>4. CASE j # n
    <3>1. j \in 1 .. (n - 1)
      BY <1>1, <2>4
    <3>2. input[j] \in Range(r[l])
      BY <1>4, <2>1, <2>2, <3>1 DEF NoneMissing
    <3> QED
      BY <2>3, <3>2
  <2>5. CASE j = n
    <3>1. v.reply = input[i].id /\ v.reply # 0
      BY <1>1, <1>8, <2>1, <2>5 DEF v
    <3>2. PICK a \in DOMAIN r[l] : r[l][a] = input[i]
      BY <2>2 DEF Range
    <3>3. place[input[i].id] = l
      <4>1. place[r[l][a].id] = l
        BY <1>4, <2>2, <3>2 DEF Mapped
      <4> QED
        BY <3>2, <4>1
    <3>4. l = k
      BY <1>6, <3>1, <3>3
    <3> QED
      BY <1>2, <1>5, <2>5, <3>4 DEF v
  <2> QED
    BY <2>4, <2>5
<1>14. ASSUME NEW i \in 1 .. n, input[i].reply = 0
       PROVE  \E l \in DOMAIN rr : rr[l][1] = input[i]
  <2>1. CASE i = n
    <3>1. k \in DOMAIN rr /\ Len(t) = 0
      BY <1>5, <1>6, <1>14, <2>1 DEF v
    <3>2. rr[k][1] = v
      BY <1>2, <1>5, <3>1
    <3> QED
      BY <2>1, <3>1, <3>2 DEF v
  <2>2. CASE i # n
    <3>1. PICK l \in DOMAIN r : r[l][1] = input[i]
      BY <1>1, <1>4, <1>14, <2>2
    <3>2. CASE l # k
      BY <1>5, <3>1, <3>2
    <3>3. CASE l = k
      <4>1. t = r[k] /\ t # << >>
        BY <1>4, <1>6, <3>1, <3>3 DEF Grown
      <4>2. 1 \in DOMAIN t
        BY <4>1
      <4> QED
        BY <1>2, <1>5, <3>1, <3>3, <4>1, <4>2
    <3> QED
      BY <3>2, <3>3
  <2> QED
    BY <2>1, <2>2
<1> QED
  BY <1>5, <1>11, <1>12, <1>13, <1>14 DEF LoopInv, rr, pp

\* One message that no thread takes: what it answers is in none.
LEMMA MessageSkipped ==
  ASSUME NEW input, ProperExport(input), NEW n \in 1 .. Len(input),
         NEW loop, LoopInv(loop, input, n - 1),
         input[n].reply # 0, input[n].reply \notin DOMAIN loop.place
  PROVE  LoopInv(loop, input, n)
<1> DEFINE r == loop.r
           place == loop.place
<1>1. /\ n \in Nat
      /\ \A i \in 1 .. n : i = n \/ i \in 1 .. (n - 1)
      /\ \A i \in 1 .. (n - 1) : i \in 1 .. n
  <2>1. Len(input) \in Nat
    BY DEF ProperExport
  <2> QED
    BY <2>1
<1>2. /\ r \in Seq(Seq(Range(input)))
      /\ Mapped(r, place)
      /\ \A l \in DOMAIN r : Grown(r[l], input, n - 1) /\ NoneMissing(r[l], input, n - 1)
      /\ \A i \in 1 .. (n - 1) : input[i].reply = 0 => \E l \in DOMAIN r : r[l][1] = input[i]
  BY DEF LoopInv
<1>3. input[n].reply # 0 /\ input[n].reply \notin DOMAIN place
  OBVIOUS
<1> HIDE DEF r, place
<1>4. ASSUME NEW l \in DOMAIN r PROVE Grown(r[l], input, n)
  BY <1>1, <1>2, GrownStays
<1>5. ASSUME NEW l \in DOMAIN r PROVE NoneMissing(r[l], input, n)
  <2> SUFFICES ASSUME NEW i \in 1 .. n, NEW j \in 1 .. n, i < j, input[i] \in Range(r[l]),
                      input[j].reply = input[i].id
               PROVE  input[j] \in Range(r[l])
    BY DEF NoneMissing
  <2>1. CASE j = n
    <3>1. PICK a \in DOMAIN r[l] : r[l][a] = input[i]
      BY DEF Range
    <3>2. r[l][a].id \in DOMAIN place
      BY <1>2 DEF Mapped
    <3> QED
      BY <1>3, <2>1, <3>1, <3>2
  <2>2. CASE j # n
    <3>1. j \in 1 .. (n - 1)
      BY <1>1, <2>2
    <3>2. i \in 1 .. (n - 1)
      BY <1>1, <3>1
    <3> QED
      BY <1>2, <3>1, <3>2 DEF NoneMissing
  <2> QED
    BY <2>1, <2>2
<1>6. \A i \in 1 .. n : input[i].reply = 0 => \E l \in DOMAIN r : r[l][1] = input[i]
  BY <1>1, <1>2, <1>3
<1> QED
  BY <1>2, <1>4, <1>5, <1>6 DEF LoopInv, r, place

\* findThreads: one message of the loop.
LEMMA LoopStep ==
  ASSUME NEW input, ProperExport(input), NEW n \in 1 .. Len(input),
         NEW loop, LoopInv(loop, input, n - 1)
  PROVE  LoopInv(ThreadOf(loop, input[n]), input, n)
<1> DEFINE v == input[n]
           M == Range(input)
           next == ThreadOf(loop, v)
<1>1. loop.r \in Seq(Seq(M)) /\ Mapped(loop.r, loop.place) /\ v \in M
  BY DEF LoopInv, ProperExport, Range
<1> HIDE DEF M
<1>2. CASE v.reply = 0
  <2> DEFINE k == Len(loop.r) + 1
             t == << >>
  <2>1. next = [r |-> Append(loop.r, <<v>>), place |-> Put(loop.place, v.id, k)]
    BY <1>2 DEF ThreadOf
  <2>2. t \in Seq(M) /\ <<v>> = Append(t, v) /\ <<v>> \in Seq(M)
    BY <1>1
  <2>3. /\ Append(loop.r, <<v>>) \in Seq(Seq(M))
        /\ DOMAIN Append(loop.r, <<v>>) = DOMAIN loop.r \cup {k}
        /\ Append(loop.r, <<v>>)[k] = <<v>>
        /\ \A l \in DOMAIN loop.r : l # k => Append(loop.r, <<v>>)[l] = loop.r[l]
        /\ k \in 1 .. k
    BY <1>1, <2>2
  <2>4. /\ next.r \in Seq(Seq(M))
        /\ DOMAIN next.r = DOMAIN loop.r \cup {k}
        /\ next.r[k] = Append(t, v)
        /\ \A l \in DOMAIN loop.r : l # k => next.r[l] = loop.r[l]
        /\ next.place = Put(loop.place, v.id, k)
    BY <2>1, <2>2, <2>3
  <2> HIDE DEF next, t, k
  <2>5. k = Len(loop.r) + 1 /\ t = << >>
    BY DEF k, t
  <2>6. k \in 1 .. (Len(loop.r) + 1) /\ t \in Seq(Range(input)) /\ next.r \in Seq(Seq(Range(input)))
    BY <2>2, <2>3, <2>4, <2>5 DEF M
  <2>7. \/ k = Len(loop.r) + 1 /\ t = << >> /\ input[n].reply = 0
        \/ /\ k \in DOMAIN loop.r /\ t = loop.r[k] /\ input[n].reply # 0
           /\ input[n].reply \in DOMAIN loop.place /\ loop.place[input[n].reply] = k
    BY <1>2, <2>5
  <2>8. LoopInv(next, input, n)
    BY ONLY <2>4, <2>6, <2>7, MessagePlaced, ProperExport(input), n \in 1 .. Len(input),
            LoopInv(loop, input, n - 1)
  <2> QED
    BY <2>8 DEF next
<1>3. CASE v.reply # 0 /\ v.reply \notin DOMAIN loop.place
  <2>1. next = loop
    BY <1>3 DEF ThreadOf
  <2>2. LoopInv(loop, input, n)
    BY <1>3, MessageSkipped
  <2> QED
    BY <2>1, <2>2
<1>4. CASE v.reply # 0 /\ v.reply \in DOMAIN loop.place
  <2> DEFINE k == loop.place[v.reply]
             t == loop.r[k]
             rr == [loop.r EXCEPT ![k] = Append(t, v)]
  <2>1. next = [r |-> rr, place |-> Put(loop.place, v.id, k)]
    BY <1>4 DEF ThreadOf
  <2>2. k \in DOMAIN loop.r
    BY <1>1, <1>4 DEF Mapped
  <2>3. DOMAIN loop.r = 1 .. Len(loop.r) /\ Len(loop.r) \in Nat /\ t \in Seq(M)
    BY <1>1, <2>2
  <2>4. Append(t, v) \in Seq(M)
    BY <1>1, <2>3
  <2> HIDE DEF t, k
  <2>5. /\ rr \in Seq(Seq(M))
        /\ DOMAIN rr = DOMAIN loop.r \cup {k}
        /\ rr[k] = Append(t, v)
        /\ \A l \in DOMAIN loop.r : l # k => rr[l] = loop.r[l]
        /\ k \in 1 .. (Len(loop.r) + 1)
    BY <1>1, <2>2, <2>3, <2>4
  <2> HIDE DEF rr
  <2>6. /\ next.r \in Seq(Seq(M))
        /\ DOMAIN next.r = DOMAIN loop.r \cup {k}
        /\ next.r[k] = Append(t, v)
        /\ \A l \in DOMAIN loop.r : l # k => next.r[l] = loop.r[l]
        /\ next.place = Put(loop.place, v.id, k)
    BY <2>1, <2>5
  <2> HIDE DEF next
  <2>7. k = loop.place[v.reply] /\ t = loop.r[k]
    BY DEF k, t
  <2>8. k \in 1 .. (Len(loop.r) + 1) /\ t \in Seq(Range(input)) /\ next.r \in Seq(Seq(Range(input)))
    BY <2>3, <2>5, <2>6 DEF M
  <2>9. \/ k = Len(loop.r) + 1 /\ t = << >> /\ input[n].reply = 0
        \/ /\ k \in DOMAIN loop.r /\ t = loop.r[k] /\ input[n].reply # 0
           /\ input[n].reply \in DOMAIN loop.place /\ loop.place[input[n].reply] = k
    BY <1>4, <2>2, <2>7
  <2>10. LoopInv(next, input, n)
    BY ONLY <2>6, <2>8, <2>9, MessagePlaced, ProperExport(input), n \in 1 .. Len(input),
            LoopInv(loop, input, n - 1)
  <2> QED
    BY <2>10 DEF next
<1> QED
  BY <1>2, <1>3, <1>4

\* findThreads yields the threads of an export.
LEMMA ThreadsFound ==
  ASSUME NEW input, ProperExport(input)
  PROVE  LET threads == findThreads(input)
         IN /\ \A k \in DOMAIN threads : IsThread(threads[k], input)
            /\ \A i \in DOMAIN input :
                 input[i].reply = 0 => \E k \in DOMAIN threads : threads[k][1] = input[i]
            /\ \A k, l \in DOMAIN threads : threads[k][1] = threads[l][1] => k = l
<1> DEFINE n == Len(input)
<1>1. n \in Nat /\ DOMAIN input = 1 .. n
  BY DEF ProperExport
<1>2. PICK loop : /\ findThreads(input) = loop[n].r
                   /\ loop[0] = NothingFound
                   /\ \A i \in 1 .. n : loop[i] = ThreadOf(loop[i - 1], input[i])
  BY LoopRuns DEF ProperExport
<1> DEFINE T == {i \in 0 .. n : ~LoopInv(loop[i], input, i)}
<1>3. T = {}
  <2> SUFFICES ASSUME T # {} PROVE FALSE
    OBVIOUS
  <2>1. PICK m \in T : \A y \in T : m <= y
    <3>1. T \in SUBSET Nat
      BY <1>1
    <3> HIDE DEF T
    <3> QED
      BY <3>1, LeastNatural
  <2>2. LoopInv(loop[0], input, 0)
    <3>1. loop[0].r = << >> /\ loop[0].place = << >>
      BY <1>2 DEF NothingFound
    <3>2. << >> \in Seq(Seq(Range(input))) /\ DOMAIN << >> = {}
      OBVIOUS
    <3>3. Mapped(<< >>, << >>)
      BY <3>2 DEF Mapped
    <3> QED
      BY <3>1, <3>2, <3>3 DEF LoopInv
  <2>3. m \in 1 .. n
    BY <1>1, <2>1, <2>2
  <2>4. m - 1 \in 0 .. n /\ ~(m <= m - 1)
    BY <1>1, <2>3
  <2>5. m - 1 \notin T
    <3> HIDE DEF T
    <3> QED
      BY <2>1, <2>4
  <2>6. LoopInv(loop[m - 1], input, m - 1)
    BY <2>4, <2>5
  <2>7. LoopInv(ThreadOf(loop[m - 1], input[m]), input, m)
    BY <2>3, <2>6, LoopStep
  <2>8. LoopInv(loop[m], input, m)
    BY <1>2, <2>3, <2>7
  <2> QED
    BY <2>1, <2>8
<1>4. LoopInv(loop[n], input, n)
  BY <1>1, <1>3
<1> DEFINE threads == findThreads(input)
           place == loop[n].place
<1>5. /\ Mapped(threads, place)
      /\ \A k \in DOMAIN threads : Grown(threads[k], input, n) /\ NoneMissing(threads[k], input, n)
      /\ \A i \in 1 .. n : input[i].reply = 0 => \E k \in DOMAIN threads : threads[k][1] = input[i]
      /\ threads \in Seq(Seq(Range(input)))
  BY <1>2, <1>4 DEF LoopInv
<1> HIDE DEF threads, place
<1>6. \A k \in DOMAIN threads : IsThread(threads[k], input)
  <2> TAKE k \in DOMAIN threads
  <2> DEFINE t == threads[k]
  <2>1. Grown(t, input, n) /\ NoneMissing(t, input, n)
    BY <1>5
  <2> HIDE DEF t
  <2>2. /\ t # << >> /\ t[1].reply = 0
        /\ \A a \in 2 .. Len(t) : \E b \in 1 .. (a - 1) : t[a].reply = t[b].id
        /\ \A a, b \in DOMAIN t :
             a < b => \E i, j \in DOMAIN input : i < j /\ t[a] = input[i] /\ t[b] = input[j]
    BY <1>1, <2>1 DEF Grown
  <2>3. \A i, j \in DOMAIN input :
          i < j /\ input[i] \in Range(t) /\ input[j].reply = input[i].id => input[j] \in Range(t)
    BY <1>1, <2>1 DEF NoneMissing
  <2>4. IsThread(t, input)
    BY <2>2, <2>3 DEF IsThread
  <2> QED
    BY <2>4 DEF t
<1>7. \A k \in DOMAIN threads : 1 \in DOMAIN threads[k]
  <2> TAKE k \in DOMAIN threads
  <2>1. threads[k] \in Seq(Range(input)) /\ threads[k] # << >>
    BY <1>5 DEF Grown
  <2> QED
    BY <2>1
<1>8. \A k \in DOMAIN threads : place[threads[k][1].id] = k
  BY <1>5, <1>7 DEF Mapped
<1>9. \A k, l \in DOMAIN threads : threads[k][1] = threads[l][1] => k = l
  BY <1>8
<1> QED
  BY <1>1, <1>5, <1>6, <1>9 DEF threads

\* findThreads: for any export, what it yields is one thread for every first
\* message, with all the messages that answer it directly or through others
\* and no others, in their order.
THEOREM ThreadsAreReplies == Spec => []ThreadsFollowReplies
<1>1. ThreadsFollowReplies
  <2>1. \A input \in Inputs : ProperExport(input)
    BY InputsAssumption DEF ProperExport
  <2> QED
    BY <2>1, ThreadsFound DEF ThreadsFollowReplies
<1> QED
  BY <1>1, PTL
==============================================================================
