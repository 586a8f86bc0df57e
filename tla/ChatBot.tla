------------------------------ MODULE ChatBot -------------------------------
(***************************************************************************)
(* The bot of app/telegramsearch around one database: the export of a chat *)
(* is cut into threads and stored (telegram load), threads get embeddings  *)
(* (embeddings generate), and the handlers of Telegram messages answer     *)
(* from them and explain their last answer.  The concurrent search of one  *)
(* question is in module ParallelSearch; here it finds something or not.   *)
(*                                                                         *)
(* Statements go through internal/rdb, which repeats one when its answer   *)
(* is lost, whether or not it has taken effect.  Texts, vectors and dates  *)
(* are left out.                                                           *)
(***************************************************************************)
EXTENDS Integers, Sequences, FiniteSets, SequencesExt

CONSTANTS
  Export,     \* the messages of an exported chat: [id, type, reply]
  Inputs,     \* sequences of messages findThreads is checked for
  Dumps,      \* processes that load the export
  Batch,      \* limit of FetchChatThreadToGenerateEmbedding
  MaxRows,    \* bound: rows of chatthreads
  Messages,   \* Telegram messages: [id, sender, chat, kind]
  Scenarios   \* rows stored before, loads run and messages sent together: [rows, dumps, messages]

\* Ids of Telegram are not zero: the sender 0 stands for public chats.
ASSUME SendersAssumption == \A m \in Messages : m.sender # 0

VARIABLES
  dump,      \* each load: [pc, left, failed]
  rows,      \* chatthreads: the thread each row holds
  embedded,  \* rows with an embedding
  gen,       \* GenerateEmbeddings: [pc, batch, failed], and the rows when it began
  handler,   \* what has become of each Telegram message
  cache,     \* explainedMessagesCache: the question explained, by sender
  saved,     \* questions in the order their sources were cached
  before,    \* length of saved when the handler of a message began
  explained  \* the question each /explain was answered with

storage == <<dump, rows, embedded, gen>>
telegram == <<handler, cache, saved, before, explained>>
vars == <<storage, telegram>>

-----------------------------------------------------------------------------
\* Threads of an export.

\* An assignment to a Go map.
Put(m, key, value) == [x \in DOMAIN m \cup {key} |-> IF x = key THEN value ELSE m[x]]

\* Mutant: an answer to an answer is looked for among the first messages.
MutThreadOfRoots(found, v) ==
  IF v.reply = 0
  THEN [r |-> Append(found.r, <<v>>), place |-> Put(found.place, v.id, Len(found.r) + 1)]
  ELSE IF v.reply \notin DOMAIN found.place THEN found
  ELSE [found EXCEPT !.r[found.place[v.reply]] = Append(@, v)]

\* One message of the loop: r are the threads, place is mapMsgToThreadIdx.
ThreadOf(found, v) ==
  IF v.reply = 0
  THEN [r |-> Append(found.r, <<v>>), place |-> Put(found.place, v.id, Len(found.r) + 1)]
  ELSE IF v.reply \notin DOMAIN found.place THEN found
  ELSE LET k == found.place[v.reply]
       IN [r |-> [found.r EXCEPT ![k] = Append(@, v)], place |-> Put(found.place, v.id, k)]

findThreads(input) ==
  LET found[i \in 0 .. Len(input)] ==
        IF i = 0 THEN [r |-> << >>, place |-> << >>] ELSE ThreadOf(found[i - 1], input[i])
  IN found[Len(input)].r

threadsHighMem(messages) ==
  SelectSeq(findThreads(SelectSeq(messages, LAMBDA v : v.type = "message")),
            LAMBDA t : Len(t) > 1)

Threads == threadsHighMem(Export)

\* The messages of a chat have different ids, and 0 is none of them.
ASSUME InputsAssumption ==
  \A input \in Inputs :
    /\ input \in Seq(Range(input))
    /\ \A i \in DOMAIN input : input[i].id # 0
    /\ \A i, j \in DOMAIN input : input[i].id = input[j].id => i = j

ASSUME RowsAssumption == \A s \in Scenarios : s.rows \in Seq(DOMAIN Threads)

-----------------------------------------------------------------------------
NoQuestion == [id |-> 0, sender |-> 0, chat |-> "none", kind |-> "none"]

Init ==
  /\ \E s \in Scenarios :
       /\ dump = [d \in Dumps |-> [pc |-> IF d \in s.dumps THEN "idle" ELSE "off", left |-> {},
                                   failed |-> FALSE]]
       /\ handler = [m \in Messages |-> IF m \in s.messages THEN "new" ELSE "off"]
       /\ rows = s.rows
  /\ embedded = {}
  /\ gen = [pc |-> "idle", batch |-> {}, failed |-> FALSE, since |-> 0]
  /\ cache = [s \in {0} \cup {m.sender : m \in Messages} |-> NoQuestion]
  /\ saved = << >> /\ before = [m \in Messages |-> 0]
  /\ explained = [m \in Messages |-> NoQuestion]

\* DumpChatHistory: a task of the pool for every thread.
DumpBegins(d) ==
  /\ dump[d].pc = "idle"
  /\ dump' = [dump EXCEPT ![d].pc = "storing", ![d].left = DOMAIN Threads]
  /\ UNCHANGED <<rows, embedded, gen, telegram>>

\* CreateChatThread, committed: the answer arrives, or is lost and the
\* statement is sent again.
CreateChatThread(d, k, answered) ==
  /\ dump[d].pc = "storing" /\ k \in dump[d].left /\ Len(rows) < MaxRows
  /\ rows' = Append(rows, k)
  /\ dump' = [dump EXCEPT ![d].left = IF answered THEN @ \ {k} ELSE @]
  /\ UNCHANGED <<embedded, gen, telegram>>

\* An error that is not retryable; the other tasks go on.
CreateChatThreadFails(d, k) ==
  /\ dump[d].pc = "storing" /\ k \in dump[d].left
  /\ dump' = [dump EXCEPT ![d].left = @ \ {k}, ![d].failed = TRUE]
  /\ UNCHANGED <<rows, embedded, gen, telegram>>

\* Mutant: the result of the pool is the one of its first task.
MutDumpReturns(d) ==
  /\ dump[d].pc = "storing" /\ dump[d].left # DOMAIN Threads
  /\ dump' = [dump EXCEPT ![d].pc = IF dump[d].failed THEN "err" ELSE "nil"]
  /\ UNCHANGED <<rows, embedded, gen, telegram>>

\* p.Wait.
DumpReturns(d) ==
  /\ dump[d].pc = "storing" /\ dump[d].left = {}
  /\ dump' = [dump EXCEPT ![d].pc = IF dump[d].failed THEN "err" ELSE "nil"]
  /\ UNCHANGED <<rows, embedded, gen, telegram>>

\* The command is killed: what it has stored stays.
DumpKilled(d) ==
  /\ dump[d].pc = "storing"
  /\ dump' = [dump EXCEPT ![d].pc = "killed", ![d].left = {}]
  /\ UNCHANGED <<rows, embedded, gen, telegram>>

-----------------------------------------------------------------------------
\* GenerateEmbeddings.

GenerateBegins ==
  /\ gen.pc = "idle"
  /\ gen' = [gen EXCEPT !.pc = "fetch", !.since = Len(rows)]
  /\ UNCHANGED <<dump, rows, embedded, telegram>>

\* The threads without an embedding, as many as the limit allows; none of
\* them, and the loop ends.
FetchChatThreadToGenerateEmbedding ==
  /\ gen.pc = "fetch"
  /\ LET missing == DOMAIN rows \ embedded IN
       IF missing = {} THEN gen' = [gen EXCEPT !.pc = "nil"]
       ELSE \E batch \in SUBSET missing :
              /\ Cardinality(batch) = IF Cardinality(missing) < Batch THEN Cardinality(missing) ELSE Batch
              /\ gen' = [gen EXCEPT !.pc = "pool", !.batch = batch]
  /\ UNCHANGED <<dump, rows, embedded, telegram>>

FetchFails ==
  /\ gen.pc = "fetch"
  /\ gen' = [gen EXCEPT !.pc = "err"]
  /\ UNCHANGED <<dump, rows, embedded, telegram>>

\* A task of the pool that ends without an embedding and without an error: the
\* thread has no answers, or OpenAI fails or gives nothing.
EmbedNothing(r) ==
  /\ gen.pc = "pool" /\ r \in gen.batch
  /\ gen' = [gen EXCEPT !.batch = @ \ {r}]
  /\ UNCHANGED <<dump, rows, embedded, telegram>>

\* OpenAI answers and the embedding is stored.
UpsertEmbedding(r) ==
  /\ gen.pc = "pool" /\ r \in gen.batch /\ Len(Threads[rows[r]]) >= 2
  /\ embedded' = embedded \cup {r}
  /\ gen' = [gen EXCEPT !.batch = @ \ {r}]
  /\ UNCHANGED <<dump, rows, telegram>>

\* It cannot be stored, or the thread cannot be shown to a user: ForShowingToTheUser
\* fails, or panics on a date, which p.Wait raises again after the other tasks.
UpsertFails(r) ==
  /\ gen.pc = "pool" /\ r \in gen.batch /\ Len(Threads[rows[r]]) >= 2
  /\ gen' = [gen EXCEPT !.batch = @ \ {r}, !.failed = TRUE]
  /\ UNCHANGED <<dump, rows, embedded, telegram>>

\* Mutant: the loop ends with the first page that leaves less than another one.
MutLastPage ==
  /\ gen.pc = "pool" /\ gen.batch = {}
  /\ gen' = [gen EXCEPT !.pc = IF gen.failed THEN "err"
                               ELSE IF Cardinality(DOMAIN rows \ embedded) < Batch THEN "nil"
                               ELSE "fetch"]
  /\ UNCHANGED <<dump, rows, embedded, telegram>>

\* p.Wait: an error ends the loop, else it fetches again.
NextRound ==
  /\ gen.pc = "pool" /\ gen.batch = {}
  /\ gen' = [gen EXCEPT !.pc = IF gen.failed THEN "err" ELSE "fetch"]
  /\ UNCHANGED <<dump, rows, embedded, telegram>>

Generate ==
  \/ FetchChatThreadToGenerateEmbedding \/ NextRound
  \/ \E r \in gen.batch : EmbedNothing(r) \/ UpsertEmbedding(r)

-----------------------------------------------------------------------------
\* The handlers of bottransport, each message in a goroutine of its own.

IsQuestion(m) == <<m.chat, m.kind>> \in {<<"private", "text">>, <<"public", "mention">>}

\* Public chats share the sender 0.
SenderOf(m) == IF m.chat = "public" THEN 0 ELSE m.sender

Finish(m) == handler' = [handler EXCEPT ![m] = "done"]

\* /start, /help and /news are answered with a text; other messages of public
\* chats are ignored, and a mention that is no reply panics on m.ReplyTo,
\* which telebot recovers.
HandlePlain(m) ==
  /\ handler[m] = "new"
  /\ m.kind \in {"start", "help", "news"} \/ (m.chat = "public" /\ m.kind # "mention")
  /\ Finish(m)
  /\ UNCHANGED <<storage, cache, saved, before, explained>>

\* ExplainMessage: what the cache has for the sender.
ExplainMessage(m) ==
  /\ handler[m] = "new" /\ m.kind = "explain" /\ m.chat = "private"
  /\ explained' = [explained EXCEPT ![m] = cache[m.sender]]
  /\ before' = [before EXCEPT ![m] = Len(saved)]
  /\ Finish(m)
  /\ UNCHANGED <<storage, cache, saved>>

\* TryCompletion begins.
Ask(m) ==
  /\ handler[m] = "new" /\ IsQuestion(m)
  /\ handler' = [handler EXCEPT ![m] = "asking"]
  /\ before' = [before EXCEPT ![m] = Len(saved)]
  /\ UNCHANGED <<storage, cache, saved, explained>>

\* It fails, or finds nothing, or cannot cache what it found.
CompletionUncached(m) ==
  /\ handler[m] = "asking"
  /\ handler' = [handler EXCEPT ![m] = "answered"]
  /\ UNCHANGED <<storage, cache, saved, before, explained>>

\* Mutant: an entry of the cache is not replaced.
MutSaveKeepsOld(m) ==
  /\ handler[m] = "asking" /\ embedded # {}
  /\ cache' = [cache EXCEPT ![SenderOf(m)] = IF @ = NoQuestion THEN m ELSE @]
  /\ saved' = Append(saved, m)
  /\ handler' = [handler EXCEPT ![m] = "answered"]
  /\ UNCHANGED <<storage, before, explained>>

\* It finds something, OpenAI answers, and saveCacheItem keeps the sources.
CompletionCached(m) ==
  /\ handler[m] = "asking" /\ embedded # {}
  /\ cache' = [cache EXCEPT ![SenderOf(m)] = m]
  /\ saved' = Append(saved, m)
  /\ handler' = [handler EXCEPT ![m] = "answered"]
  /\ UNCHANGED <<storage, before, explained>>

\* The answer is sent, or an error logged.
Reply(m) ==
  /\ handler[m] = "answered"
  /\ Finish(m)
  /\ UNCHANGED <<storage, cache, saved, before, explained>>

\* An entry is forgotten after its time.
Expire(s) ==
  /\ cache[s] # NoQuestion
  /\ cache' = [cache EXCEPT ![s] = NoQuestion]
  /\ UNCHANGED <<storage, handler, saved, before, explained>>

Next ==
  \/ \E d \in Dumps :
       \/ DumpBegins(d) \/ DumpReturns(d) \/ DumpKilled(d)
       \/ \E k \in DOMAIN Threads :
            \/ CreateChatThreadFails(d, k)
            \/ \E answered \in BOOLEAN : CreateChatThread(d, k, answered)
  \/ GenerateBegins \/ FetchFails \/ Generate \/ \E r \in gen.batch : UpsertFails(r)
  \/ \E m \in Messages :
       HandlePlain(m) \/ ExplainMessage(m) \/ Ask(m)
         \/ CompletionUncached(m) \/ CompletionCached(m) \/ Reply(m)
  \/ \E s \in DOMAIN cache : Expire(s)

Spec == Init /\ [][Next]_vars

-----------------------------------------------------------------------------
\* A first message and all the messages that answer it, directly or through
\* other answers, in the order of the export.
IsThread(t, input) ==
  /\ t # << >> /\ t[1].reply = 0
  /\ \A a \in 2 .. Len(t) : \E b \in 1 .. (a - 1) : t[a].reply = t[b].id
  /\ \A i, j \in DOMAIN input :
       i < j /\ input[i] \in Range(t) /\ input[j].reply = input[i].id => input[j] \in Range(t)
  /\ \A a, b \in DOMAIN t :
       a < b => \E i, j \in DOMAIN input : i < j /\ t[a] = input[i] /\ t[b] = input[j]

\* findThreads yields one thread for every message that answers none, and so
\* what answers a deleted message belongs to no thread.
ThreadsFollowReplies ==
  (\A d \in Dumps : dump[d].pc = "idle") /\ rows = << >> =>
  \A input \in Inputs :
    LET threads == findThreads(input)
    IN /\ \A k \in DOMAIN threads : IsThread(threads[k], input)
       /\ \A i \in DOMAIN input :
            input[i].reply = 0 => \E k \in DOMAIN threads : threads[k][1] = input[i]
       /\ \A k, l \in DOMAIN threads : threads[k][1] = threads[l][1] => k = l

\* A load that reports success has stored every thread of the export, at
\* least once, whatever other loads, lost answers and failed statements were
\* in between (DumpChatHistory).  It may have stored one more than once.
DumpIsComplete ==
  \A d \in Dumps : dump[d].pc = "nil" => DOMAIN Threads \subseteq Range(rows)

\* GenerateEmbeddings returns nil only when every thread that was stored when it
\* began has its embedding, although the errors of OpenAI are dropped on the way
\* and loads go on storing.  (A thread that never gets one keeps the loop going.)
NilMeansEmbedded == gen.pc = "nil" => 1 .. gen.since \subseteq embedded

\* What /explain explains is the answer to the sender's own question that was
\* cached last, of all that were cached when it was asked for, also when the
\* questions overlap and other chats are answered in between (ExplainMessage,
\* saveCacheItem).
ExplainsOwnLastAnswer ==
  \A m \in Messages : explained[m] # NoQuestion =>
    LET own(i) == saved[i].sender = m.sender /\ saved[i].chat = "private"
    IN \E i \in 1 .. before[m] :
         /\ saved[i] = explained[m] /\ own(i)
         /\ \A j \in 1 .. before[m] : own(j) => j <= i
=============================================================================
