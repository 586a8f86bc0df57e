---------------------------- MODULE SqlStatement ----------------------------
(***************************************************************************)
(* The statements of internal/rdb on their way to the database: DB.Ready,  *)
(* the retries of single statements (sqlxdbWrapper), and the driver that   *)
(* wraps pgx with hooks (wrDriver, wrConn, wrStmt, wrTx, LoggerHook).      *)
(*                                                                         *)
(* database/sql and pgx are external.  What the code relies on is kept: a  *)
(* pool of at most MaxOpenConns connections; a call whose connection gives *)
(* ErrBadConn is repeated on another one, the third time on a new one; a   *)
(* context that is done ends the call under way, closes its connection and *)
(* rolls its transaction back; ErrBadConn means that nothing was sent.     *)
(*                                                                         *)
(* A kind of call stands for the methods that behave alike:                *)
(*   "exec"   Exec, ExecContext, Get, GetContext, SelectContext: retried,  *)
(*            the connection is given back when the statement is over;     *)
(*   "query"  QueryContext, QueryxContext: retried, the rows keep the      *)
(*            connection until they are closed;                            *)
(*   "row"    QueryRowxContext: not retried, keeps it as well;             *)
(*   "stmt"   PrepareNamedContext, retried, then one execution, not so;    *)
(*   "tx"     a transaction with one statement, as WithTx runs an F.       *)
(***************************************************************************)
EXTENDS Integers, FiniteSets

CONSTANTS
  Calls,         \* the calls, each of which is made once
  KindsOf,       \* the kinds that each of them may be of
  MaxOpenConns,  \* Config.MaxOpenConns
  SearchPath,    \* Config.SearchPath is not empty: "yes" or "no"
  DriverSlots,   \* maxWrappedDriversCount, 1000 in the code
  MaxConns,      \* bound: connections that exist at one time
  MaxCuts,       \* bound: idle connections that the server cuts off
  MaxAttempts    \* bound: attempts of one statement (the code has no limit)

ASSUME CallsAssumption == IsFiniteSet(Calls)
ASSUME KindsAssumption ==
  KindsOf \in [Calls -> SUBSET {"exec", "query", "row", "stmt", "tx"}]
ASSUME PathAssumption == SearchPath \in {"yes", "no"}
ASSUME BoundsAssumption ==
  /\ MaxOpenConns \in Nat \ {0} /\ DriverSlots \in Nat \ {0}
  /\ MaxConns \in Nat \ {0} /\ MaxCuts \in Nat /\ MaxAttempts \in Nat \ {0}

Conns == 1 .. MaxConns
NoConn == 0

Kinds == {"exec", "query", "row", "stmt", "tx"}

\* ActionEnum of sqldata: what the hooks are told about.
ActionEnum == {"prepare", "query", "exec", "tx", "begin", "commit", "rollback"}

\* Errors as the code tells them apart: "net" is one that isRetryable wants
\* repeated, "eof" a loss that it does not, "sql" the database's own error,
\* "bad" driver.ErrBadConn, "done" sql.ErrTxDone, "canceled" the context's.
Errors == {"net", "eof", "sql", "bad", "done", "canceled"}

VARIABLES
  db,     \* the DB: its session, the drivers registered, Ready's last error
  call,   \* the calls
  pool,   \* connections: "none", "new" while Connect runs, "idle", "held",
          \* or "leaked": open and in no pool
  link,   \* each one's connection to the server: "up", "cut" by the server
          \* and not noticed yet, "shut" by pgx
  tx,     \* the transaction on a connection: "none", "open", or what ends it
  hooks   \* Before calls minus After calls, per connection and action

vars == <<db, call, pool, link, tx, hooks>>

\* What a call keeps between its steps.
CallRecords ==
  [kind : Kinds, op : ActionEnum, ctx : {"live", "done"},
   pc : {"idle", "loop", "conn", "dial", "path", "send", "sent", "rows", "F", "finish",
         "returned"},
   attempt : 0 .. MaxAttempts, tries : 0 .. 2, conn : Conns \cup {NoConn},
   err : Errors \cup {"nil"}, effects : Nat, lost : Nat]

TypeOK ==
  /\ db \in [session : {"nil", "set"}, drivers : 0 .. DriverSlots,
             err : {"nil", "ping", "slots"}]
  /\ call \in [Calls -> CallRecords]
  /\ pool \in [Conns -> {"none", "new", "idle", "held", "leaked"}]
  /\ link \in [Conns -> {"up", "cut", "shut"}]
  /\ tx \in [Conns -> {"none", "open", "commit", "rollback", "watcher"}]
  /\ hooks \in [Conns -> [ActionEnum -> Int]]

Init ==
  /\ db = [session |-> "nil", drivers |-> 0, err |-> "nil"]
  /\ call = [c \in Calls |->
       [kind |-> "exec", op |-> "exec", ctx |-> "live", pc |-> "idle",
        attempt |-> 0, tries |-> 0, conn |-> NoConn, err |-> "nil",
        effects |-> 0, lost |-> 0]]
  /\ pool = [k \in Conns |-> "none"]
  /\ link = [k \in Conns |-> "shut"]
  /\ tx = [k \in Conns |-> "none"]
  /\ hooks = [k \in Conns |-> [a \in ActionEnum |-> 0]]

At(c, where) == call[c].pc = where

\* A connection to dial, if the bound leaves one.
Fresh == {k \in Conns : pool[k] = "none" /\ \A j \in 1 .. k - 1 : pool[j] # "none"}

-----------------------------------------------------------------------------
(* The hooks.  connIDHook adds the connection, LoggerHook logs the time    *)
(* between the two calls; what it writes is left out.                      *)

Before(h, k, as) == [h EXCEPT ![k] = [a \in ActionEnum |->
                                        IF a \in as THEN @[a] + 1 ELSE @[a]]]

After(h, k, as) == [h EXCEPT ![k] = [a \in ActionEnum |->
                                       IF a \in as THEN @[a] - 1 ELSE @[a]]]

-----------------------------------------------------------------------------
(* DB.Ready: a second call returns at once, and one that failed is         *)
(* repeated by the readiness of the application.                           *)

\* driver.Open registers one more driver, under a name that stays taken.
Opened(d) == [d EXCEPT !.drivers = @ + 1]

\* The new pool pings the database.  (The goroutine that reports metrics has
\* no part in what follows.)
Ready ==
  /\ db.session = "nil"
  /\ db.drivers < DriverSlots
  /\ \/ /\ db' = [Opened(db) EXCEPT !.session = "set", !.err = "nil"]
        /\ \E k \in Fresh : /\ pool' = [pool EXCEPT ![k] = "idle"]
                            /\ link' = [link EXCEPT ![k] = "up"]
     \/ /\ db' = [Opened(db) EXCEPT !.err = "ping"]
        /\ UNCHANGED <<pool, link>>
  /\ UNCHANGED <<call, tx, hooks>>

\* WrapDriverByName finds all names taken.
ReadyNoSlot ==
  /\ db.session = "nil"
  /\ db.drivers = DriverSlots
  /\ db' = [db EXCEPT !.err = "slots"]
  /\ UNCHANGED <<call, pool, link, tx, hooks>>

-----------------------------------------------------------------------------
(* One call, from the method of DB to the pool.                            *)

\* Mutant: the transaction of the context is not found.
MutAlwaysSession(r) == "session"

\* Inside a transaction the statement runs on it.
TxExecutorFromCtx(r) == IF r.kind = "tx" THEN "tx" ELSE "session"

\* The methods of sqlxdbWrapper that run under retry.Do.
Retries(r) == r.kind \in {"exec", "query"} \/ r.op = "prepare"

FirstOp(kind) ==
  CASE kind = "exec" -> "exec"
    [] kind \in {"query", "row"} -> "query"
    [] kind = "stmt" -> "prepare"
    [] kind = "tx" -> "begin"

Start(c) ==
  /\ At(c, "idle")
  /\ db.session = "set"
  /\ \E kind \in KindsOf[c] :
       LET r == [call[c] EXCEPT !.kind = kind, !.op = FirstOp(kind)]
       IN call' = [call EXCEPT
                     ![c] = [r EXCEPT !.pc = IF Retries(r) THEN "loop" ELSE "conn"]]
  /\ UNCHANGED <<db, pool, link, tx, hooks>>

CancelCtx(c) ==
  /\ call[c].pc \notin {"idle", "returned"}
  /\ call[c].ctx = "live"
  /\ call' = [call EXCEPT ![c].ctx = "done"]
  /\ UNCHANGED <<db, pool, link, tx, hooks>>

\* The call returns e; the variables of retry.Do and of database/sql are gone.
Returned(r, e) ==
  [r EXCEPT !.pc = "returned", !.err = e, !.attempt = 0, !.tries = 0]

\* retry.Do with pgretries.Strategy.
ShouldTry(r) == r.attempt = 0 \/ r.err = "net"

Attempt(c) ==
  /\ At(c, "loop") /\ call[c].ctx = "live"
  /\ ShouldTry(call[c])
  /\ call[c].attempt < MaxAttempts
  /\ call' = [call EXCEPT ![c].pc = "conn", ![c].tries = 0,
                          ![c].attempt = @ + 1]
  /\ UNCHANGED <<db, pool, link, tx, hooks>>

GiveUp(c) ==
  /\ At(c, "loop") /\ call[c].ctx = "live"
  /\ ~ShouldTry(call[c])
  /\ call' = [call EXCEPT ![c] = Returned(@, @.err)]
  /\ UNCHANGED <<db, pool, link, tx, hooks>>

\* Mutant: the breaker is looked at only when the strategies say no.
MutBreakerLast(c) ==
  /\ At(c, "loop") /\ call[c].ctx = "done"
  /\ ~ShouldTry(call[c])
  /\ call' = [call EXCEPT ![c] = Returned(@, "canceled")]
  /\ UNCHANGED <<db, pool, link, tx, hooks>>

BreakerDone(c) ==
  /\ At(c, "loop") /\ call[c].ctx = "done"
  /\ call' = [call EXCEPT ![c] = Returned(@, "canceled")]
  /\ UNCHANGED <<db, pool, link, tx, hooks>>

\* What follows a driver call that has succeeded: PrepareContext gives a
\* wrStmt, executed on any connection; QueryContext rows; BeginTx a wrTx.
Prepared(r) == [r EXCEPT !.pc = "conn", !.op = "exec", !.tries = 0, !.conn = NoConn]
GotRows(r) == [r EXCEPT !.pc = "rows", !.err = "nil"]
Began(r) == [r EXCEPT !.pc = "F", !.err = "nil"]

\* The call after the driver has answered e to its operation.  database/sql
\* repeats it on ErrBadConn, and retry.Do decides about other errors.
Ended(r, e) ==
  IF e = "bad" /\ r.tries < 2
  THEN [r EXCEPT !.pc = "conn", !.tries = @ + 1, !.conn = NoConn]
  ELSE CASE e = "nil" /\ r.op = "prepare" -> Prepared(r)
         [] e = "nil" /\ r.op = "query" -> GotRows(r)
         [] e = "nil" /\ r.op = "begin" -> Began(r)
         [] e # "nil" /\ Retries(r) -> [r EXCEPT !.pc = "loop", !.err = e, !.conn = NoConn]
         [] OTHER -> [Returned(r, e) EXCEPT !.conn = NoConn]

-----------------------------------------------------------------------------
(* database/sql: a connection for the call.                                *)

NumOpen == Cardinality({k \in Conns : pool[k] \in {"new", "idle", "held"}})
Idle == {k \in Conns : pool[k] = "idle"}

TakeIdle(c) ==
  /\ At(c, "conn") /\ call[c].ctx = "live"
  /\ call[c].tries < 2 \/ NumOpen = MaxOpenConns
  /\ \E k \in Idle :
       /\ pool' = [pool EXCEPT ![k] = "held"]
       /\ call' = [call EXCEPT ![c].pc = "send", ![c].conn = k]
  /\ UNCHANGED <<db, link, tx, hooks>>

Dial(c) ==
  /\ At(c, "conn") /\ call[c].ctx = "live"
  /\ call[c].tries = 2 \/ Idle = {}
  /\ NumOpen < MaxOpenConns
  /\ \E k \in Fresh :
       /\ pool' = [pool EXCEPT ![k] = "new"]
       /\ call' = [call EXCEPT ![c].pc = "dial", ![c].conn = k]
  /\ UNCHANGED <<db, link, tx, hooks>>

WaitCanceled(c) ==
  /\ At(c, "conn") /\ call[c].ctx = "done"
  /\ call' = [call EXCEPT ![c] = Ended(@, "canceled")]
  /\ UNCHANGED <<db, pool, link, tx, hooks>>

\* The server closes a connection that nobody uses; pgx does not notice.
Cut(k) ==
  /\ pool[k] = "idle" /\ link[k] = "up"
  /\ Cardinality({j \in Conns : link[j] = "cut"}) < MaxCuts
  /\ link' = [link EXCEPT ![k] = "cut"]
  /\ UNCHANGED <<db, call, pool, tx, hooks>>

\* wrConn.Close closes the connection it wraps.
CloseConn(k) ==
  /\ pool' = [pool EXCEPT ![k] = "none"]
  /\ link' = [link EXCEPT ![k] = "shut"]

\* A connection older than Config.MaxConnLifetime.
Expire(k) ==
  /\ pool[k] = "idle"
  /\ CloseConn(k)
  /\ UNCHANGED <<db, call, tx, hooks>>

\* A connection is given back, with the state l of its link.  Connect hides
\* the SessionResetter and the Validator of pgx, so that nothing but
\* ErrBadConn makes it leave the pool: it may be idle and shut.
GiveBack(k, e, l) ==
  IF e = "bad"
  THEN CloseConn(k)
  ELSE /\ pool' = [pool EXCEPT ![k] = "idle"]
       /\ link' = [link EXCEPT ![k] = l]

-----------------------------------------------------------------------------
(* wrDriver.Connect: dials, then runs the query of the search path.        *)

DialOk(c) ==
  /\ At(c, "dial")
  /\ LET k == call[c].conn
     IN IF SearchPath = "yes"
        THEN /\ call' = [call EXCEPT ![c].pc = "path"]
             /\ hooks' = Before(hooks, k, {"exec"})
             /\ UNCHANGED pool
        ELSE /\ call' = [call EXCEPT ![c].pc = "send"]
             /\ pool' = [pool EXCEPT ![k] = "held"]
             /\ UNCHANGED hooks
  /\ link' = [link EXCEPT ![call[c].conn] = "up"]
  /\ UNCHANGED <<db, tx>>

DialFails(c) ==
  /\ At(c, "dial")
  /\ \E e \in {"net", "sql"} \cup (IF call[c].ctx = "done" THEN {"canceled"} ELSE {}) :
       call' = [call EXCEPT ![c] = Ended(@, e)]
  /\ pool' = [pool EXCEPT ![call[c].conn] = "none"]
  /\ UNCHANGED <<db, link, tx, hooks>>

\* What the database may answer on connection k to the context x: an error,
\* whether the operation has been done, and the state of the link after it.
\* Nothing has been sent when pgx says ErrBadConn.
Replies(k, x) ==
  LET Reply(es, done, ls) == [err : es, did : done, link : ls]
  IN CASE link[k] = "up" ->
            Reply({"nil"}, {"yes"}, {"up"})
            \cup Reply({"sql"}, {"no"}, {"up"})
            \cup Reply({"net", "eof"}, {"yes", "no"}, {"shut"})
            \cup Reply({"bad"}, {"no"}, {"shut"})
            \cup IF x = "done" THEN Reply({"canceled"}, {"yes", "no"}, {"shut"})
                 ELSE {}
       [] link[k] = "cut" -> Reply({"net", "eof", "bad"}, {"no"}, {"shut"})
       [] link[k] = "shut" -> Reply({"bad"}, {"no"}, {"shut"})

\* SET search_path; when it fails the connection is dropped as it is.
PathAnswer(c) ==
  /\ At(c, "path")
  /\ LET k == call[c].conn IN
     \E r \in Replies(k, call[c].ctx) :
       /\ hooks' = After(hooks, k, {"exec"})
       /\ link' = [link EXCEPT ![k] = r.link]
       /\ IF r.err = "nil"
          THEN /\ call' = [call EXCEPT ![c].pc = "send"]
               /\ pool' = [pool EXCEPT ![k] = "held"]
          ELSE /\ call' = [call EXCEPT ![c] = Ended(@, r.err)]
               /\ pool' = [pool EXCEPT ![k] =
                     IF r.link = "up" THEN "leaked" ELSE "none"]
  /\ UNCHANGED <<db, tx>>

-----------------------------------------------------------------------------
(* One operation of the driver: wrConn.ExecContext, QueryContext,          *)
(* PrepareContext and BeginTx, wrStmt.ExecContext, wrTx.Commit and         *)
(* Rollback.                                                               *)

\* What the hooks are told when op begins; BeginTx also opens a "tx".
Opens(op) == IF op = "begin" THEN {"tx", "begin"} ELSE {op}

\* Mutant: the "tx" stays open when BEGIN fails.
MutCloses(op, e) == IF op \in {"commit", "rollback"} THEN {op, "tx"} ELSE {op}

\* What they are told when it has ended with e: "tx" ends with Commit, with
\* Rollback, or with a BeginTx that failed.
Closes(op, e) ==
  IF op \in {"commit", "rollback"} \/ (op = "begin" /\ e # "nil")
  THEN {op, "tx"}
  ELSE {op}

Send(c) ==
  /\ At(c, "send")
  /\ hooks' = Before(hooks, call[c].conn, Opens(call[c].op))
  /\ call' = [call EXCEPT ![c].pc = "sent"]
  /\ UNCHANGED <<db, pool, link, tx>>

\* A statement outside a transaction, and COMMIT, have an effect.
Counted(r, did) ==
  IF did = "yes" /\ (\/ r.op \in {"exec", "query"} /\ TxExecutorFromCtx(r) = "session"
                     \/ r.op = "commit")
  THEN 1 ELSE 0

Reported(r, reply) ==
  [r EXCEPT !.effects = @ + Counted(r, reply.did),
            !.lost = @ + IF reply.err = "nil" THEN 0 ELSE Counted(r, reply.did)]

\* The answer to what is not part of an open transaction.  Rows and a
\* transaction that has begun keep the connection.
Answer(c) ==
  /\ At(c, "sent")
  /\ LET k == call[c].conn IN
     /\ tx[k] = "none"
     /\ \E r \in Replies(k, call[c].ctx) :
          /\ hooks' = After(hooks, k, Closes(call[c].op, r.err))
          /\ call' = [call EXCEPT ![c] = Ended(Reported(@, r), r.err)]
          /\ IF r.err = "nil" /\ call[c].op \in {"query", "begin"}
             THEN UNCHANGED <<pool, link>>
             ELSE GiveBack(k, r.err, r.link)
          /\ tx' = [tx EXCEPT ![k] =
                IF r.err = "nil" /\ call[c].op = "begin" THEN "open" ELSE "none"]
  /\ UNCHANGED db

\* The rows are closed: by the caller, or when the context is done.
CloseRows(c) ==
  /\ At(c, "rows")
  /\ call' = [call EXCEPT ![c] = [Returned(@, @.err) EXCEPT !.conn = NoConn]]
  /\ \/ GiveBack(call[c].conn, "nil", link[call[c].conn])
     \/ call[c].ctx = "done" /\ GiveBack(call[c].conn, "nil", "shut")
  /\ UNCHANGED <<db, tx, hooks>>

-----------------------------------------------------------------------------
(* A transaction: F with one statement, and finishTx.                      *)

InF(c) ==
  /\ At(c, "F")
  /\ LET k == call[c].conn IN
     IF k # NoConn /\ tx[k] = "open"
     THEN /\ call' = [call EXCEPT ![c].pc = "sent", ![c].op = "exec"]
          /\ hooks' = Before(hooks, k, {"exec"})
     ELSE /\ \E e \in {"done", "canceled"} :
                call' = [call EXCEPT ![c].pc = "finish", ![c].err = e]
          /\ UNCHANGED hooks
  /\ UNCHANGED <<db, pool, link, tx>>

AnswerInF(c) ==
  /\ At(c, "sent")
  /\ LET k == call[c].conn IN
     /\ tx[k] = "open"
     /\ \E r \in Replies(k, call[c].ctx) :
          /\ hooks' = After(hooks, k, {"exec"})
          /\ link' = [link EXCEPT ![k] = r.link]
          /\ call' = [call EXCEPT ![c] =
                [Reported(@, r) EXCEPT !.pc = "finish", !.err = r.err]]
  /\ UNCHANGED <<db, pool, tx>>

\* finishTx calls Commit or Rollback of database/sql, which calls the driver
\* unless the transaction is over or, for Commit, the context is done; it
\* leaves a transaction alone that it takes to be over.
Finish(c) ==
  /\ At(c, "finish")
  /\ LET k == call[c].conn
         op == IF call[c].err = "nil" THEN "commit" ELSE "rollback"
     IN IF \/ call[c].err = "canceled"
           \/ op = "commit" /\ call[c].ctx = "done"
           \/ k = NoConn \/ tx[k] # "open"
        THEN /\ call' = [call EXCEPT ![c] =
                   Returned(@, IF op = "commit" THEN "canceled" ELSE @.err)]
             /\ UNCHANGED <<tx, hooks>>
        ELSE /\ call' = [call EXCEPT ![c].pc = "sent", ![c].op = op]
             /\ tx' = [tx EXCEPT ![k] = op]
             /\ hooks' = Before(hooks, k, {op})
  /\ UNCHANGED <<db, pool, link>>

AnswerFinish(c) ==
  /\ At(c, "sent")
  /\ LET k == call[c].conn IN
     /\ tx[k] \in {"commit", "rollback"}
     /\ \E r \in Replies(k, call[c].ctx) :
          /\ hooks' = After(hooks, k, Closes(tx[k], r.err))
          /\ call' = [call EXCEPT ![c] =
                [Returned(Reported(@, r), IF tx[k] = "commit" THEN r.err ELSE @.err)
                   EXCEPT !.conn = NoConn]]
          /\ GiveBack(k, r.err, r.link)
     /\ tx' = [tx EXCEPT ![k] = "none"]
  /\ UNCHANGED db

\* database/sql rolls back when the context is done and no statement runs,
\* and discards a connection whose driver cannot reset the session.
WatcherRollsBack(c) ==
  LET k == call[c].conn IN
  /\ k # NoConn /\ call[c].ctx = "done" /\ call[c].pc # "sent"
  /\ tx[k] = "open"
  /\ tx' = [tx EXCEPT ![k] = "watcher"]
  /\ hooks' = Before(hooks, k, {"rollback"})
  /\ UNCHANGED <<db, call, pool, link>>

WatcherAnswer(k) ==
  /\ tx[k] = "watcher"
  /\ hooks' = After(hooks, k, Closes("rollback", "nil"))
  /\ tx' = [tx EXCEPT ![k] = "none"]
  /\ CloseConn(k)
  /\ call' = [c \in Calls |-> IF call[c].conn = k
                              THEN [call[c] EXCEPT !.conn = NoConn] ELSE call[c]]
  /\ UNCHANGED db

-----------------------------------------------------------------------------
Step(c) ==
  \/ Attempt(c) \/ GiveUp(c) \/ BreakerDone(c)
  \/ TakeIdle(c) \/ Dial(c) \/ WaitCanceled(c) \/ DialOk(c) \/ DialFails(c)
  \/ PathAnswer(c) \/ Send(c) \/ Answer(c) \/ InF(c) \/ AnswerInF(c)
  \/ Finish(c) \/ AnswerFinish(c) \/ WatcherRollsBack(c)

Next ==
  \/ Ready \/ ReadyNoSlot
  \/ \E c \in Calls : Start(c) \/ CancelCtx(c) \/ Step(c) \/ CloseRows(c)
  \/ \E k \in Conns : Cut(k) \/ Expire(k) \/ WatcherAnswer(k)

\* Fair: the steps of the code and what database/sql and pgx do for a call;
\* pgx answers because every call carries the context and may be interrupted.
\* Rows are closed by database/sql at the latest when the context is done.
Fairness ==
  /\ \A c \in Calls :
       /\ WF_vars(Step(c))
       /\ WF_vars(call[c].ctx = "done" /\ CloseRows(c))
  /\ \A k \in Conns : WF_vars(WatcherAnswer(k))

Spec == Init /\ [][Next]_vars /\ Fairness

-----------------------------------------------------------------------------
(* Properties.                                                             *)

\* The hooks of the driver come in pairs (wrConn, wrStmt, wrTx): no action is
\* open twice or ended twice on a connection; one that no call has and no
\* watcher rolls back has none open; and "tx" is open exactly while BEGIN
\* runs or a transaction is on the connection, whoever ends it.
HooksPair ==
  \A k \in Conns :
    /\ \A a \in ActionEnum : hooks[k][a] \in {0, 1}
    /\ pool[k] \in {"none", "idle", "leaked"} =>
         \A a \in ActionEnum : hooks[k][a] = 0
    /\ hooks[k]["tx"] = 1 <=> tx[k] # "none" \/ hooks[k]["begin"] = 1

\* What a caller may conclude from the result of a statement: nil means that
\* it was done; an error, that it was done as often as the answer was lost,
\* and not at all in a transaction that was not committed.  Only the methods
\* under retry.Do do anything twice, and only after an answer was lost.
EffectsAreJustified ==
  \A c \in Calls : call[c].pc \in {"rows", "returned"} =>
    /\ call[c].err = "nil" => call[c].effects = call[c].lost + 1
    /\ call[c].err # "nil" => call[c].effects = call[c].lost
    /\ call[c].kind \in {"row", "stmt", "tx"} => call[c].effects <= 1

\* A call whose context is done returns, and the transaction it had is ended
\* and its hooks with it, whoever does it: finishTx, which leaves it alone
\* after a cancellation, or database/sql.
StatementEnds ==
  \A c \in Calls :
    call[c].ctx = "done" ~>
      call[c].pc = "returned" /\ call[c].conn = NoConn
=============================================================================
