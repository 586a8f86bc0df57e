------------------------- MODULE SqlStatementProofs -------------------------
(***************************************************************************)
(* The hooks of the wrapped driver and the effects of statements, for any  *)
(* number of calls, of connections and of attempts.                        *)
(*                                                                         *)
(* HooksPair speaks of connections alone, but what is open on one follows  *)
(* from the call that has it: so the invariant says which call that is,    *)
(* that it is the only one, and what a connection without one looks like.  *)
(* EffectsAreJustified speaks of calls that have returned; the invariant   *)
(* keeps the account of a call on its way.                                 *)
(*                                                                         *)
(* Then the texts: what the parsers of arrays and of connection strings    *)
(* read is what was written, for texts of any length.  Their loops are     *)
(* followed one character, one element and one option at a time.           *)
(***************************************************************************)
EXTENDS SqlValues, FiniteSetTheorems, NaturalsInduction, WellFoundedInduction, TLAPS

\* The actions as are open, and no others.
Only(as) == [a \in ActionEnum |-> IF a \in as THEN 1 ELSE 0]

\* What the hooks have open on the connection of call r, whose transaction is
\* in state t.
Running(r, t) ==
  IF r.pc = "path" THEN {"exec"}
  ELSE IF r.pc = "sent" THEN IF t = "none" THEN Opens(r.op) ELSE {r.op, "tx"}
  ELSE IF t = "open" THEN {"tx"}
  ELSE IF t = "watcher" THEN {"tx", "rollback"}
  ELSE {}

\* The state of a transaction that fits the operation under way.
TxFits(r, t) ==
  /\ r.pc \in {"dial", "path", "send", "rows"} => t = "none"
  /\ r.pc \in {"F", "finish", "returned"} => t \in {"open", "watcher"}
  /\ r.pc = "sent" /\ t = "none" => r.op \in {"exec", "query", "prepare", "begin"}
  /\ r.pc = "sent" /\ t = "none" /\ r.kind = "tx" => r.op = "begin"
  /\ r.pc = "sent" /\ t # "none" => r.kind = "tx" /\ t \in {"open", "commit", "rollback"}
  /\ r.pc = "sent" /\ t = "open" => r.op = "exec"
  /\ r.pc = "sent" /\ t \in {"commit", "rollback"} => r.op = t
  /\ r.pc = "sent" /\ t = "rollback" => r.err # "nil"

\* Call r has a connection that is in pool state p, transaction state t and
\* with hooks h.
Has(r, p, t, h) ==
  /\ r.pc \notin {"idle", "loop", "conn"}
  /\ p = IF r.pc \in {"dial", "path"} THEN "new" ELSE "held"
  /\ TxFits(r, t)
  /\ h = Only(Running(r, t))

\* No call has the connection.
Free(p, t, h) ==
  /\ p \in {"none", "idle", "leaked"} /\ t = "none" /\ h = Only({})

\* The operation a call of its kind is at.
OpFits(r) ==
  /\ r.kind = "exec" => r.op = "exec"
  /\ r.kind \in {"query", "row"} => r.op = "query"
  /\ r.kind = "stmt" => r.op \in {"prepare", "exec"}
  /\ r.kind = "tx" => r.op \in {"begin", "exec", "commit", "rollback"}
  /\ r.kind = "tx" /\ r.pc \in {"conn", "dial", "path", "send"} => r.op = "begin"

PcFits(r) ==
  /\ r.pc \in {"idle", "loop", "conn"} => r.conn = NoConn
  /\ r.pc \in {"dial", "path", "send", "sent", "rows"} => r.conn # NoConn
  /\ r.pc \in {"F", "finish"} => r.kind = "tx"
  /\ r.pc = "rows" => r.kind \in {"query", "row"} /\ r.err = "nil"
  /\ r.pc = "loop" => Retries(r) /\ (r.attempt # 0 => r.err # "nil")
  /\ r.pc = "idle" => r.effects = 0 /\ r.attempt = 0

\* Only a call that is over, or has its rows, has done more than was lost.
EffectsFit(r) ==
  /\ r.effects = IF r.pc = "rows" \/ (r.pc = "returned" /\ r.err = "nil")
                 THEN r.lost + 1 ELSE r.lost
  /\ r.kind \in {"row", "stmt", "tx"} =>
       r.effects <= 1 /\ (r.pc \notin {"rows", "returned"} => r.effects = 0)

Types ==
  /\ call \in [Calls -> CallRecords]
  /\ pool \in [Conns -> {"none", "new", "idle", "held", "leaked"}]
  /\ link \in [Conns -> {"up", "cut", "shut"}]
  /\ tx \in [Conns -> {"none", "open", "commit", "rollback", "watcher"}]
  /\ hooks \in [Conns -> [ActionEnum -> Int]]

CallsFit == \A c \in Calls : OpFits(call[c]) /\ PcFits(call[c]) /\ EffectsFit(call[c])

Owned ==
  \A c \in Calls : call[c].conn # NoConn =>
    Has(call[c], pool[call[c].conn], tx[call[c].conn], hooks[call[c].conn])

OneOwner ==
  \A c, d \in Calls : call[c].conn # NoConn /\ call[c].conn = call[d].conn => c = d

Unowned ==
  \A k \in Conns : (\A c \in Calls : call[c].conn # k) => Free(pool[k], tx[k], hooks[k])

StatementInv == Types /\ CallsFit /\ Owned /\ OneOwner /\ Unowned
-----------------------------------------------------------------------------
\* Hooks.

PoolStates == {"none", "new", "idle", "held", "leaked"}
LinkStates == {"up", "cut", "shut"}
TxStates == {"none", "open", "commit", "rollback", "watcher"}

LEMMA ConnsArePositive == NoConn \notin Conns
BY BoundsAssumption DEF Conns, NoConn

\* With bs open, opening as leaves cs open; and so does ending as.
Opening(as, bs, cs) == \A a \in ActionEnum : /\ a \in as => a \notin bs
                                             /\ a \in cs <=> a \in bs \/ a \in as
Ending(as, bs, cs) == \A a \in ActionEnum : /\ a \in as => a \in bs
                                            /\ a \in cs <=> a \in bs /\ a \notin as

\* Before opens actions that were not open, After ends those that were.
LEMMA HooksOpen ==
  ASSUME hooks \in [Conns -> [ActionEnum -> Int]], NEW k \in Conns, NEW as, NEW bs, NEW cs,
         hooks[k] = Only(bs), Opening(as, bs, cs), hooks' = Before(hooks, k, as)
  PROVE  /\ hooks' \in [Conns -> [ActionEnum -> Int]]
         /\ hooks'[k] = Only(cs)
         /\ \A j \in Conns : j # k => hooks'[j] = hooks[j]
<1> DEFINE g == [a \in ActionEnum |-> IF a \in as THEN hooks[k][a] + 1 ELSE hooks[k][a]]
<1>1. hooks' = [hooks EXCEPT ![k] = g]
  BY DEF Before
<1>2. \A a \in ActionEnum : hooks[k][a] = IF a \in bs THEN 1 ELSE 0
  BY DEF Only
<1>3. ASSUME NEW a \in ActionEnum
      PROVE  (IF a \in as THEN hooks[k][a] + 1 ELSE hooks[k][a]) = IF a \in cs THEN 1 ELSE 0
  <2>1. CASE a \in as
    <3>1. hooks[k][a] = 0
      BY <1>2, <2>1, Zenon DEF Opening
    <3>2. a \in cs
      BY <2>1 DEF Opening
    <3> QED
      BY <2>1, <3>1, <3>2
  <2>2. CASE a \notin as
    BY <1>2, <2>2 DEF Opening
  <2> QED
    BY <2>1, <2>2
<1>4. g = Only(cs)
  BY <1>3, Zenon DEF Only
<1>5. Only(cs) \in [ActionEnum -> Int]
  BY DEF Only
<1> HIDE DEF g
<1> QED
  BY <1>1, <1>4, <1>5

LEMMA HooksEnd ==
  ASSUME hooks \in [Conns -> [ActionEnum -> Int]], NEW k \in Conns, NEW as, NEW bs, NEW cs,
         hooks[k] = Only(bs), Ending(as, bs, cs), hooks' = After(hooks, k, as)
  PROVE  /\ hooks' \in [Conns -> [ActionEnum -> Int]]
         /\ hooks'[k] = Only(cs)
         /\ \A j \in Conns : j # k => hooks'[j] = hooks[j]
<1> DEFINE g == [a \in ActionEnum |-> IF a \in as THEN hooks[k][a] - 1 ELSE hooks[k][a]]
<1>1. hooks' = [hooks EXCEPT ![k] = g]
  BY DEF After
<1>2. \A a \in ActionEnum : hooks[k][a] = IF a \in bs THEN 1 ELSE 0
  BY DEF Only
<1>3. ASSUME NEW a \in ActionEnum
      PROVE  (IF a \in as THEN hooks[k][a] - 1 ELSE hooks[k][a]) = IF a \in cs THEN 1 ELSE 0
  <2>1. CASE a \in as
    <3>1. hooks[k][a] = 1
      BY <1>2, <2>1, Zenon DEF Ending
    <3>2. a \notin cs
      BY <2>1 DEF Ending
    <3> QED
      BY <2>1, <3>1, <3>2
  <2>2. CASE a \notin as
    BY <1>2, <2>2 DEF Ending
  <2> QED
    BY <2>1, <2>2
<1>4. g = Only(cs)
  BY <1>3, Zenon DEF Only
<1>5. Only(cs) \in [ActionEnum -> Int]
  BY DEF Only
<1> HIDE DEF g
<1> QED
  BY <1>1, <1>4, <1>5

-----------------------------------------------------------------------------
\* One call moves, with the connection it has, gets or gives back.
LEMMA CallMoves ==
  ASSUME StatementInv, NEW c \in Calls, NEW r \in CallRecords,
         OpFits(r), PcFits(r), EffectsFit(r),
         call' = [call EXCEPT ![c] = r],
         pool' \in [Conns -> PoolStates], link' \in [Conns -> LinkStates],
         tx' \in [Conns -> TxStates], hooks' \in [Conns -> [ActionEnum -> Int]],
         \A k \in Conns : k # call[c].conn /\ k # r.conn =>
            pool'[k] = pool[k] /\ tx'[k] = tx[k] /\ hooks'[k] = hooks[k],
         r.conn # NoConn => Has(r, pool'[r.conn], tx'[r.conn], hooks'[r.conn]),
         r.conn \notin {NoConn, call[c].conn} => \A d \in Calls : call[d].conn # r.conn,
         call[c].conn \notin {NoConn, r.conn} =>
            Free(pool'[call[c].conn], tx'[call[c].conn], hooks'[call[c].conn])
  PROVE  StatementInv'
<1>1. /\ call \in [Calls -> CallRecords]
      /\ call'[c] = r /\ \A d \in Calls : d # c => call'[d] = call[d]
  BY DEF StatementInv, Types
<1>2. \A d \in Calls : call[d].conn \in Conns \cup {NoConn}
  BY <1>1 DEF CallRecords
<1>3. r.conn \in Conns \cup {NoConn}
  BY DEF CallRecords
<1>4. Types'
  BY <1>1 DEF Types, PoolStates, LinkStates, TxStates
<1>5. CallsFit'
  <2> SUFFICES ASSUME NEW d \in Calls
               PROVE  OpFits(call'[d]) /\ PcFits(call'[d]) /\ EffectsFit(call'[d])
    BY DEF CallsFit, OpFits, PcFits, EffectsFit, Retries
  <2> QED
    BY <1>1 DEF StatementInv, CallsFit
<1>6. OneOwner'
  BY <1>1 DEF StatementInv, OneOwner
<1>7. Owned'
  <2> SUFFICES ASSUME NEW d \in Calls, call'[d].conn # NoConn
               PROVE  Has(call'[d], pool'[call'[d].conn], tx'[call'[d].conn], hooks'[call'[d].conn])
    BY DEF Owned, Has, TxFits, Only, Running, Opens
  <2>1. CASE d = c
    BY <1>1, <2>1
  <2>2. CASE d # c
    <3>1. call'[d] = call[d] /\ call[d].conn \in Conns
      BY <1>1, <1>2, <2>2
    <3>2. call[d].conn # call[c].conn /\ call[d].conn # r.conn
      BY <1>2, <1>3, <2>2, <3>1 DEF StatementInv, OneOwner
    <3> QED
      BY <3>1, <3>2 DEF StatementInv, Owned
  <2> QED
    BY <2>1, <2>2
<1>8. Unowned'
  <2> SUFFICES ASSUME NEW k \in Conns, \A d \in Calls : call'[d].conn # k
               PROVE  Free(pool'[k], tx'[k], hooks'[k])
    BY DEF Unowned, Free, Only
  <2>1. k # r.conn
    BY <1>1
  <2>2. CASE k = call[c].conn
    BY <2>1, <2>2, ConnsArePositive
  <2>3. CASE k # call[c].conn
    <3>1. \A d \in Calls : call[d].conn # k
      BY <1>1, <2>3
    <3> QED
      BY <2>1, <2>3, <3>1 DEF StatementInv, Unowned
  <2> QED
    BY <2>2, <2>3
<1> QED
  BY <1>4, <1>5, <1>6, <1>7, <1>8 DEF StatementInv
-----------------------------------------------------------------------------
\* What the driver answers, and what becomes of the call.

LEMMA RepliesFit ==
  ASSUME NEW k, NEW x, link[k] \in LinkStates, NEW reply \in Replies(k, x)
  PROVE  /\ reply.err \in Errors \cup {"nil"} /\ reply.did \in {"yes", "no"}
         /\ reply.link \in LinkStates
         /\ reply.err = "nil" => reply.did = "yes"
         /\ reply.err = "bad" => reply.did = "no"
<1>1. CASE link[k] = "up"
  BY <1>1 DEF Replies, Errors, LinkStates
<1>2. CASE link[k] = "cut"
  BY <1>2 DEF Replies, Errors, LinkStates
<1>3. CASE link[k] = "shut"
  BY <1>3 DEF Replies, Errors, LinkStates
<1> QED
  BY <1>1, <1>2, <1>3 DEF LinkStates

\* A call that is over.
LEMMA ReturnedFits ==
  ASSUME NEW r \in CallRecords, NEW e \in Errors \cup {"nil"}
  PROVE  /\ Returned(r, e) \in CallRecords
         /\ Returned(r, e).conn = r.conn /\ Returned(r, e).pc = "returned"
         /\ Returned(r, e).err = e /\ Returned(r, e).kind = r.kind /\ Returned(r, e).op = r.op
         /\ Returned(r, e).effects = r.effects /\ Returned(r, e).lost = r.lost
<1>1. 0 \in 0 .. MaxAttempts /\ 0 \in 0 .. 2
  BY BoundsAssumption
<1> QED
  BY <1>1 DEF Returned, CallRecords

\* A call that has given its connection back.
LEMMA WithoutConn ==
  ASSUME NEW r \in CallRecords
  PROVE  LET q == [r EXCEPT !.conn = NoConn]
         IN /\ q \in CallRecords /\ q.conn = NoConn /\ q.pc = r.pc /\ q.err = r.err
            /\ q.kind = r.kind /\ q.op = r.op /\ q.attempt = r.attempt
            /\ q.effects = r.effects /\ q.lost = r.lost
BY DEF CallRecords

\* The account of an answer.
LEMMA ReportedFits ==
  ASSUME NEW r \in CallRecords, NEW k, NEW x, link[k] \in LinkStates, NEW reply \in Replies(k, x)
  PROVE  LET q == Reported(r, reply) IN
         /\ q \in CallRecords
         /\ q.kind = r.kind /\ q.op = r.op /\ q.pc = r.pc /\ q.attempt = r.attempt
         /\ q.tries = r.tries /\ q.conn = r.conn /\ q.err = r.err
         /\ q.effects = r.effects + Counted(r, reply.did)
         /\ q.lost = r.lost + IF reply.err = "nil" THEN 0 ELSE Counted(r, reply.did)
<1> DEFINE done == Counted(r, reply.did)
           lost == IF reply.err = "nil" THEN 0 ELSE done
<1>1. done \in Nat /\ lost \in Nat
  BY DEF Counted
<1> HIDE DEF done, lost
<1>2. r.effects + done \in Nat /\ r.lost + lost \in Nat
  BY <1>1 DEF CallRecords
<1>3. Reported(r, reply) = [r EXCEPT !.effects = @ + done, !.lost = @ + lost]
  BY DEF Reported, done, lost
<1> QED
  BY <1>2, <1>3 DEF CallRecords, done, lost

\* An error ends the operation, which is begun again or is over.
LEMMA EndsBadly ==
  ASSUME NEW r \in CallRecords, NEW e \in Errors, OpFits(r),
         r.pc \in {"conn", "dial", "path", "sent"}, r.kind = "tx" => r.op = "begin",
         r.effects = r.lost,
         r.kind \in {"row", "stmt", "tx"} =>
           r.effects <= 1 /\ (e = "bad" \/ r.op = "prepare" => r.effects = 0)
  PROVE  /\ Ended(r, e) \in CallRecords /\ Ended(r, e).conn = NoConn
         /\ OpFits(Ended(r, e)) /\ PcFits(Ended(r, e)) /\ EffectsFit(Ended(r, e))
<1>1. e # "nil"
  BY DEF Errors
<1>2. CASE e = "bad" /\ r.tries < 2
  <2> DEFINE q == [r EXCEPT !.pc = "conn", !.tries = @ + 1, !.conn = NoConn]
  <2>1. Ended(r, e) = q
    BY <1>2 DEF Ended
  <2>2. /\ q \in CallRecords /\ q.conn = NoConn /\ q.pc = "conn"
        /\ q.kind = r.kind /\ q.op = r.op /\ q.effects = r.effects /\ q.lost = r.lost
    <3>1. r.tries + 1 \in 0 .. 2
      BY <1>2 DEF CallRecords
    <3> QED
      BY <3>1 DEF CallRecords
  <2> HIDE DEF q
  <2> QED
    BY <1>2, <2>1, <2>2 DEF OpFits, PcFits, EffectsFit
<1>3. CASE ~(e = "bad" /\ r.tries < 2) /\ Retries(r)
  <2> DEFINE q == [r EXCEPT !.pc = "loop", !.err = e, !.conn = NoConn]
  <2>1. Ended(r, e) = q
    BY <1>1, <1>3 DEF Ended
  <2>2. /\ q \in CallRecords /\ q.conn = NoConn /\ q.pc = "loop" /\ q.err = e
        /\ q.kind = r.kind /\ q.op = r.op /\ q.effects = r.effects /\ q.lost = r.lost
    BY DEF CallRecords
  <2> HIDE DEF q
  <2> QED
    BY <1>1, <1>3, <2>1, <2>2 DEF OpFits, PcFits, EffectsFit, Retries
<1>4. CASE ~(e = "bad" /\ r.tries < 2) /\ ~Retries(r)
  <2> DEFINE q == [Returned(r, e) EXCEPT !.conn = NoConn]
  <2>1. Ended(r, e) = q
    BY <1>1, <1>4 DEF Ended
  <2>2. /\ q \in CallRecords /\ q.conn = NoConn /\ q.pc = "returned" /\ q.err = e
        /\ q.kind = r.kind /\ q.op = r.op /\ q.effects = r.effects /\ q.lost = r.lost
    BY ReturnedFits, WithoutConn
  <2> HIDE DEF q
  <2> QED
    BY <1>1, <1>4, <2>1, <2>2 DEF OpFits, PcFits, EffectsFit
<1> QED
  BY <1>2, <1>3, <1>4

\* An operation outside a transaction succeeds.
LEMMA EndsWell ==
  ASSUME NEW r \in CallRecords, OpFits(r), r.pc = "sent", r.conn # NoConn,
         r.op \in {"exec", "query", "prepare", "begin"}, r.kind = "tx" => r.op = "begin",
         r.effects = r.lost + IF r.op \in {"exec", "query"} THEN 1 ELSE 0,
         r.kind \in {"row", "stmt", "tx"} =>
           r.effects = IF r.op \in {"exec", "query"} THEN 1 ELSE 0
  PROVE  /\ Ended(r, "nil") \in CallRecords
         /\ OpFits(Ended(r, "nil")) /\ PcFits(Ended(r, "nil")) /\ EffectsFit(Ended(r, "nil"))
         /\ Ended(r, "nil").kind = r.kind
         /\ r.op = "query" => Ended(r, "nil").conn = r.conn /\ Ended(r, "nil").pc = "rows"
         /\ r.op = "begin" => Ended(r, "nil").conn = r.conn /\ Ended(r, "nil").pc = "F"
         /\ r.op \in {"exec", "prepare"} => Ended(r, "nil").conn = NoConn
<1>1. CASE r.op = "prepare"
  <2> DEFINE q == Prepared(r)
  <2>1. Ended(r, "nil") = q
    BY <1>1 DEF Ended
  <2>2. /\ q \in CallRecords /\ q.conn = NoConn /\ q.pc = "conn" /\ q.op = "exec"
        /\ q.kind = r.kind /\ q.effects = r.effects /\ q.lost = r.lost
    <3>1. "exec" \in ActionEnum /\ 0 \in 0 .. 2
      BY DEF ActionEnum
    <3> QED
      BY <3>1 DEF CallRecords, Prepared
  <2>3. r.kind = "stmt" /\ r.effects = r.lost /\ r.lost \in Nat
    BY <1>1 DEF OpFits, CallRecords, Kinds
  <2> HIDE DEF q
  <2> QED
    BY <1>1, <2>1, <2>2, <2>3 DEF OpFits, PcFits, EffectsFit
<1>2. CASE r.op = "query"
  <2> DEFINE q == GotRows(r)
  <2>1. Ended(r, "nil") = q
    BY <1>2 DEF Ended
  <2>2. /\ q \in CallRecords /\ q.conn = r.conn /\ q.pc = "rows" /\ q.op = "query"
        /\ q.err = "nil" /\ q.kind = r.kind /\ q.effects = r.effects /\ q.lost = r.lost
    BY <1>2 DEF CallRecords, GotRows
  <2>3. r.kind \in {"query", "row"}
    BY <1>2 DEF OpFits, CallRecords, Kinds
  <2> HIDE DEF q
  <2> QED
    BY <1>2, <2>1, <2>2, <2>3 DEF OpFits, PcFits, EffectsFit
<1>3. CASE r.op = "begin"
  <2> DEFINE q == Began(r)
  <2>1. Ended(r, "nil") = q
    BY <1>3 DEF Ended
  <2>2. /\ q \in CallRecords /\ q.conn = r.conn /\ q.pc = "F" /\ q.op = "begin"
        /\ q.err = "nil" /\ q.kind = r.kind /\ q.effects = r.effects /\ q.lost = r.lost
    BY <1>3 DEF CallRecords, Began
  <2>3. r.kind = "tx" /\ r.effects = r.lost /\ r.lost \in Nat
    BY <1>3 DEF OpFits, CallRecords, Kinds
  <2> HIDE DEF q
  <2> QED
    BY <1>3, <2>1, <2>2, <2>3 DEF OpFits, PcFits, EffectsFit
<1>4. CASE r.op = "exec"
  <2> DEFINE q == [Returned(r, "nil") EXCEPT !.conn = NoConn]
  <2>1. Ended(r, "nil") = q
    BY <1>4 DEF Ended
  <2>2. /\ q \in CallRecords /\ q.conn = NoConn /\ q.pc = "returned" /\ q.op = "exec"
        /\ q.err = "nil" /\ q.kind = r.kind /\ q.effects = r.effects /\ q.lost = r.lost
    BY <1>4, ReturnedFits, WithoutConn
  <2>3. r.kind \in {"exec", "stmt"} /\ r.lost \in Nat
    BY <1>4 DEF OpFits, CallRecords, Kinds
  <2> HIDE DEF q
  <2> QED
    BY <1>4, <2>1, <2>2, <2>3 DEF OpFits, PcFits, EffectsFit
<1> QED
  BY <1>1, <1>2, <1>3, <1>4
-----------------------------------------------------------------------------
\* Steps that leave the connections alone.

\* What a call looks like between its steps.
LEMMA CallFits ==
  ASSUME StatementInv, NEW c \in Calls
  PROVE  /\ call \in [Calls -> CallRecords] /\ call[c] \in CallRecords
         /\ OpFits(call[c]) /\ PcFits(call[c]) /\ EffectsFit(call[c])
         /\ call[c].conn \in Conns \cup {NoConn}
         /\ pool \in [Conns -> PoolStates] /\ link \in [Conns -> LinkStates]
         /\ tx \in [Conns -> TxStates] /\ hooks \in [Conns -> [ActionEnum -> Int]]
         /\ call[c].conn # NoConn =>
              Has(call[c], pool[call[c].conn], tx[call[c].conn], hooks[call[c].conn])
<1>1. call[c] \in CallRecords
  BY DEF StatementInv, Types
<1> QED
  BY <1>1 DEF StatementInv, Types, CallsFit, Owned, CallRecords, PoolStates, LinkStates, TxStates

LEMMA KeepsConns ==
  ASSUME StatementInv, NEW c \in Calls, NEW r \in CallRecords,
         OpFits(r), PcFits(r), EffectsFit(r), call' = [call EXCEPT ![c] = r],
         r.conn = call[c].conn, UNCHANGED <<pool, link, tx, hooks>>,
         r.conn # NoConn => Has(r, pool[r.conn], tx[r.conn], hooks[r.conn])
  PROVE  StatementInv'
<1>1. /\ pool \in [Conns -> PoolStates] /\ link \in [Conns -> LinkStates]
      /\ tx \in [Conns -> TxStates] /\ hooks \in [Conns -> [ActionEnum -> Int]]
  BY CallFits
<1> QED
  BY <1>1, CallMoves

LEMMA StartKeeps ==
  ASSUME StatementInv, NEW c \in Calls, Start(c)
  PROVE  StatementInv'
<1>1. PICK kind \in KindsOf[c] :
        call' = [call EXCEPT ![c] =
          [[call[c] EXCEPT !.kind = kind, !.op = FirstOp(kind)] EXCEPT
            !.pc = IF Retries([call[c] EXCEPT !.kind = kind, !.op = FirstOp(kind)])
                   THEN "loop" ELSE "conn"]]
  BY DEF Start
<1> DEFINE r0 == [call[c] EXCEPT !.kind = kind, !.op = FirstOp(kind)]
           pc0 == IF Retries(r0) THEN "loop" ELSE "conn"
           r == [r0 EXCEPT !.pc = pc0]
<1>2. call[c].pc = "idle" /\ UNCHANGED <<pool, link, tx, hooks>> /\ call' = [call EXCEPT ![c] = r]
  BY <1>1 DEF Start, At
<1>3. /\ call[c] \in CallRecords /\ call[c].conn = NoConn /\ call[c].effects = 0
      /\ call[c].attempt = 0 /\ call[c].lost = 0
  BY <1>2, CallFits DEF PcFits, EffectsFit
<1>4. kind \in Kinds
  BY KindsAssumption DEF Kinds
<1>5. /\ FirstOp(kind) \in ActionEnum
      /\ kind = "exec" => FirstOp(kind) = "exec"
      /\ kind \in {"query", "row"} => FirstOp(kind) = "query"
      /\ kind = "stmt" => FirstOp(kind) = "prepare"
      /\ kind = "tx" => FirstOp(kind) = "begin"
  BY <1>4 DEF FirstOp, Kinds, ActionEnum
<1>6. /\ r0 \in CallRecords /\ r0.kind = kind /\ r0.op = FirstOp(kind) /\ r0.conn = NoConn
      /\ r0.effects = 0 /\ r0.lost = 0 /\ r0.attempt = 0
  BY <1>3, <1>4, <1>5 DEF CallRecords
<1>7. pc0 \in {"loop", "conn"} /\ (pc0 = "loop" => Retries(r0))
  OBVIOUS
<1> HIDE DEF r0, pc0
<1>8. /\ r \in CallRecords /\ r.kind = kind /\ r.op = FirstOp(kind) /\ r.conn = NoConn
      /\ r.effects = 0 /\ r.lost = 0 /\ r.attempt = 0 /\ r.pc = pc0
  BY <1>6, <1>7 DEF CallRecords
<1>9. Retries(r0) => Retries(r)
  BY <1>6, <1>8 DEF Retries
<1> HIDE DEF r
<1>10. OpFits(r) /\ PcFits(r) /\ EffectsFit(r)
  BY <1>4, <1>5, <1>7, <1>8, <1>9 DEF OpFits, PcFits, EffectsFit, Kinds
<1> QED
  BY <1>2, <1>3, <1>8, <1>10, KeepsConns

LEMMA CancelCtxKeeps ==
  ASSUME StatementInv, NEW c \in Calls, CancelCtx(c)
  PROVE  StatementInv'
<1> DEFINE r == [call[c] EXCEPT !.ctx = "done"]
<1>1. call' = [call EXCEPT ![c] = r] /\ UNCHANGED <<pool, link, tx, hooks>>
  BY DEF CancelCtx
<1>2. call[c] \in CallRecords
  BY CallFits
<1>3. /\ r \in CallRecords /\ r.kind = call[c].kind /\ r.op = call[c].op /\ r.pc = call[c].pc
      /\ r.attempt = call[c].attempt /\ r.conn = call[c].conn /\ r.err = call[c].err
      /\ r.effects = call[c].effects /\ r.lost = call[c].lost
  BY <1>2 DEF CallRecords
<1> HIDE DEF r
<1>4. OpFits(r) /\ PcFits(r) /\ EffectsFit(r)
  BY <1>3, CallFits DEF OpFits, PcFits, EffectsFit, Retries
<1>5. r.conn # NoConn => Has(r, pool[r.conn], tx[r.conn], hooks[r.conn])
  <2>1. \A t : Running(r, t) = Running(call[c], t) /\ (TxFits(r, t) <=> TxFits(call[c], t))
    BY <1>3 DEF Running, TxFits
  <2> QED
    BY <1>3, <2>1, CallFits DEF Has
<1> QED
  BY <1>1, <1>3, <1>4, <1>5, KeepsConns

\* retry.Do.
LEMMA LoopKeeps ==
  ASSUME StatementInv, NEW c \in Calls, Attempt(c) \/ GiveUp(c) \/ BreakerDone(c)
  PROVE  StatementInv'
<1>1. /\ call[c] \in CallRecords /\ OpFits(call[c]) /\ call[c].pc = "loop"
      /\ call[c].conn = NoConn /\ Retries(call[c]) /\ call[c].effects = call[c].lost
      /\ call[c].attempt # 0 => call[c].err # "nil"
      /\ UNCHANGED <<pool, link, tx, hooks>>
      /\ call[c].kind \in {"row", "stmt", "tx"} => call[c].effects = 0
  BY CallFits DEF Attempt, GiveUp, BreakerDone, At, PcFits, EffectsFit
<1>2. CASE Attempt(c)
  <2> DEFINE attempt == call[c].attempt + 1
             r == [call[c] EXCEPT !.pc = "conn", !.tries = 0, !.attempt = attempt]
  <2>1. call' = [call EXCEPT ![c] = r]
    BY <1>2 DEF Attempt
  <2>2. attempt \in 0 .. MaxAttempts /\ 0 \in 0 .. 2
    BY <1>1, <1>2, BoundsAssumption DEF Attempt, CallRecords
  <2> HIDE DEF attempt
  <2>3. /\ r \in CallRecords /\ r.conn = NoConn /\ r.pc = "conn"
        /\ r.kind = call[c].kind /\ r.op = call[c].op
        /\ r.effects = call[c].effects /\ r.lost = call[c].lost
    BY <1>1, <2>2 DEF CallRecords
  <2> HIDE DEF r
  <2>4. OpFits(r) /\ PcFits(r) /\ EffectsFit(r)
    BY <1>1, <2>3 DEF OpFits, PcFits, EffectsFit, Retries
  <2> QED
    BY <1>1, <2>1, <2>3, <2>4, KeepsConns
<1>3. ASSUME NEW e \in Errors, call' = [call EXCEPT ![c] = Returned(@, e)]
      PROVE  StatementInv'
  <2> DEFINE r == Returned(call[c], e)
  <2>1. e # "nil" /\ call' = [call EXCEPT ![c] = r]
    BY <1>3 DEF Errors
  <2>2. /\ r \in CallRecords /\ r.conn = NoConn /\ r.pc = "returned" /\ r.err = e
        /\ r.kind = call[c].kind /\ r.op = call[c].op
        /\ r.effects = call[c].effects /\ r.lost = call[c].lost
    BY <1>1, ReturnedFits
  <2> HIDE DEF r
  <2>3. OpFits(r) /\ PcFits(r) /\ EffectsFit(r)
    BY <1>1, <2>1, <2>2 DEF OpFits, PcFits, EffectsFit, Retries
  <2> QED
    BY <1>1, <2>1, <2>2, <2>3, KeepsConns
<1>4. CASE GiveUp(c)
  <2>1. call[c].err \in Errors /\ call' = [call EXCEPT ![c] = Returned(@, call[c].err)]
    BY <1>1, <1>4 DEF GiveUp, ShouldTry, CallRecords
  <2> QED
    BY <1>3, <2>1
<1>5. CASE BreakerDone(c)
  <2>1. "canceled" \in Errors /\ call' = [call EXCEPT ![c] = Returned(@, "canceled")]
    BY <1>5 DEF BreakerDone, Errors
  <2> QED
    BY <1>3, <2>1
<1> QED
  BY <1>2, <1>4, <1>5

LEMMA WaitCanceledKeeps ==
  ASSUME StatementInv, NEW c \in Calls, WaitCanceled(c)
  PROVE  StatementInv'
<1> DEFINE r == Ended(call[c], "canceled")
<1>1. /\ call[c].pc = "conn" /\ call' = [call EXCEPT ![c] = r]
      /\ UNCHANGED <<pool, link, tx, hooks>>
  BY DEF WaitCanceled, At
<1>2. /\ call[c] \in CallRecords /\ OpFits(call[c]) /\ call[c].conn = NoConn
      /\ call[c].kind = "tx" => call[c].op = "begin"
      /\ call[c].effects = call[c].lost
      /\ call[c].kind \in {"row", "stmt", "tx"} => call[c].effects = 0
  BY <1>1, CallFits DEF OpFits, PcFits, EffectsFit
<1>3. r \in CallRecords /\ r.conn = NoConn /\ OpFits(r) /\ PcFits(r) /\ EffectsFit(r)
  <2>1. "canceled" \in Errors
    BY DEF Errors
  <2> QED
    BY <1>1, <1>2, <2>1, EndsBadly
<1> HIDE DEF r
<1> QED
  BY <1>1, <1>2, <1>3, KeepsConns
-----------------------------------------------------------------------------
\* database/sql gives connections to calls and takes them back.

\* A connection of the pool, and one that is not there, has nothing open.
LEMMA NobodyHas ==
  ASSUME StatementInv, NEW k \in Conns, pool[k] \in {"none", "idle", "leaked"}
  PROVE  /\ \A d \in Calls : call[d].conn # k
         /\ tx[k] = "none" /\ hooks[k] = Only({})
<1>1. ASSUME NEW d \in Calls, call[d].conn = k
      PROVE  FALSE
  <2>1. Has(call[d], pool[k], tx[k], hooks[k])
    BY <1>1, CallFits, ConnsArePositive
  <2> QED
    BY <2>1 DEF Has
<1>2. Free(pool[k], tx[k], hooks[k])
  BY <1>1 DEF StatementInv, Unowned
<1> QED
  BY <1>1, <1>2 DEF Free

\* Nothing but the state of a connection nobody has changes.
LEMMA PoolKeeps ==
  ASSUME StatementInv, NEW k \in Conns, pool[k] \in {"none", "idle", "leaked"},
         NEW p \in {"none", "idle", "leaked"}, pool' = [pool EXCEPT ![k] = p],
         link' \in [Conns -> LinkStates], UNCHANGED <<call, tx, hooks>>
  PROVE  StatementInv'
<1>1. tx[k] = "none" /\ hooks[k] = Only({}) /\ \A d \in Calls : call[d].conn # k
  BY NobodyHas
<1>2. /\ pool' \in [Conns -> PoolStates] /\ pool'[k] = p
      /\ \A j \in Conns : j # k => pool'[j] = pool[j]
  BY DEF StatementInv, Types, PoolStates
<1>3. \A d \in Calls : call[d].conn \in Conns \cup {NoConn}
  BY CallFits
<1>4. Types' /\ CallsFit' /\ OneOwner'
  BY <1>2 DEF StatementInv, Types, CallsFit, OneOwner, OpFits, PcFits, EffectsFit, Retries,
              PoolStates, LinkStates
<1>5. Owned'
  <2> SUFFICES ASSUME NEW d \in Calls, call[d].conn # NoConn
               PROVE  Has(call[d], pool'[call[d].conn], tx[call[d].conn], hooks[call[d].conn])
    BY DEF Owned, Has, TxFits, Only, Running, Opens
  <2> QED
    BY <1>1, <1>2, <1>3, CallFits
<1>6. Unowned'
  <2> SUFFICES ASSUME NEW j \in Conns, \A d \in Calls : call[d].conn # j
               PROVE  Free(pool'[j], tx[j], hooks[j])
    BY DEF Unowned, Free, Only
  <2>1. CASE j = k
    BY <1>1, <1>2, <2>1 DEF Free
  <2>2. CASE j # k
    BY <1>2, <2>2 DEF StatementInv, Unowned
  <2> QED
    BY <2>1, <2>2
<1> QED
  BY <1>4, <1>5, <1>6 DEF StatementInv

\* A call gets a connection: an idle one, or one to dial.
LEMMA GetsConn ==
  ASSUME StatementInv, NEW c \in Calls, call[c].pc = "conn", NEW k \in Conns,
         pool[k] \in {"none", "idle"}, NEW pc0 \in {"dial", "send"},
         call' = [call EXCEPT ![c].pc = pc0, ![c].conn = k],
         pool' = [pool EXCEPT ![k] = IF pc0 = "dial" THEN "new" ELSE "held"],
         UNCHANGED <<link, tx, hooks>>
  PROVE  StatementInv'
<1> DEFINE r == [call[c] EXCEPT !.pc = pc0, !.conn = k]
           p == IF pc0 = "dial" THEN "new" ELSE "held"
<1>1. /\ call[c] \in CallRecords /\ OpFits(call[c]) /\ call[c].conn = NoConn
      /\ call[c].kind = "tx" => call[c].op = "begin"
      /\ call[c].effects = call[c].lost
      /\ call[c].kind \in {"row", "stmt", "tx"} => call[c].effects = 0
      /\ pool \in [Conns -> PoolStates] /\ link \in [Conns -> LinkStates]
      /\ tx \in [Conns -> TxStates] /\ hooks \in [Conns -> [ActionEnum -> Int]]
  BY CallFits DEF OpFits, PcFits, EffectsFit
<1>2. tx[k] = "none" /\ hooks[k] = Only({}) /\ \A d \in Calls : call[d].conn # k
  BY NobodyHas
<1>3. /\ r \in CallRecords /\ r.conn = k /\ r.pc = pc0
      /\ r.kind = call[c].kind /\ r.op = call[c].op
      /\ r.effects = call[c].effects /\ r.lost = call[c].lost
  BY <1>1 DEF CallRecords
<1>4. call' = [call EXCEPT ![c] = r] /\ pool' = [pool EXCEPT ![k] = p]
  OBVIOUS
<1>5. p \in PoolStates /\ (p = IF pc0 = "dial" THEN "new" ELSE "held")
  BY DEF PoolStates
<1> HIDE DEF r, p
<1>6. /\ pool' \in [Conns -> PoolStates] /\ pool'[k] = p
      /\ \A j \in Conns : j # k => pool'[j] = pool[j]
  BY <1>1, <1>4, <1>5
<1>7. OpFits(r) /\ PcFits(r) /\ EffectsFit(r)
  BY <1>1, <1>3, ConnsArePositive DEF OpFits, PcFits, EffectsFit
<1>8. Has(r, pool'[k], tx'[k], hooks'[k])
  <2>1. Running(r, "none") = {}
    BY <1>3 DEF Running
  <2>2. TxFits(r, "none")
    BY <1>3 DEF TxFits
  <2> QED
    BY <1>2, <1>3, <1>5, <1>6, <2>1, <2>2 DEF Has
<1> QED
  BY <1>1, <1>2, <1>3, <1>4, <1>6, <1>7, <1>8, CallMoves

LEMMA ConnKeeps ==
  ASSUME StatementInv, NEW c \in Calls, TakeIdle(c) \/ Dial(c)
  PROVE  StatementInv'
<1>1. CASE TakeIdle(c)
  <2>1. PICK k \in Conns : /\ pool[k] = "idle" /\ pool' = [pool EXCEPT ![k] = "held"]
                           /\ call' = [call EXCEPT ![c].pc = "send", ![c].conn = k]
    BY <1>1 DEF TakeIdle, Idle
  <2>2. call[c].pc = "conn" /\ UNCHANGED <<link, tx, hooks>>
    BY <1>1 DEF TakeIdle, At
  <2> QED
    BY <2>1, <2>2, GetsConn
<1>2. CASE Dial(c)
  <2>1. PICK k \in Conns : /\ pool[k] = "none" /\ pool' = [pool EXCEPT ![k] = "new"]
                           /\ call' = [call EXCEPT ![c].pc = "dial", ![c].conn = k]
    BY <1>2 DEF Dial, Fresh
  <2>2. call[c].pc = "conn" /\ UNCHANGED <<link, tx, hooks>>
    BY <1>2 DEF Dial, At
  <2> QED
    BY <2>1, <2>2, GetsConn
<1> QED
  BY <1>1, <1>2

LEMMA ExternalKeeps ==
  ASSUME StatementInv, Ready \/ ReadyNoSlot \/ \E k \in Conns : Cut(k) \/ Expire(k)
  PROVE  StatementInv'
<1>1. pool \in [Conns -> PoolStates] /\ link \in [Conns -> LinkStates]
  BY DEF StatementInv, Types, PoolStates, LinkStates
<1>2. ASSUME UNCHANGED <<call, pool, tx, hooks>>, link' \in [Conns -> LinkStates]
      PROVE  StatementInv'
  BY <1>2 DEF StatementInv, Types, CallsFit, Owned, OneOwner, Unowned, OpFits, PcFits,
              EffectsFit, Retries, Has, TxFits, Running, Opens, Only, Free, LinkStates
<1>3. CASE Ready
  <2>1. CASE UNCHANGED <<pool, link>>
    BY <1>1, <1>2, <1>3, <2>1 DEF Ready
  <2>2. CASE \E k \in Fresh : /\ pool' = [pool EXCEPT ![k] = "idle"]
                              /\ link' = [link EXCEPT ![k] = "up"]
    <3>1. PICK k \in Conns : /\ pool[k] = "none" /\ pool' = [pool EXCEPT ![k] = "idle"]
                             /\ link' = [link EXCEPT ![k] = "up"]
      BY <2>2 DEF Fresh
    <3>2. link' \in [Conns -> LinkStates]
      BY <1>1, <3>1 DEF LinkStates
    <3> QED
      BY <1>3, <3>1, <3>2, PoolKeeps DEF Ready
  <2> QED
    BY <1>3, <2>1, <2>2 DEF Ready
<1>4. CASE ReadyNoSlot
  BY <1>1, <1>2, <1>4 DEF ReadyNoSlot
<1>5. ASSUME NEW k \in Conns, Cut(k)
      PROVE  StatementInv'
  <2>1. link' \in [Conns -> LinkStates]
    BY <1>1, <1>5 DEF Cut, LinkStates
  <2> QED
    BY <1>2, <1>5, <2>1 DEF Cut
<1>6. ASSUME NEW k \in Conns, Expire(k)
      PROVE  StatementInv'
  <2>1. link' \in [Conns -> LinkStates]
    BY <1>1, <1>6 DEF Expire, CloseConn, LinkStates
  <2> QED
    BY <1>6, <2>1, PoolKeeps DEF Expire, CloseConn
<1> QED
  BY <1>3, <1>4, <1>5, <1>6
-----------------------------------------------------------------------------
\* wrDriver.Connect, and the operations of the driver.

\* A call goes on with its connection, of which the hooks and the transaction
\* may change.
LEMMA KeepsConn ==
  ASSUME StatementInv, NEW c \in Calls, NEW k \in Conns, call[c].conn = k,
         NEW r \in CallRecords, OpFits(r), PcFits(r), EffectsFit(r), r.conn = k,
         call' = [call EXCEPT ![c] = r],
         pool' \in [Conns -> PoolStates], link' \in [Conns -> LinkStates],
         tx' \in [Conns -> TxStates], hooks' \in [Conns -> [ActionEnum -> Int]],
         \A j \in Conns : j # k => pool'[j] = pool[j] /\ tx'[j] = tx[j] /\ hooks'[j] = hooks[j],
         Has(r, pool'[k], tx'[k], hooks'[k])
  PROVE  StatementInv'
BY CallMoves

\* A call is done with its connection.
LEMMA LeavesConn ==
  ASSUME StatementInv, NEW c \in Calls, NEW k \in Conns, call[c].conn = k,
         NEW r \in CallRecords, OpFits(r), PcFits(r), EffectsFit(r), r.conn = NoConn,
         call' = [call EXCEPT ![c] = r],
         NEW p \in {"none", "idle", "leaked"}, pool' = [pool EXCEPT ![k] = p],
         link' \in [Conns -> LinkStates],
         tx' \in [Conns -> TxStates], hooks' \in [Conns -> [ActionEnum -> Int]],
         \A j \in Conns : j # k => tx'[j] = tx[j] /\ hooks'[j] = hooks[j],
         tx'[k] = "none", hooks'[k] = Only({})
  PROVE  StatementInv'
<1>1. /\ pool' \in [Conns -> PoolStates] /\ pool'[k] = p
      /\ \A j \in Conns : j # k => pool'[j] = pool[j]
  BY CallFits DEF PoolStates
<1>2. Free(pool'[k], tx'[k], hooks'[k])
  BY <1>1 DEF Free
<1> QED
  BY <1>1, <1>2, CallMoves

LEMMA DialOkKeeps ==
  ASSUME StatementInv, NEW c \in Calls, DialOk(c)
  PROVE  StatementInv'
<1> DEFINE k == call[c].conn
           pc0 == IF SearchPath = "yes" THEN "path" ELSE "send"
           r == [call[c] EXCEPT !.pc = pc0]
<1>1. call[c].pc = "dial" /\ call' = [call EXCEPT ![c] = r] /\ tx' = tx
  BY DEF DialOk, At
<1>2. /\ call[c] \in CallRecords /\ OpFits(call[c]) /\ k \in Conns
      /\ call[c].kind = "tx" => call[c].op = "begin"
      /\ call[c].effects = call[c].lost
      /\ call[c].kind \in {"row", "stmt", "tx"} => call[c].effects = 0
      /\ pool \in [Conns -> PoolStates] /\ link \in [Conns -> LinkStates]
      /\ tx \in [Conns -> TxStates] /\ hooks \in [Conns -> [ActionEnum -> Int]]
  BY <1>1, CallFits DEF OpFits, PcFits, EffectsFit
<1>3. pool[k] = "new" /\ tx[k] = "none" /\ hooks[k] = Only({})
  BY <1>1, <1>2, CallFits, ConnsArePositive DEF Has, TxFits, Running
<1>4. /\ r \in CallRecords /\ r.conn = k /\ r.pc = pc0
      /\ r.kind = call[c].kind /\ r.op = call[c].op
      /\ r.effects = call[c].effects /\ r.lost = call[c].lost
  <2>1. pc0 \in {"path", "send"}
    OBVIOUS
  <2> HIDE DEF pc0
  <2> QED
    BY <1>2, <2>1 DEF CallRecords
<1> HIDE DEF r
<1>5. OpFits(r) /\ PcFits(r) /\ EffectsFit(r)
  BY <1>2, <1>4, ConnsArePositive DEF OpFits, PcFits, EffectsFit
<1>6. link' \in [Conns -> LinkStates]
  BY <1>2 DEF DialOk, LinkStates
<1>7. CASE SearchPath = "yes"
  <2>1. hooks' = Before(hooks, k, {"exec"}) /\ pool' = pool
    BY <1>7 DEF DialOk
  <2>2. /\ hooks' \in [Conns -> [ActionEnum -> Int]]
        /\ hooks'[k] = Only({"exec"})
        /\ \A j \in Conns : j # k => hooks'[j] = hooks[j]
    <3> DEFINE as == {"exec"}
               bs == {}
    <3>1. Opening(as, bs, as)
      BY DEF Opening
    <3>2. hooks[k] = Only(bs) /\ hooks' = Before(hooks, k, as)
      BY <1>3, <2>1
    <3> HIDE DEF k, as, bs
    <3>3. /\ hooks' \in [Conns -> [ActionEnum -> Int]] /\ hooks'[k] = Only(as)
          /\ \A j \in Conns : j # k => hooks'[j] = hooks[j]
      BY <1>2, <3>1, <3>2, HooksOpen
    <3> QED
      BY <3>3 DEF as
  <2>3. Has(r, pool'[k], tx'[k], hooks'[k])
    <3>1. Running(r, "none") = {"exec"} /\ TxFits(r, "none")
      BY <1>4, <1>7 DEF Running, TxFits
    <3> QED
      BY <1>1, <1>3, <1>4, <1>7, <2>1, <2>2, <3>1 DEF Has
  <2> HIDE DEF k
  <2> QED
    BY <1>1, <1>2, <1>4, <1>5, <1>6, <2>1, <2>2, <2>3, KeepsConn DEF k
<1>8. CASE SearchPath # "yes"
  <2>1. hooks' = hooks /\ pool' = [pool EXCEPT ![k] = "held"]
    BY <1>8 DEF DialOk
  <2>2. /\ pool' \in [Conns -> PoolStates] /\ pool'[k] = "held"
        /\ \A j \in Conns : j # k => pool'[j] = pool[j]
    BY <1>2, <2>1 DEF PoolStates
  <2>3. Has(r, pool'[k], tx'[k], hooks'[k])
    <3>1. Running(r, "none") = {} /\ TxFits(r, "none")
      BY <1>4, <1>8 DEF Running, TxFits
    <3> QED
      BY <1>1, <1>3, <1>4, <1>8, <2>1, <2>2, <3>1 DEF Has
  <2> HIDE DEF k
  <2> QED
    BY <1>1, <1>2, <1>4, <1>5, <1>6, <2>1, <2>2, <2>3, KeepsConn DEF k
<1> QED
  BY <1>7, <1>8

LEMMA DialFailsKeeps ==
  ASSUME StatementInv, NEW c \in Calls, DialFails(c)
  PROVE  StatementInv'
<1> DEFINE k == call[c].conn
<1>1. PICK e \in Errors : call' = [call EXCEPT ![c] = Ended(call[c], e)]
  BY DEF DialFails, Errors
<1> DEFINE r == Ended(call[c], e)
<1>2. /\ call[c].pc = "dial" /\ pool' = [pool EXCEPT ![k] = "none"]
      /\ UNCHANGED <<link, tx, hooks>> /\ call' = [call EXCEPT ![c] = r]
  BY <1>1 DEF DialFails, At
<1>3. /\ call[c] \in CallRecords /\ OpFits(call[c]) /\ k \in Conns
      /\ call[c].kind = "tx" => call[c].op = "begin"
      /\ call[c].effects = call[c].lost
      /\ call[c].kind \in {"row", "stmt", "tx"} => call[c].effects = 0
      /\ pool \in [Conns -> PoolStates] /\ link \in [Conns -> LinkStates]
      /\ tx \in [Conns -> TxStates] /\ hooks \in [Conns -> [ActionEnum -> Int]]
  BY <1>2, CallFits DEF OpFits, PcFits, EffectsFit
<1>4. tx[k] = "none" /\ hooks[k] = Only({})
  BY <1>2, <1>3, CallFits, ConnsArePositive DEF Has, TxFits, Running
<1>5. r \in CallRecords /\ r.conn = NoConn /\ OpFits(r) /\ PcFits(r) /\ EffectsFit(r)
  BY <1>2, <1>3, EndsBadly
<1> HIDE DEF r
<1> QED
  BY <1>2, <1>3, <1>4, <1>5, LeavesConn

\* SET search_path has been answered.
LEMMA PathAnswerKeeps ==
  ASSUME StatementInv, NEW c \in Calls, PathAnswer(c)
  PROVE  StatementInv'
<1> DEFINE k == call[c].conn
<1>1. call[c].pc = "path" /\ tx' = tx
  BY DEF PathAnswer, At
<1>2. /\ call[c] \in CallRecords /\ OpFits(call[c]) /\ k \in Conns
      /\ call[c].kind = "tx" => call[c].op = "begin"
      /\ call[c].effects = call[c].lost
      /\ call[c].kind \in {"row", "stmt", "tx"} => call[c].effects = 0
      /\ pool \in [Conns -> PoolStates] /\ link \in [Conns -> LinkStates]
      /\ tx \in [Conns -> TxStates] /\ hooks \in [Conns -> [ActionEnum -> Int]]
  BY <1>1, CallFits DEF OpFits, PcFits, EffectsFit
<1>3. tx[k] = "none" /\ hooks[k] = Only({"exec"})
  BY <1>1, <1>2, CallFits, ConnsArePositive DEF Has, TxFits, Running
<1>4. PICK reply \in Replies(k, call[c].ctx) :
        /\ hooks' = After(hooks, k, {"exec"})
        /\ link' = [link EXCEPT ![k] = reply.link]
        /\ IF reply.err = "nil"
           THEN /\ call' = [call EXCEPT ![c].pc = "send"]
                /\ pool' = [pool EXCEPT ![k] = "held"]
           ELSE /\ call' = [call EXCEPT ![c] = Ended(@, reply.err)]
                /\ pool' = [pool EXCEPT ![k] =
                              IF reply.link = "up" THEN "leaked" ELSE "none"]
  BY DEF PathAnswer
<1>5. /\ reply.err \in Errors \cup {"nil"} /\ reply.link \in LinkStates
  <2>1. link[k] \in LinkStates
    BY <1>2
  <2> QED
    BY <2>1, RepliesFit
<1>6. /\ hooks' \in [Conns -> [ActionEnum -> Int]] /\ hooks'[k] = Only({})
      /\ \A j \in Conns : j # k => hooks'[j] = hooks[j]
  <2> DEFINE as == {"exec"}
             cs == {}
  <2>1. Ending(as, as, cs)
    BY DEF Ending
  <2>2. hooks[k] = Only(as) /\ hooks' = After(hooks, k, as)
    BY <1>3, <1>4
  <2> HIDE DEF k, as, cs
  <2>3. /\ hooks' \in [Conns -> [ActionEnum -> Int]] /\ hooks'[k] = Only(cs)
        /\ \A j \in Conns : j # k => hooks'[j] = hooks[j]
    BY <1>2, <2>1, <2>2, HooksEnd
  <2> QED
    BY <2>3 DEF cs
<1>7. link' \in [Conns -> LinkStates]
  BY <1>2, <1>4, <1>5
<1>8. CASE reply.err = "nil"
  <2> DEFINE r == [call[c] EXCEPT !.pc = "send"]
  <2>1. call' = [call EXCEPT ![c] = r] /\ pool' = [pool EXCEPT ![k] = "held"]
    BY <1>4, <1>8
  <2>2. /\ r \in CallRecords /\ r.conn = k /\ r.pc = "send"
        /\ r.kind = call[c].kind /\ r.op = call[c].op
        /\ r.effects = call[c].effects /\ r.lost = call[c].lost
    BY <1>2 DEF CallRecords
  <2> HIDE DEF r
  <2>3. OpFits(r) /\ PcFits(r) /\ EffectsFit(r)
    BY <1>2, <2>2, ConnsArePositive DEF OpFits, PcFits, EffectsFit
  <2>4. /\ pool' \in [Conns -> PoolStates] /\ pool'[k] = "held"
        /\ \A j \in Conns : j # k => pool'[j] = pool[j]
    BY <1>2, <2>1 DEF PoolStates
  <2>5. Has(r, pool'[k], tx'[k], hooks'[k])
    <3>1. Running(r, "none") = {} /\ TxFits(r, "none")
      BY <2>2 DEF Running, TxFits
    <3> QED
      BY <1>1, <1>3, <1>6, <2>2, <2>4, <3>1 DEF Has
  <2>6. /\ call[c].conn = k /\ k \in Conns /\ tx' \in [Conns -> TxStates]
        /\ call' = [call EXCEPT ![c] = r]
    BY <1>1, <1>2, <2>1
  <2>7. \A j \in Conns : j # k => pool'[j] = pool[j] /\ tx'[j] = tx[j] /\ hooks'[j] = hooks[j]
    BY <1>1, <1>6, <2>4
  <2> HIDE DEF k
  <2> QED
    BY <1>6, <1>7, <2>2, <2>3, <2>4, <2>5, <2>6, <2>7, KeepsConn
<1>9. CASE reply.err # "nil"
  <2> DEFINE r == Ended(call[c], reply.err)
             p == IF reply.link = "up" THEN "leaked" ELSE "none"
  <2>1. call' = [call EXCEPT ![c] = r] /\ pool' = [pool EXCEPT ![k] = p]
    BY <1>4, <1>9
  <2>2. r \in CallRecords /\ r.conn = NoConn /\ OpFits(r) /\ PcFits(r) /\ EffectsFit(r)
    BY <1>1, <1>2, <1>5, <1>9, EndsBadly
  <2>3. p \in {"none", "idle", "leaked"}
    OBVIOUS
  <2> HIDE DEF r, p, k
  <2> QED
    BY <1>1, <1>2, <1>3, <1>6, <1>7, <2>1, <2>2, <2>3, LeavesConn DEF k
<1> QED
  BY <1>8, <1>9

LEMMA SendKeeps ==
  ASSUME StatementInv, NEW c \in Calls, Send(c)
  PROVE  StatementInv'
<1> DEFINE k == call[c].conn
           r == [call[c] EXCEPT !.pc = "sent"]
<1>1. /\ call[c].pc = "send" /\ call' = [call EXCEPT ![c] = r]
      /\ hooks' = Before(hooks, k, Opens(call[c].op)) /\ UNCHANGED <<pool, link, tx>>
  BY DEF Send, At
<1>2. /\ call[c] \in CallRecords /\ OpFits(call[c]) /\ k \in Conns
      /\ call[c].kind = "tx" => call[c].op = "begin"
      /\ call[c].effects = call[c].lost
      /\ call[c].kind \in {"row", "stmt", "tx"} => call[c].effects = 0
      /\ pool \in [Conns -> PoolStates] /\ link \in [Conns -> LinkStates]
      /\ tx \in [Conns -> TxStates] /\ hooks \in [Conns -> [ActionEnum -> Int]]
  BY <1>1, CallFits DEF OpFits, PcFits, EffectsFit
<1>3. pool[k] = "held" /\ tx[k] = "none" /\ hooks[k] = Only({})
  BY <1>1, <1>2, CallFits, ConnsArePositive DEF Has, TxFits, Running
<1>4. /\ r \in CallRecords /\ r.conn = k /\ r.pc = "sent"
      /\ r.kind = call[c].kind /\ r.op = call[c].op
      /\ r.effects = call[c].effects /\ r.lost = call[c].lost
  BY <1>2 DEF CallRecords
<1> HIDE DEF r
<1>5. OpFits(r) /\ PcFits(r) /\ EffectsFit(r)
  BY <1>2, <1>4, ConnsArePositive DEF OpFits, PcFits, EffectsFit
<1>6. r.op \in {"exec", "query", "prepare", "begin"}
  BY <1>2, <1>4 DEF OpFits, CallRecords, Kinds
<1>7. /\ hooks' \in [Conns -> [ActionEnum -> Int]]
      /\ hooks'[k] = Only(Opens(r.op))
      /\ \A j \in Conns : j # k => hooks'[j] = hooks[j]
  <2> DEFINE as == Opens(r.op)
             bs == {}
  <2>1. Opening(as, bs, as)
    BY DEF Opening
  <2>2. hooks[k] = Only(bs) /\ hooks' = Before(hooks, k, as)
    BY <1>1, <1>3, <1>4
  <2> HIDE DEF k, as, bs
  <2>3. /\ hooks' \in [Conns -> [ActionEnum -> Int]] /\ hooks'[k] = Only(as)
        /\ \A j \in Conns : j # k => hooks'[j] = hooks[j]
    BY <1>2, <2>1, <2>2, HooksOpen
  <2> QED
    BY <2>3 DEF as
<1>8. Has(r, pool'[k], tx'[k], hooks'[k])
  <2>1. Running(r, "none") = Opens(r.op)
    BY <1>4 DEF Running
  <2>2. TxFits(r, "none")
    BY <1>2, <1>4, <1>6 DEF TxFits
  <2> QED
    BY <1>1, <1>3, <1>4, <1>7, <2>1, <2>2 DEF Has
<1> HIDE DEF k
<1> QED
  BY <1>1, <1>2, <1>4, <1>5, <1>7, <1>8, KeepsConn DEF k
\* A call whose operation is under way.
LEMMA SentFits ==
  ASSUME StatementInv, NEW c \in Calls, call[c].pc = "sent"
  PROVE  /\ call[c] \in CallRecords /\ OpFits(call[c]) /\ call[c].conn \in Conns
         /\ call[c].effects = call[c].lost
         /\ call[c].kind \in {"row", "stmt", "tx"} => call[c].effects = 0
         /\ pool[call[c].conn] = "held" /\ TxFits(call[c], tx[call[c].conn])
         /\ hooks[call[c].conn] = Only(Running(call[c], tx[call[c].conn]))
         /\ pool \in [Conns -> PoolStates] /\ link \in [Conns -> LinkStates]
         /\ tx \in [Conns -> TxStates] /\ hooks \in [Conns -> [ActionEnum -> Int]]
<1>1. call[c].conn # NoConn
  BY CallFits DEF PcFits
<1> QED
  BY <1>1, CallFits DEF Has, EffectsFit

LEMMA GivenBack ==
  ASSUME link \in [Conns -> LinkStates], NEW k \in Conns, NEW e, NEW l \in LinkStates,
         GiveBack(k, e, l)
  PROVE  /\ \E p \in {"none", "idle", "leaked"} : pool' = [pool EXCEPT ![k] = p]
         /\ link' \in [Conns -> LinkStates]
BY DEF GiveBack, CloseConn, LinkStates

LEMMA AnswerKeeps ==
  ASSUME StatementInv, NEW c \in Calls, Answer(c)
  PROVE  StatementInv'
<1> DEFINE k == call[c].conn
           op == call[c].op
<1>1. call[c].pc = "sent" /\ tx[k] = "none"
  BY DEF Answer, At
<1>2. /\ call[c] \in CallRecords /\ OpFits(call[c]) /\ k \in Conns
      /\ call[c].effects = call[c].lost /\ call[c].lost \in Nat
      /\ call[c].kind \in {"row", "stmt", "tx"} => call[c].effects = 0
      /\ pool \in [Conns -> PoolStates] /\ link \in [Conns -> LinkStates]
      /\ tx \in [Conns -> TxStates] /\ hooks \in [Conns -> [ActionEnum -> Int]]
      /\ pool[k] = "held" /\ link[k] \in LinkStates
  BY <1>1, SentFits DEF CallRecords
<1>3. hooks[k] = Only(Opens(op)) /\ op \in {"exec", "query", "prepare", "begin"}
      /\ (call[c].kind = "tx" => op = "begin")
  BY <1>1, SentFits DEF Running, TxFits
<1>4. PICK reply \in Replies(k, call[c].ctx) :
        /\ hooks' = After(hooks, k, Closes(op, reply.err))
        /\ call' = [call EXCEPT ![c] = Ended(Reported(@, reply), reply.err)]
        /\ IF reply.err = "nil" /\ op \in {"query", "begin"}
           THEN UNCHANGED <<pool, link>>
           ELSE GiveBack(k, reply.err, reply.link)
        /\ tx' = [tx EXCEPT ![k] = IF reply.err = "nil" /\ op = "begin" THEN "open" ELSE "none"]
  BY DEF Answer
<1>5. /\ reply.err \in Errors \cup {"nil"} /\ reply.did \in {"yes", "no"}
      /\ reply.link \in LinkStates
      /\ reply.err = "nil" => reply.did = "yes"
      /\ reply.err = "bad" => reply.did = "no"
  BY <1>2, RepliesFit
<1> DEFINE q == Reported(call[c], reply)
           r == Ended(q, reply.err)
<1>6. /\ q \in CallRecords /\ q.kind = call[c].kind /\ q.op = op /\ q.pc = "sent"
      /\ q.conn = k
      /\ q.effects = call[c].effects + Counted(call[c], reply.did)
      /\ q.lost = call[c].lost + IF reply.err = "nil" THEN 0 ELSE Counted(call[c], reply.did)
  BY <1>1, <1>2, ReportedFits
<1>7. /\ Counted(call[c], reply.did) \in {0, 1}
      /\ reply.err = "bad" \/ op = "prepare" => Counted(call[c], reply.did) = 0
      /\ reply.err = "nil" => Counted(call[c], reply.did) =
                                IF op \in {"exec", "query"} THEN 1 ELSE 0
  BY <1>3, <1>5 DEF Counted, TxExecutorFromCtx
<1>8. OpFits(q)
  BY <1>1, <1>2, <1>6 DEF OpFits
<1>9. call' = [call EXCEPT ![c] = r]
  BY <1>4
<1>10. CASE reply.err # "nil"
  <2>1. r \in CallRecords /\ r.conn = NoConn /\ OpFits(r) /\ PcFits(r) /\ EffectsFit(r)
    <3>1. q.effects = q.lost
      BY <1>2, <1>6, <1>7, <1>10
    <3>2. q.kind \in {"row", "stmt", "tx"} =>
            q.effects <= 1 /\ (reply.err = "bad" \/ q.op = "prepare" => q.effects = 0)
      BY <1>2, <1>6, <1>7
    <3>3. reply.err \in Errors
      BY <1>5, <1>10
    <3> HIDE DEF q
    <3> QED
      BY <1>3, <1>6, <1>8, <3>1, <3>2, <3>3, EndsBadly
  <2>2. PICK p \in {"none", "idle", "leaked"} : pool' = [pool EXCEPT ![k] = p]
    BY <1>2, <1>4, <1>5, <1>10, GivenBack
  <2>3. link' \in [Conns -> LinkStates]
    BY <1>2, <1>4, <1>5, <1>10, GivenBack
  <2>4. /\ hooks' \in [Conns -> [ActionEnum -> Int]] /\ hooks'[k] = Only({})
        /\ \A j \in Conns : j # k => hooks'[j] = hooks[j]
    <3>1. Ending(Closes(op, reply.err), Opens(op), {})
      BY <1>3, <1>10 DEF Ending, Closes, Opens, ActionEnum
    <3> HIDE DEF k
    <3> QED
      BY <1>2, <1>3, <1>4, <3>1, HooksEnd
  <2>5. /\ tx' \in [Conns -> TxStates] /\ tx'[k] = "none"
        /\ \A j \in Conns : j # k => tx'[j] = tx[j]
    BY <1>2, <1>4, <1>10 DEF TxStates
  <2>6. call[c].conn = k
    OBVIOUS
  <2> HIDE DEF r, k
  <2> QED
    BY <1>2, <1>9, <2>1, <2>2, <2>3, <2>4, <2>5, <2>6, LeavesConn
<1>11. CASE reply.err = "nil"
  <2>1. /\ r \in CallRecords /\ OpFits(r) /\ PcFits(r) /\ EffectsFit(r) /\ r.kind = call[c].kind
        /\ op = "query" => r.conn = k /\ r.pc = "rows"
        /\ op = "begin" => r.conn = k /\ r.pc = "F"
        /\ op \in {"exec", "prepare"} => r.conn = NoConn
    <3>1. q.effects = q.lost + IF op \in {"exec", "query"} THEN 1 ELSE 0
      BY <1>2, <1>6, <1>7, <1>11
    <3>2. q.kind \in {"row", "stmt", "tx"} =>
            q.effects = IF op \in {"exec", "query"} THEN 1 ELSE 0
      BY <1>2, <1>6, <1>7, <1>11
    <3>3. q.conn # NoConn
      BY <1>2, <1>6, ConnsArePositive
    <3> HIDE DEF q
    <3> QED
      BY <1>3, <1>6, <1>8, <1>11, <3>1, <3>2, <3>3, EndsWell
  <2>2. CASE op \in {"exec", "prepare"}
    <3>2. PICK p \in {"none", "idle", "leaked"} : pool' = [pool EXCEPT ![k] = p]
      BY <1>2, <1>4, <1>5, <2>2, GivenBack
    <3>3. link' \in [Conns -> LinkStates]
      BY <1>2, <1>4, <1>5, <2>2, GivenBack
    <3>4. /\ hooks' \in [Conns -> [ActionEnum -> Int]] /\ hooks'[k] = Only({})
          /\ \A j \in Conns : j # k => hooks'[j] = hooks[j]
      <4>1. Ending(Closes(op, reply.err), Opens(op), {})
        BY <2>2 DEF Ending, Closes, Opens, ActionEnum
      <4> HIDE DEF k
      <4> QED
        BY <1>2, <1>3, <1>4, <4>1, HooksEnd
    <3>5. /\ tx' \in [Conns -> TxStates] /\ tx'[k] = "none"
          /\ \A j \in Conns : j # k => tx'[j] = tx[j]
      BY <1>2, <1>4, <2>2 DEF TxStates
    <3>6. call[c].conn = k
      OBVIOUS
    <3> HIDE DEF r, k
    <3> QED
      BY <1>2, <1>9, <2>1, <2>2, <3>2, <3>3, <3>4, <3>5, <3>6, LeavesConn
  <2>3. CASE op \in {"query", "begin"}
    <3> DEFINE t == IF op = "begin" THEN "open" ELSE "none"
               as == IF op = "begin" THEN {"tx"} ELSE {}
    <3>1. pool' = pool /\ link' = link
      BY <1>4, <1>11, <2>3
    <3>2. /\ hooks' \in [Conns -> [ActionEnum -> Int]] /\ hooks'[k] = Only(as)
          /\ \A j \in Conns : j # k => hooks'[j] = hooks[j]
      <4> DEFINE bs == Opens(op)
                 ds == Closes(op, reply.err)
      <4>1. Ending(ds, bs, as)
        BY <1>11, <2>3 DEF Ending, Closes, Opens, ActionEnum
      <4>2. hooks[k] = Only(bs) /\ hooks' = After(hooks, k, ds)
        BY <1>3, <1>4
      <4>3. k \in Conns /\ hooks \in [Conns -> [ActionEnum -> Int]]
        BY <1>2
      <4> HIDE DEF k, as, bs, ds
      <4> QED
        BY <4>1, <4>2, <4>3, HooksEnd
    <3>3. /\ tx' \in [Conns -> TxStates] /\ tx'[k] = t
          /\ \A j \in Conns : j # k => tx'[j] = tx[j]
      BY <1>2, <1>4, <1>11 DEF TxStates
    <3>4. Running(r, t) = as /\ TxFits(r, t) /\ r.pc \in {"rows", "F"} /\ r.conn = k
      BY <2>1, <2>3 DEF Running, TxFits
    <3>5. Has(r, pool'[k], tx'[k], hooks'[k])
      BY <1>2, <3>1, <3>2, <3>3, <3>4 DEF Has
    <3>6. /\ call[c].conn = k /\ k \in Conns
          /\ pool' \in [Conns -> PoolStates] /\ link' \in [Conns -> LinkStates]
      BY <1>2, <3>1
    <3>7. \A j \in Conns : j # k => pool'[j] = pool[j] /\ tx'[j] = tx[j] /\ hooks'[j] = hooks[j]
      BY <3>1, <3>2, <3>3
    <3> HIDE DEF r, k, t, as
    <3> QED
      BY <1>9, <2>1, <3>2, <3>3, <3>4, <3>5, <3>6, <3>7, KeepsConn
  <2> QED
    BY <1>3, <2>2, <2>3
<1> QED
  BY <1>10, <1>11

LEMMA CloseRowsKeeps ==
  ASSUME StatementInv, NEW c \in Calls, CloseRows(c)
  PROVE  StatementInv'
<1> DEFINE k == call[c].conn
           q == Returned(call[c], call[c].err)
           r == [q EXCEPT !.conn = NoConn]
<1>1. call[c].pc = "rows" /\ call' = [call EXCEPT ![c] = r] /\ UNCHANGED <<tx, hooks>>
  BY DEF CloseRows, At
<1>2. /\ call[c] \in CallRecords /\ OpFits(call[c]) /\ k \in Conns /\ call[c].err = "nil"
      /\ call[c].effects = call[c].lost + 1
      /\ call[c].kind \in {"query", "row"}
      /\ call[c].kind \in {"row", "stmt", "tx"} => call[c].effects <= 1
      /\ link \in [Conns -> LinkStates] /\ link[k] \in LinkStates
      /\ tx \in [Conns -> TxStates] /\ hooks \in [Conns -> [ActionEnum -> Int]]
  BY <1>1, CallFits DEF PcFits, EffectsFit
<1>3. tx[k] = "none" /\ hooks[k] = Only({})
  BY <1>1, <1>2, CallFits, ConnsArePositive DEF Has, TxFits, Running
<1>4. /\ r \in CallRecords /\ r.conn = NoConn /\ r.pc = "returned" /\ r.err = "nil"
      /\ r.kind = call[c].kind /\ r.op = call[c].op
      /\ r.effects = call[c].effects /\ r.lost = call[c].lost
  <2>1. /\ q \in CallRecords /\ q.pc = "returned" /\ q.err = "nil"
        /\ q.kind = call[c].kind /\ q.op = call[c].op
        /\ q.effects = call[c].effects /\ q.lost = call[c].lost
    BY <1>2, ReturnedFits
  <2> HIDE DEF q
  <2> QED
    BY <2>1, WithoutConn
<1> HIDE DEF r
<1>5. OpFits(r) /\ PcFits(r) /\ EffectsFit(r)
  BY <1>2, <1>4 DEF OpFits, PcFits, EffectsFit
<1>6. PICK l \in LinkStates : GiveBack(k, "nil", l)
  BY <1>2 DEF CloseRows, LinkStates
<1>7. PICK p \in {"none", "idle", "leaked"} : pool' = [pool EXCEPT ![k] = p]
  BY <1>2, <1>6, GivenBack
<1>8. link' \in [Conns -> LinkStates] /\ call[c].conn = k
  BY <1>2, <1>6, GivenBack
<1> HIDE DEF k
<1> QED
  BY <1>1, <1>2, <1>3, <1>4, <1>5, <1>7, <1>8, LeavesConn
-----------------------------------------------------------------------------
\* A transaction: F, finishTx, and the watcher of database/sql.

LEMMA InFKeeps ==
  ASSUME StatementInv, NEW c \in Calls, InF(c)
  PROVE  StatementInv'
<1> DEFINE k == call[c].conn
<1>1. call[c].pc = "F" /\ UNCHANGED <<pool, link, tx>>
  BY DEF InF, At
<1>2. /\ call[c] \in CallRecords /\ OpFits(call[c]) /\ call[c].kind = "tx"
      /\ k \in Conns \cup {NoConn} /\ call[c].effects = 0 /\ call[c].lost = 0
      /\ pool \in [Conns -> PoolStates] /\ link \in [Conns -> LinkStates]
      /\ tx \in [Conns -> TxStates] /\ hooks \in [Conns -> [ActionEnum -> Int]]
  BY <1>1, CallFits DEF PcFits, EffectsFit
<1>3. k # NoConn => Has(call[c], pool[k], tx[k], hooks[k])
  BY CallFits
<1>4. CASE k # NoConn /\ tx[k] = "open"
  <2> DEFINE r == [call[c] EXCEPT !.pc = "sent", !.op = "exec"]
             as == {"exec"}
             bs == {"tx"}
             cs == {"exec", "tx"}
  <2>1. call' = [call EXCEPT ![c] = r] /\ hooks' = Before(hooks, k, as)
    BY <1>4 DEF InF
  <2>2. /\ r \in CallRecords /\ r.conn = k /\ r.pc = "sent" /\ r.op = "exec" /\ r.kind = "tx"
        /\ r.effects = 0 /\ r.lost = 0
    <3>1. "exec" \in ActionEnum
      BY DEF ActionEnum
    <3> QED
      BY <1>2, <3>1 DEF CallRecords
  <2> HIDE DEF r
  <2>3. OpFits(r) /\ PcFits(r) /\ EffectsFit(r)
    BY <1>4, <2>2 DEF OpFits, PcFits, EffectsFit
  <2>4. k \in Conns /\ call[c].conn = k
    BY <1>2, <1>4
  <2>5. pool[k] = "held" /\ hooks[k] = Only(bs)
    BY <1>1, <1>3, <1>4 DEF Has, Running
  <2>6. Opening(as, bs, cs)
    BY DEF Opening
  <2>7. Running(r, "open") = cs /\ TxFits(r, "open")
    BY <2>2 DEF Running, TxFits
  <2> HIDE DEF k, as, bs, cs
  <2>8. /\ hooks' \in [Conns -> [ActionEnum -> Int]] /\ hooks'[k] = Only(cs)
        /\ \A j \in Conns : j # k => hooks'[j] = hooks[j]
    <3>1. hooks \in [Conns -> [ActionEnum -> Int]]
      BY <1>2
    <3> QED
      BY <2>1, <2>4, <2>5, <2>6, <3>1, HooksOpen, Zenon
  <2>9. Has(r, pool'[k], tx'[k], hooks'[k])
    BY <1>1, <1>4, <2>2, <2>5, <2>7, <2>8 DEF Has
  <2> QED
    BY <1>1, <1>2, <2>1, <2>2, <2>3, <2>4, <2>8, <2>9, KeepsConn
<1>5. CASE ~(k # NoConn /\ tx[k] = "open")
  <2>1. PICK e \in {"done", "canceled"} :
          call' = [call EXCEPT ![c].pc = "finish", ![c].err = e] /\ hooks' = hooks
    BY <1>5 DEF InF
  <2> DEFINE r == [call[c] EXCEPT !.pc = "finish", !.err = e]
  <2>2. call' = [call EXCEPT ![c] = r]
    BY <2>1
  <2>3. /\ r \in CallRecords /\ r.conn = k /\ r.pc = "finish" /\ r.op = call[c].op
        /\ r.kind = "tx" /\ r.effects = 0 /\ r.lost = 0
    <3>1. e \in Errors \cup {"nil"}
      BY DEF Errors
    <3> QED
      BY <1>2, <3>1 DEF CallRecords
  <2> HIDE DEF r
  <2>4. OpFits(r) /\ PcFits(r) /\ EffectsFit(r)
    BY <1>2, <2>3 DEF OpFits, PcFits, EffectsFit
  <2>5. r.conn # NoConn => Has(r, pool[r.conn], tx[r.conn], hooks[r.conn])
    <3>1. \A t : /\ TxFits(call[c], t) => TxFits(r, t)
                 /\ Running(r, t) = Running(call[c], t)
      BY <1>1, <2>3 DEF TxFits, Running
    <3> QED
      BY <1>1, <1>3, <2>3, <3>1 DEF Has
  <2> QED
    BY <1>1, <2>1, <2>2, <2>3, <2>4, <2>5, KeepsConns
<1> QED
  BY <1>4, <1>5

LEMMA AnswerInFKeeps ==
  ASSUME StatementInv, NEW c \in Calls, AnswerInF(c)
  PROVE  StatementInv'
<1> DEFINE k == call[c].conn
           as == {"exec"}
           bs == {"exec", "tx"}
           cs == {"tx"}
<1>1. call[c].pc = "sent" /\ tx[k] = "open" /\ UNCHANGED <<pool, tx>>
  BY DEF AnswerInF, At
<1>2. /\ call[c] \in CallRecords /\ OpFits(call[c]) /\ k \in Conns /\ call[c].kind = "tx"
      /\ call[c].op = "exec" /\ call[c].effects = 0 /\ call[c].lost = 0
      /\ pool \in [Conns -> PoolStates] /\ link \in [Conns -> LinkStates]
      /\ tx \in [Conns -> TxStates] /\ hooks \in [Conns -> [ActionEnum -> Int]]
      /\ pool[k] = "held" /\ link[k] \in LinkStates
  BY <1>1, SentFits DEF TxFits
<1>3. hooks[k] = Only(bs)
  BY <1>1, <1>2, SentFits DEF Running
<1>4. PICK reply \in Replies(k, call[c].ctx) :
        /\ hooks' = After(hooks, k, as)
        /\ link' = [link EXCEPT ![k] = reply.link]
        /\ call' = [call EXCEPT ![c] =
              [Reported(call[c], reply) EXCEPT !.pc = "finish", !.err = reply.err]]
  BY Zenon DEF AnswerInF
<1>5. reply.err \in Errors \cup {"nil"} /\ reply.link \in LinkStates
  BY <1>2, RepliesFit
<1> DEFINE q == Reported(call[c], reply)
           r == [q EXCEPT !.pc = "finish", !.err = reply.err]
<1>6. /\ q \in CallRecords /\ q.kind = "tx" /\ q.op = "exec" /\ q.conn = k
      /\ q.effects = 0 /\ q.lost = 0
  <2>1. Counted(call[c], reply.did) = 0
    BY <1>2 DEF Counted, TxExecutorFromCtx
  <2> QED
    BY <1>2, <2>1, ReportedFits
<1>7. call' = [call EXCEPT ![c] = r]
  BY <1>4
<1> HIDE DEF q
<1>8. /\ r \in CallRecords /\ r.conn = k /\ r.pc = "finish" /\ r.op = "exec" /\ r.kind = "tx"
      /\ r.effects = 0 /\ r.lost = 0
  BY <1>5, <1>6 DEF CallRecords
<1> HIDE DEF r
<1>9. OpFits(r) /\ PcFits(r) /\ EffectsFit(r)
  BY <1>2, <1>8 DEF OpFits, PcFits, EffectsFit
<1>10. Ending(as, bs, cs)
  BY DEF Ending
<1>11. Running(r, "open") = cs /\ TxFits(r, "open")
  BY <1>8 DEF Running, TxFits
<1>12. link' \in [Conns -> LinkStates] /\ call[c].conn = k
  BY <1>2, <1>4, <1>5
<1> HIDE DEF k, as, bs, cs
<1>13. /\ hooks' \in [Conns -> [ActionEnum -> Int]] /\ hooks'[k] = Only(cs)
       /\ \A j \in Conns : j # k => hooks'[j] = hooks[j]
  BY <1>2, <1>3, <1>4, <1>10, HooksEnd
<1>14. Has(r, pool'[k], tx'[k], hooks'[k])
  BY <1>1, <1>2, <1>8, <1>11, <1>13 DEF Has
<1> QED
  BY <1>1, <1>2, <1>7, <1>8, <1>9, <1>12, <1>13, <1>14, KeepsConn

LEMMA FinishKeeps ==
  ASSUME StatementInv, NEW c \in Calls, Finish(c)
  PROVE  StatementInv'
<1> DEFINE k == call[c].conn
           op == IF call[c].err = "nil" THEN "commit" ELSE "rollback"
           over == \/ call[c].err = "canceled"
                   \/ op = "commit" /\ call[c].ctx = "done"
                   \/ k = NoConn \/ tx[k] # "open"
<1>1. call[c].pc = "finish" /\ UNCHANGED <<pool, link>>
  BY DEF Finish, At
<1>2. /\ call[c] \in CallRecords /\ OpFits(call[c]) /\ call[c].kind = "tx"
      /\ k \in Conns \cup {NoConn} /\ call[c].effects = 0 /\ call[c].lost = 0
      /\ pool \in [Conns -> PoolStates] /\ link \in [Conns -> LinkStates]
      /\ tx \in [Conns -> TxStates] /\ hooks \in [Conns -> [ActionEnum -> Int]]
  BY <1>1, CallFits DEF PcFits, EffectsFit
<1>3. k # NoConn => Has(call[c], pool[k], tx[k], hooks[k])
  BY CallFits
<1>4. CASE over
  <2> DEFINE e == IF op = "commit" THEN "canceled" ELSE call[c].err
             r == Returned(call[c], e)
  <2>1. call' = [call EXCEPT ![c] = r] /\ tx' = tx /\ hooks' = hooks
    BY <1>4, Zenon DEF Finish
  <2>2. e \in Errors
    BY <1>2 DEF CallRecords, Errors
  <2>3. e # "nil"
    BY <2>2 DEF Errors
  <2> HIDE DEF e
  <2>4. /\ r \in CallRecords /\ r.conn = k /\ r.pc = "returned" /\ r.op = call[c].op
        /\ r.kind = "tx" /\ r.effects = 0 /\ r.lost = 0 /\ r.err = e
    BY <1>2, <2>2, ReturnedFits
  <2> HIDE DEF r
  <2>5. OpFits(r) /\ PcFits(r) /\ EffectsFit(r)
    BY <1>2, <2>3, <2>4 DEF OpFits, PcFits, EffectsFit
  <2>6. r.conn # NoConn => Has(r, pool[r.conn], tx[r.conn], hooks[r.conn])
    <3>1. \A t : /\ TxFits(call[c], t) => TxFits(r, t)
                 /\ Running(r, t) = Running(call[c], t)
      BY <1>1, <2>4 DEF TxFits, Running
    <3> QED
      BY <1>1, <1>3, <2>4, <3>1 DEF Has
  <2> QED
    BY <1>1, <2>1, <2>4, <2>5, <2>6, KeepsConns
<1>5. CASE ~over
  <2> DEFINE r == [call[c] EXCEPT !.pc = "sent", !.op = op]
             as == {op}
             bs == {"tx"}
             cs == {op, "tx"}
  <2>1. /\ call' = [call EXCEPT ![c] = r] /\ tx' = [tx EXCEPT ![k] = op]
        /\ hooks' = Before(hooks, k, as)
    BY <1>5, Zenon DEF Finish
  <2>2. /\ op \in {"commit", "rollback"} /\ (op = "rollback" => call[c].err # "nil")
        /\ k # NoConn /\ tx[k] = "open"
    BY <1>5
  <2> HIDE DEF op, over
  <2>3. /\ r \in CallRecords /\ r.conn = k /\ r.pc = "sent" /\ r.op = op /\ r.kind = "tx"
        /\ r.effects = 0 /\ r.lost = 0 /\ r.err = call[c].err
    <3>1. op \in ActionEnum
      BY <2>2 DEF ActionEnum
    <3> QED
      BY <1>2, <3>1 DEF CallRecords
  <2> HIDE DEF r
  <2>4. OpFits(r) /\ PcFits(r) /\ EffectsFit(r)
    BY <2>2, <2>3 DEF OpFits, PcFits, EffectsFit
  <2>5. k \in Conns /\ call[c].conn = k
    BY <1>2, <2>2
  <2>6. pool[k] = "held" /\ hooks[k] = Only(bs)
    BY <1>1, <1>3, <2>2 DEF Has, Running
  <2>7. Opening(as, bs, cs)
    BY <2>2 DEF Opening
  <2>8. Running(r, op) = cs /\ TxFits(r, op)
    BY <2>2, <2>3 DEF Running, TxFits
  <2>9. /\ tx' \in [Conns -> TxStates] /\ tx'[k] = op
        /\ \A j \in Conns : j # k => tx'[j] = tx[j]
    BY <1>2, <2>1, <2>2, <2>5 DEF TxStates
  <2> HIDE DEF k, as, bs, cs
  <2>10. /\ hooks' \in [Conns -> [ActionEnum -> Int]] /\ hooks'[k] = Only(cs)
         /\ \A j \in Conns : j # k => hooks'[j] = hooks[j]
    <3>1. hooks \in [Conns -> [ActionEnum -> Int]]
      BY <1>2
    <3> QED
      BY <2>1, <2>5, <2>6, <2>7, <3>1, HooksOpen, Zenon
  <2>11. Has(r, pool'[k], tx'[k], hooks'[k])
    BY <1>1, <2>3, <2>6, <2>8, <2>9, <2>10 DEF Has
  <2>12. \A j \in Conns : j # k => pool'[j] = pool[j] /\ tx'[j] = tx[j] /\ hooks'[j] = hooks[j]
    BY <1>1, <2>9, <2>10
  <2>13. pool' \in [Conns -> PoolStates] /\ link' \in [Conns -> LinkStates]
    BY <1>1, <1>2
  <2> QED
    BY <2>1, <2>3, <2>4, <2>5, <2>9, <2>10, <2>11, <2>12, <2>13, KeepsConn
<1> QED
  BY <1>4, <1>5

LEMMA AnswerFinishKeeps ==
  ASSUME StatementInv, NEW c \in Calls, AnswerFinish(c)
  PROVE  StatementInv'
<1> DEFINE k == call[c].conn
           op == tx[k]
           bs == {op, "tx"}
           cs == {}
<1>1. call[c].pc = "sent" /\ op \in {"commit", "rollback"}
      /\ tx' = [tx EXCEPT ![k] = "none"]
  BY DEF AnswerFinish, At
<1>2. /\ call[c] \in CallRecords /\ OpFits(call[c]) /\ k \in Conns /\ call[c].kind = "tx"
      /\ call[c].op = op /\ call[c].effects = 0 /\ call[c].lost = 0
      /\ op = "rollback" => call[c].err # "nil"
      /\ link \in [Conns -> LinkStates] /\ link[k] \in LinkStates
      /\ tx \in [Conns -> TxStates] /\ hooks \in [Conns -> [ActionEnum -> Int]]
  BY <1>1, SentFits DEF TxFits
<1>3. hooks[k] = Only(bs)
  BY <1>1, <1>2, SentFits DEF Running
<1>4. PICK reply \in Replies(k, call[c].ctx) :
        /\ hooks' = After(hooks, k, Closes(op, reply.err))
        /\ call' = [call EXCEPT ![c] =
              [Returned(Reported(call[c], reply),
                        IF op = "commit" THEN reply.err ELSE call[c].err) EXCEPT !.conn = NoConn]]
        /\ GiveBack(k, reply.err, reply.link)
  BY Zenon DEF AnswerFinish
<1>5. /\ reply.err \in Errors \cup {"nil"} /\ reply.did \in {"yes", "no"}
      /\ reply.link \in LinkStates /\ (reply.err = "nil" => reply.did = "yes")
  BY <1>2, RepliesFit
<1> DEFINE e == IF op = "commit" THEN reply.err ELSE call[c].err
           q == Reported(call[c], reply)
           q1 == Returned(q, e)
           r == [q1 EXCEPT !.conn = NoConn]
<1>6. call' = [call EXCEPT ![c] = r] /\ hooks' = After(hooks, k, bs)
  BY <1>1, <1>4 DEF Closes
<1>7. e \in Errors \cup {"nil"} /\ (op = "commit" => e = reply.err) /\ (op = "rollback" => e # "nil")
  BY <1>2, <1>5 DEF CallRecords
<1>8. /\ Counted(call[c], reply.did) \in {0, 1}
      /\ op = "rollback" => Counted(call[c], reply.did) = 0
      /\ op = "commit" /\ reply.err = "nil" => Counted(call[c], reply.did) = 1
  BY <1>1, <1>2, <1>5 DEF Counted
<1>9. /\ q \in CallRecords /\ q.kind = "tx" /\ q.op = op
      /\ q.effects = Counted(call[c], reply.did)
      /\ q.lost = IF reply.err = "nil" THEN 0 ELSE Counted(call[c], reply.did)
  BY <1>2, <1>8, ReportedFits
<1> HIDE DEF e, q
<1>10. /\ q1 \in CallRecords /\ q1.kind = "tx" /\ q1.op = op /\ q1.pc = "returned" /\ q1.err = e
       /\ q1.effects = q.effects /\ q1.lost = q.lost
  BY <1>7, <1>9, ReturnedFits
<1> HIDE DEF q1
<1>11. /\ r \in CallRecords /\ r.kind = "tx" /\ r.op = op /\ r.pc = "returned" /\ r.err = e
       /\ r.effects = q.effects /\ r.lost = q.lost /\ r.conn = NoConn
  BY <1>10, WithoutConn
<1> HIDE DEF r
<1>12. OpFits(r) /\ PcFits(r)
  BY <1>1, <1>11 DEF OpFits, PcFits
<1>13. EffectsFit(r)
  BY <1>1, <1>7, <1>8, <1>9, <1>11 DEF EffectsFit
<1>14. PICK p \in {"none", "idle", "leaked"} : pool' = [pool EXCEPT ![k] = p]
  BY <1>2, <1>4, <1>5, GivenBack
<1>15. link' \in [Conns -> LinkStates]
  BY <1>2, <1>4, <1>5, GivenBack
<1>16. /\ tx' \in [Conns -> TxStates] /\ tx'[k] = "none"
       /\ \A j \in Conns : j # k => tx'[j] = tx[j]
  BY <1>1, <1>2 DEF TxStates
<1>17. Ending(bs, bs, cs) /\ call[c].conn = k
  BY DEF Ending
<1> HIDE DEF k, op, bs, cs
<1>18. /\ hooks' \in [Conns -> [ActionEnum -> Int]] /\ hooks'[k] = Only(cs)
       /\ \A j \in Conns : j # k => hooks'[j] = hooks[j]
  <2>1. k \in Conns /\ hooks \in [Conns -> [ActionEnum -> Int]]
    BY <1>2
  <2>2. Ending(bs, bs, cs) /\ hooks' = After(hooks, k, bs)
    BY <1>6, <1>17
  <2> QED
    BY <1>3, <2>1, <2>2, HooksEnd
<1>19. \A j \in Conns : j # k => tx'[j] = tx[j] /\ hooks'[j] = hooks[j]
  BY <1>16, <1>18
<1>20. hooks'[k] = Only({})
  BY <1>18 DEF cs
<1> QED
  BY <1>2, <1>6, <1>11, <1>12, <1>13, <1>14, <1>15, <1>16, <1>17, <1>18, <1>19, <1>20, LeavesConn

LEMMA WatcherRollsBackKeeps ==
  ASSUME StatementInv, NEW c \in Calls, WatcherRollsBack(c)
  PROVE  StatementInv'
<1> DEFINE k == call[c].conn
           r == call[c]
           as == {"rollback"}
           bs == {"tx"}
           cs == {"tx", "rollback"}
<1>1. /\ k # NoConn /\ r.pc # "sent" /\ tx[k] = "open"
      /\ tx' = [tx EXCEPT ![k] = "watcher"] /\ hooks' = Before(hooks, k, as)
      /\ UNCHANGED <<call, pool, link>>
  BY DEF WatcherRollsBack
<1>2. /\ r \in CallRecords /\ OpFits(r) /\ PcFits(r) /\ EffectsFit(r) /\ k \in Conns
      /\ pool \in [Conns -> PoolStates] /\ link \in [Conns -> LinkStates]
      /\ tx \in [Conns -> TxStates] /\ hooks \in [Conns -> [ActionEnum -> Int]]
      /\ call \in [Calls -> CallRecords]
  BY <1>1, CallFits
<1>3. Has(r, pool[k], tx[k], hooks[k])
  BY <1>1, CallFits
<1>4. r.pc \in {"F", "finish", "returned"}
  BY <1>1, <1>2, <1>3 DEF Has, TxFits, CallRecords
<1>5. pool[k] = "held" /\ hooks[k] = Only(bs)
  BY <1>1, <1>3, <1>4 DEF Has, Running
<1>6. Opening(as, bs, cs)
  BY DEF Opening
<1>7. Running(r, "watcher") = cs /\ TxFits(r, "watcher")
  BY <1>4 DEF Running, TxFits
<1>8. /\ tx' \in [Conns -> TxStates] /\ tx'[k] = "watcher"
      /\ \A j \in Conns : j # k => tx'[j] = tx[j]
  BY <1>1, <1>2 DEF TxStates
<1>9. call' = [call EXCEPT ![c] = r] /\ call[c].conn = k /\ r.conn = k
  BY <1>1, <1>2
<1> HIDE DEF k, r, as, bs, cs
<1>10. /\ hooks' \in [Conns -> [ActionEnum -> Int]] /\ hooks'[k] = Only(cs)
       /\ \A j \in Conns : j # k => hooks'[j] = hooks[j]
  <2>1. k \in Conns /\ hooks \in [Conns -> [ActionEnum -> Int]] /\ hooks[k] = Only(bs)
    BY <1>2, <1>5
  <2>2. hooks' = Before(hooks, k, as)
    BY <1>1
  <2> QED
    BY <1>6, <2>1, <2>2, HooksOpen
<1>11. Has(r, pool'[k], tx'[k], hooks'[k])
  BY <1>1, <1>4, <1>5, <1>7, <1>8, <1>10 DEF Has
<1>12. \A j \in Conns : j # k => pool'[j] = pool[j] /\ tx'[j] = tx[j] /\ hooks'[j] = hooks[j]
  BY <1>1, <1>8, <1>10
<1>13. pool' \in [Conns -> PoolStates] /\ link' \in [Conns -> LinkStates]
  BY <1>1, <1>2
<1> QED
  BY <1>2, <1>8, <1>9, <1>10, <1>11, <1>12, <1>13, KeepsConn

\* The call that had the connection is without one afterwards.
LEMMA WatcherAnswerKeeps ==
  ASSUME StatementInv, NEW k \in Conns, WatcherAnswer(k)
  PROVE  StatementInv'
<1> DEFINE bs == {"tx", "rollback"}
           cs == {}
<1>1. /\ tx[k] = "watcher" /\ hooks' = After(hooks, k, bs)
      /\ tx' = [tx EXCEPT ![k] = "none"]
      /\ pool' = [pool EXCEPT ![k] = "none"] /\ link' = [link EXCEPT ![k] = "shut"]
      /\ call' = [c \in Calls |-> IF call[c].conn = k
                                  THEN [call[c] EXCEPT !.conn = NoConn] ELSE call[c]]
  <2>1. Closes("rollback", "nil") = bs
    BY DEF Closes
  <2> QED
    BY <2>1 DEF WatcherAnswer, CloseConn
<1>2. PICK c \in Calls : call[c].conn = k
  <2>1. ~Free(pool[k], tx[k], hooks[k])
    BY <1>1 DEF Free
  <2> QED
    BY <2>1 DEF StatementInv, Unowned
<1> DEFINE q == call[c]
           r == [q EXCEPT !.conn = NoConn]
<1>3. /\ q \in CallRecords /\ OpFits(q) /\ PcFits(q) /\ EffectsFit(q)
      /\ Has(q, pool[k], tx[k], hooks[k]) /\ call \in [Calls -> CallRecords]
      /\ link \in [Conns -> LinkStates]
      /\ tx \in [Conns -> TxStates] /\ hooks \in [Conns -> [ActionEnum -> Int]]
  BY <1>2, CallFits, ConnsArePositive
<1>4. \A d \in Calls : call[d].conn = k => d = c
  BY <1>2, ConnsArePositive DEF StatementInv, OneOwner
<1>5. call' = [call EXCEPT ![c] = r]
  BY <1>1, <1>2, <1>3, <1>4
<1>6. q.pc \in {"F", "finish", "returned"}
  BY <1>1, <1>3 DEF Has, TxFits, CallRecords
<1>7. hooks[k] = Only(bs)
  BY <1>1, <1>3, <1>6 DEF Has, Running
<1> HIDE DEF q
<1>8. /\ r \in CallRecords /\ r.conn = NoConn /\ r.pc = q.pc /\ r.err = q.err
      /\ r.kind = q.kind /\ r.op = q.op /\ r.attempt = q.attempt
      /\ r.effects = q.effects /\ r.lost = q.lost
  BY <1>3, WithoutConn
<1> HIDE DEF r
<1>9. OpFits(r) /\ PcFits(r) /\ EffectsFit(r)
  BY <1>3, <1>6, <1>8 DEF OpFits, PcFits, EffectsFit
<1>10. /\ tx' \in [Conns -> TxStates] /\ tx'[k] = "none"
       /\ \A j \in Conns : j # k => tx'[j] = tx[j]
  BY <1>1, <1>3 DEF TxStates
<1>11. link' \in [Conns -> LinkStates]
  BY <1>1, <1>3 DEF LinkStates
<1>12. Ending(bs, bs, cs)
  BY DEF Ending
<1> HIDE DEF bs, cs
<1>13. /\ hooks' \in [Conns -> [ActionEnum -> Int]] /\ hooks'[k] = Only(cs)
       /\ \A j \in Conns : j # k => hooks'[j] = hooks[j]
  <2>1. hooks \in [Conns -> [ActionEnum -> Int]] /\ hooks' = After(hooks, k, bs)
    BY <1>1, <1>3
  <2> QED
    BY <1>7, <1>12, <2>1, HooksEnd
<1>14. \A j \in Conns : j # k => tx'[j] = tx[j] /\ hooks'[j] = hooks[j]
  BY <1>10, <1>13
<1>15. hooks'[k] = Only({}) /\ pool' = [pool EXCEPT ![k] = "none"]
  BY <1>1, <1>13 DEF cs
<1> QED
  BY <1>2, <1>5, <1>8, <1>9, <1>10, <1>11, <1>13, <1>14, <1>15, LeavesConn
-----------------------------------------------------------------------------
LEMMA InitFits ==
  ASSUME Init
  PROVE  StatementInv
<1> DEFINE r == [kind |-> "exec", op |-> "exec", ctx |-> "live", pc |-> "idle",
                 attempt |-> 0, tries |-> 0, conn |-> NoConn, err |-> "nil",
                 effects |-> 0, lost |-> 0]
<1>1. /\ r \in CallRecords /\ r.kind = "exec" /\ r.op = "exec" /\ r.pc = "idle"
      /\ r.conn = NoConn /\ r.effects = 0 /\ r.lost = 0 /\ r.attempt = 0
  BY BoundsAssumption DEF CallRecords, Kinds, ActionEnum
<1>2. call = [c \in Calls |-> r]
  BY DEF Init
<1> HIDE DEF r
<1>3. OpFits(r) /\ PcFits(r) /\ EffectsFit(r)
  BY <1>1 DEF OpFits, PcFits, EffectsFit
<1>4. CallsFit /\ Owned /\ OneOwner
  BY <1>1, <1>2, <1>3 DEF CallsFit, Owned, OneOwner
<1>5. [a \in ActionEnum |-> 0] = Only({})
  BY DEF Only
<1>6. Unowned
  BY <1>5 DEF Unowned, Free, Init
<1>7. Types
  BY <1>1, <1>2 DEF Types, Init
<1> QED
  BY <1>4, <1>6, <1>7 DEF StatementInv

\* Every step keeps the invariant.
LEMMA StepKeeps ==
  ASSUME StatementInv, [Next]_vars
  PROVE  StatementInv'
<1>1. CASE UNCHANGED vars
  BY <1>1 DEF vars, StatementInv, Types, CallsFit, Owned, OneOwner, Unowned, OpFits, PcFits,
              EffectsFit, Retries, Has, TxFits, Running, Opens, Only, Free
<1>2. CASE Ready \/ ReadyNoSlot \/ \E k \in Conns : Cut(k) \/ Expire(k)
  BY <1>2, ExternalKeeps
<1>3. ASSUME NEW k \in Conns, WatcherAnswer(k)
      PROVE  StatementInv'
  BY <1>3, WatcherAnswerKeeps
<1>4. ASSUME NEW c \in Calls, Start(c) \/ CancelCtx(c) \/ CloseRows(c)
      PROVE  StatementInv'
  BY <1>4, StartKeeps, CancelCtxKeeps, CloseRowsKeeps
<1>5. ASSUME NEW c \in Calls, Step(c)
      PROVE  StatementInv'
  <2>1. CASE Attempt(c) \/ GiveUp(c) \/ BreakerDone(c)
    BY <2>1, LoopKeeps
  <2>2. CASE TakeIdle(c) \/ Dial(c)
    BY <2>2, ConnKeeps
  <2>3. CASE WaitCanceled(c)
    BY <2>3, WaitCanceledKeeps
  <2>4. CASE DialOk(c)
    BY <2>4, DialOkKeeps
  <2>5. CASE DialFails(c)
    BY <2>5, DialFailsKeeps
  <2>6. CASE PathAnswer(c)
    BY <2>6, PathAnswerKeeps
  <2>7. CASE Send(c)
    BY <2>7, SendKeeps
  <2>8. CASE Answer(c)
    BY <2>8, AnswerKeeps
  <2>9. CASE InF(c)
    BY <2>9, InFKeeps
  <2>10. CASE AnswerInF(c)
    BY <2>10, AnswerInFKeeps
  <2>11. CASE Finish(c)
    BY <2>11, FinishKeeps
  <2>12. CASE AnswerFinish(c)
    BY <2>12, AnswerFinishKeeps
  <2>13. CASE WatcherRollsBack(c)
    BY <2>13, WatcherRollsBackKeeps
  <2> QED
    BY <1>5, <2>1, <2>2, <2>3, <2>4, <2>5, <2>6, <2>7, <2>8, <2>9, <2>10, <2>11, <2>12, <2>13
       DEF Step
<1> QED
  BY <1>1, <1>2, <1>3, <1>4, <1>5 DEF Next
-----------------------------------------------------------------------------
\* In every behaviour each connection has at most one call that uses it, what
\* the hooks have open on it is what that call is doing, a connection without
\* a call has nothing open, and the account of effects of every call is right.
THEOREM StatementInvHolds == Spec => []StatementInv
<1>1. Init => StatementInv
  BY InitFits
<1>2. StatementInv /\ [Next]_vars => StatementInv'
  BY StepKeeps
<1> QED
  BY <1>1, <1>2, PTL DEF Spec

\* The hooks that wrConn, wrStmt and wrTx call come in pairs on every
\* connection, whichever of finishTx, BeginTx and the watcher of database/sql
\* ends a transaction, and whatever fails or is canceled in between.
THEOREM HooksArePaired == Spec => []HooksPair
<1>1. ASSUME StatementInv
      PROVE  HooksPair
  <2> SUFFICES ASSUME NEW k \in Conns
               PROVE  /\ \A a \in ActionEnum : hooks[k][a] \in {0, 1}
                      /\ pool[k] \in {"none", "idle", "leaked"} =>
                           \A a \in ActionEnum : hooks[k][a] = 0
                      /\ hooks[k]["tx"] = 1 <=> tx[k] # "none" \/ hooks[k]["begin"] = 1
    BY DEF HooksPair
  <2>1. ASSUME NEW as, hooks[k] = Only(as)
        PROVE  \A a \in ActionEnum : /\ hooks[k][a] \in {0, 1}
                                     /\ hooks[k][a] = 1 <=> a \in as
    <3> SUFFICES ASSUME NEW a \in ActionEnum
                 PROVE  hooks[k][a] \in {0, 1} /\ (hooks[k][a] = 1 <=> a \in as)
      OBVIOUS
    <3>1. hooks[k][a] = IF a \in as THEN 1 ELSE 0
      BY <2>1 DEF Only
    <3>2. CASE a \in as
      BY <3>1, <3>2
    <3>3. CASE a \notin as
      <4>1. hooks[k][a] = 0
        BY <3>1, <3>3, Zenon
      <4>2. hooks[k][a] # 1
        BY <4>1
      <4> QED
        BY <3>3, <4>1, <4>2, Zenon
    <3> QED
      BY <3>2, <3>3
  <2>2. "tx" \in ActionEnum /\ "begin" \in ActionEnum
    BY DEF ActionEnum
  <2>3. CASE pool[k] \in {"none", "idle", "leaked"}
    <3>1. tx[k] = "none" /\ hooks[k] = Only({})
      BY <1>1, <2>3, NobodyHas
    <3>2. \A a \in ActionEnum : hooks[k][a] \in {0, 1} /\ ~(hooks[k][a] = 1)
      BY <2>1, <3>1
    <3> QED
      BY <2>2, <3>1, <3>2
  <2>4. CASE pool[k] \notin {"none", "idle", "leaked"}
    <3>1. PICK c \in Calls : call[c].conn = k
      BY <1>1, <2>4 DEF StatementInv, Unowned, Free
    <3>2. Has(call[c], pool[k], tx[k], hooks[k]) /\ call[c] \in CallRecords
          /\ tx[k] \in TxStates
      BY <1>1, <3>1, CallFits, ConnsArePositive
    <3> DEFINE as == Running(call[c], tx[k])
    <3>3. hooks[k] = Only(as)
      BY <3>2 DEF Has
    <3>4. "tx" \in as <=> tx[k] # "none" \/ "begin" \in as
      <4>1. CASE call[c].pc = "sent" /\ tx[k] = "none"
        <5>1. as = Opens(call[c].op) /\ call[c].op # "tx"
          BY <3>2, <4>1 DEF Has, Running, TxFits
        <5> HIDE DEF as
        <5> QED
          BY <4>1, <5>1 DEF Opens
      <4>2. CASE call[c].pc = "sent" /\ tx[k] # "none"
        BY <4>2 DEF Running
      <4>3. CASE call[c].pc \in {"dial", "path", "send", "rows"}
        <5>1. tx[k] = "none" /\ as \in {{"exec"}, {}}
          BY <3>2, <4>3 DEF Has, Running, TxFits
        <5> HIDE DEF as
        <5> QED
          BY <5>1
      <4>4. CASE call[c].pc \in {"F", "finish", "returned"}
        <5>1. tx[k] # "none" /\ as \in {{"tx"}, {"tx", "rollback"}}
          BY <3>2, <4>4 DEF Has, Running, TxFits
        <5> HIDE DEF as
        <5> QED
          BY <5>1
      <4>5. call[c].pc \in {"dial", "path", "send", "sent", "rows", "F", "finish", "returned"}
        BY <3>2 DEF Has, CallRecords
      <4> QED
        BY <4>1, <4>2, <4>3, <4>4, <4>5
    <3> HIDE DEF as
    <3>5. \A a \in ActionEnum : hooks[k][a] \in {0, 1} /\ (hooks[k][a] = 1 <=> a \in as)
      BY <2>1, <3>3
    <3> QED
      BY <2>2, <2>4, <3>4, <3>5
  <2> QED
    BY <2>3, <2>4
<1> QED
  BY <1>1, StatementInvHolds, PTL

\* A call returns nil only for what was done, an error only for what was not
\* done or whose answer was lost, and a call that is not under retry.Do, or a
\* transaction, has an effect once at most.
THEOREM EffectsJustified == Spec => []EffectsAreJustified
<1>1. ASSUME StatementInv
      PROVE  EffectsAreJustified
  <2> SUFFICES ASSUME NEW c \in Calls, call[c].pc \in {"rows", "returned"}
               PROVE  /\ call[c].err = "nil" => call[c].effects = call[c].lost + 1
                      /\ call[c].err # "nil" => call[c].effects = call[c].lost
                      /\ call[c].kind \in {"row", "stmt", "tx"} => call[c].effects <= 1
    BY DEF EffectsAreJustified
  <2> QED
    BY <1>1, CallFits DEF PcFits, EffectsFit
<1> QED
  BY <1>1, StatementInvHolds, PTL

-----------------------------------------------------------------------------
(* Induction, and the loops of the parsers.                                *)

\* A set of numbers has a least one.
LEMMA LeastNatural ==
  ASSUME NEW T \in SUBSET Nat, T # {}
  PROVE  \E x \in T : \A y \in T : x <= y
<1>1. PICK x \in T : \A y \in T : ~(<<y, x>> \in OpToRel(<, Nat))
  BY NatLessThanWellFounded, WFMin
<1>2. \A y \in T : y < x => <<y, x>> \in OpToRel(<, Nat)
  <2>1. OpToRel(<, Nat) = {ss \in Nat \X Nat : ss[1] < ss[2]}
    BY DEF OpToRel
  <2>2. ASSUME NEW y \in Nat, NEW z \in Nat, y < z
        PROVE  <<y, z>> \in {ss \in Nat \X Nat : ss[1] < ss[2]}
    BY <2>2
  <2> QED
    BY <2>1, <2>2
<1>3. \A y \in T : ~(y < x)
  BY <1>1, <1>2, Zenon
<1> QED
  BY <1>3

\* Induction up to n: what G holds at 0 and passes on, it holds throughout.
LEMMA InductionUpTo ==
  ASSUME NEW n \in Nat, NEW G, 0 \in G, \A k \in 1 .. n : k - 1 \in G => k \in G
  PROVE  \A k \in 0 .. n : k \in G
<1> DEFINE T == {k \in 0 .. n : k \notin G}
<1> SUFFICES ASSUME T # {} PROVE FALSE
  OBVIOUS
<1>1. PICK k \in T : \A y \in T : k <= y
  <2>1. T \in SUBSET Nat
    OBVIOUS
  <2> HIDE DEF T
  <2> QED
    BY <2>1, LeastNatural
<1>2. k \in 1 .. n /\ k - 1 \in 0 .. n /\ ~(k <= k - 1)
  BY <1>1
<1>3. k - 1 \notin T
  <2> HIDE DEF T
  <2> QED
    BY <1>1, <1>2
<1> QED
  BY <1>1, <1>2, <1>3

\* parseArray: the loop has a state after every character.
LEMMA ArrayRuns ==
  ASSUME NEW S, NEW src \in Seq(S)
  PROVE  \E run : /\ ArrayRun(src) = run[Len(src)]
                  /\ run[0] = Parser
                  /\ \A i \in 1 .. Len(src) : run[i] = ArrayStep(run[i - 1], src[i])
<1> DEFINE n == Len(src)
           Body(f, m) == [i \in 0 .. m |-> IF i = 0 THEN Parser ELSE ArrayStep(f[i - 1], src[i])]
           G == {m \in 0 .. n : \E f : f = Body(f, m)}
<1>1. n \in Nat
  OBVIOUS
<1>2. 0 \in G
  <2> DEFINE f0 == [i \in 0 .. 0 |-> Parser]
  <2>1. f0 = Body(f0, 0)
    OBVIOUS
  <2> HIDE DEF f0, Body
  <2> QED
    BY <1>1, <2>1
<1>3. ASSUME NEW m \in 1 .. n, m - 1 \in G
      PROVE  m \in G
  <2>1. PICK f : f = Body(f, m - 1)
    BY <1>3
  <2> DEFINE g == [i \in 0 .. m |-> IF i = m THEN ArrayStep(f[m - 1], src[m]) ELSE f[i]]
  <2>2. g = Body(g, m)
    <3>1. ASSUME NEW i \in 0 .. m
          PROVE  g[i] = IF i = 0 THEN Parser ELSE ArrayStep(g[i - 1], src[i])
      <4>1. CASE i = m
        BY <1>1, <4>1
      <4>2. CASE i # m
        <5>1. i \in 0 .. (m - 1) /\ g[i] = f[i]
          BY <1>1, <4>2
        <5>2. i # 0 => i - 1 \in 0 .. (m - 1) /\ g[i - 1] = f[i - 1]
          BY <1>1, <4>2, <5>1
        <5>3. f[i] = IF i = 0 THEN Parser ELSE ArrayStep(f[i - 1], src[i])
          BY <2>1, <5>1
        <5> QED
          BY <5>1, <5>2, <5>3
      <4> QED
        BY <4>1, <4>2
    <3>2. g = [i \in 0 .. m |-> IF i = 0 THEN Parser ELSE ArrayStep(g[i - 1], src[i])]
      BY <3>1
    <3> QED
      BY <3>2
  <2>3. m \in 0 .. n
    BY <1>1
  <2> HIDE DEF g, Body
  <2> QED
    BY <2>2, <2>3
<1>4. \E f : f = Body(f, n)
  <2>1. n \in 0 .. n
    BY <1>1
  <2> HIDE DEF G, n
  <2>2. n \in G
    BY <1>1, <1>2, <1>3, <2>1, InductionUpTo
  <2> QED
    BY <2>2 DEF G
<1> DEFINE run == CHOOSE f : f = Body(f, n)
<1>5. ArrayRun(src) = run[n]
  BY Zenon DEF ArrayRun
<1> HIDE DEF Body
<1>6. run = Body(run, n)
  BY <1>4, Zenon
<1> HIDE DEF run
<1>7. \A i \in 0 .. n : run[i] = IF i = 0 THEN Parser ELSE ArrayStep(run[i - 1], src[i])
  <2>1. run = [i \in 0 .. n |-> IF i = 0 THEN Parser ELSE ArrayStep(run[i - 1], src[i])]
    BY <1>6 DEF Body
  <2> QED
    BY <2>1
<1>8. run[0] = Parser /\ \A i \in 1 .. n : run[i] = ArrayStep(run[i - 1], src[i])
  BY <1>1, <1>7
<1> QED
  BY <1>5, <1>8

\* parseArray: one character more is one step more.
LEMMA ArrayGrows ==
  ASSUME NEW S, NEW src \in Seq(S), NEW ch \in S
  PROVE  ArrayRun(Append(src, ch)) = ArrayStep(ArrayRun(src), ch)
<1> DEFINE n == Len(src)
           more == Append(src, ch)
<1>1. n \in Nat /\ more \in Seq(S) /\ Len(more) = n + 1 /\ more[n + 1] = ch
  OBVIOUS
<1>2. \A i \in 1 .. n : more[i] = src[i]
  OBVIOUS
<1> HIDE DEF more
<1>3. PICK a : /\ ArrayRun(src) = a[n]
               /\ a[0] = Parser
               /\ \A i \in 1 .. n : a[i] = ArrayStep(a[i - 1], src[i])
  BY ArrayRuns
<1>4. PICK b : /\ ArrayRun(more) = b[n + 1]
               /\ b[0] = Parser
               /\ \A i \in 1 .. (n + 1) : b[i] = ArrayStep(b[i - 1], more[i])
  BY <1>1, ArrayRuns
<1> HIDE DEF n
<1> DEFINE G == {k \in 0 .. n : a[k] = b[k]}
<1>5. 0 \in G
  BY <1>1, <1>3, <1>4
<1>6. ASSUME NEW k \in 1 .. n, k - 1 \in G
      PROVE  k \in G
  <2>1. k \in 0 .. n /\ k \in 1 .. (n + 1)
    BY <1>1
  <2>2. a[k] = ArrayStep(a[k - 1], src[k]) /\ b[k] = ArrayStep(b[k - 1], more[k])
    BY <1>3, <1>4, <2>1
  <2> QED
    BY <1>2, <1>6, <2>1, <2>2
<1>7. a[n] = b[n]
  <2>1. n \in 0 .. n
    BY <1>1
  <2> HIDE DEF G
  <2>2. n \in G
    BY <1>1, <1>5, <1>6, <2>1, InductionUpTo
  <2> QED
    BY <2>2 DEF G
<1>8. b[n + 1] = ArrayStep(b[n], ch)
  <2>1. n + 1 \in 1 .. (n + 1) /\ (n + 1) - 1 = n
    BY <1>1
  <2>2. b[n + 1] = ArrayStep(b[(n + 1) - 1], more[n + 1])
    BY <1>4, <2>1
  <2> QED
    BY <1>1, <2>1, <2>2
<1> QED
  BY <1>3, <1>4, <1>7, <1>8 DEF more

LEMMA ArrayStarts == ArrayRun(<<>>) = Parser
<1>1. <<>> \in Seq({}) /\ Len(<<>>) = 0
  OBVIOUS
<1> QED
  BY <1>1, ArrayRuns

\* parseOpts: the loop has a state after every character.
LEMMA OptionRuns ==
  ASSUME NEW S, NEW src \in Seq(S)
  PROVE  \E run : /\ OptionRun(src) = run[Len(src)]
                  /\ run[0] = Options
                  /\ \A i \in 1 .. Len(src) : run[i] = OptionStep(run[i - 1], src[i])
<1> DEFINE n == Len(src)
           Body(f, m) == [i \in 0 .. m |-> IF i = 0 THEN Options ELSE OptionStep(f[i - 1], src[i])]
           G == {m \in 0 .. n : \E f : f = Body(f, m)}
<1>1. n \in Nat
  OBVIOUS
<1>2. 0 \in G
  <2> DEFINE f0 == [i \in 0 .. 0 |-> Options]
  <2>1. f0 = Body(f0, 0)
    OBVIOUS
  <2> HIDE DEF f0, Body
  <2> QED
    BY <1>1, <2>1
<1>3. ASSUME NEW m \in 1 .. n, m - 1 \in G
      PROVE  m \in G
  <2>1. PICK f : f = Body(f, m - 1)
    BY <1>3
  <2> DEFINE g == [i \in 0 .. m |-> IF i = m THEN OptionStep(f[m - 1], src[m]) ELSE f[i]]
  <2>2. g = Body(g, m)
    <3>1. ASSUME NEW i \in 0 .. m
          PROVE  g[i] = IF i = 0 THEN Options ELSE OptionStep(g[i - 1], src[i])
      <4>1. CASE i = m
        BY <1>1, <4>1
      <4>2. CASE i # m
        <5>1. i \in 0 .. (m - 1) /\ g[i] = f[i]
          BY <1>1, <4>2
        <5>2. i # 0 => i - 1 \in 0 .. (m - 1) /\ g[i - 1] = f[i - 1]
          BY <1>1, <4>2, <5>1
        <5>3. f[i] = IF i = 0 THEN Options ELSE OptionStep(f[i - 1], src[i])
          BY <2>1, <5>1
        <5> QED
          BY <5>1, <5>2, <5>3
      <4> QED
        BY <4>1, <4>2
    <3>2. g = [i \in 0 .. m |-> IF i = 0 THEN Options ELSE OptionStep(g[i - 1], src[i])]
      BY <3>1
    <3> QED
      BY <3>2
  <2>3. m \in 0 .. n
    BY <1>1
  <2> HIDE DEF g, Body
  <2> QED
    BY <2>2, <2>3
<1>4. \E f : f = Body(f, n)
  <2>1. n \in 0 .. n
    BY <1>1
  <2> HIDE DEF G, n
  <2>2. n \in G
    BY <1>1, <1>2, <1>3, <2>1, InductionUpTo
  <2> QED
    BY <2>2 DEF G
<1> DEFINE run == CHOOSE f : f = Body(f, n)
<1>5. OptionRun(src) = run[n]
  BY Zenon DEF OptionRun
<1> HIDE DEF Body
<1>6. run = Body(run, n)
  BY <1>4, Zenon
<1> HIDE DEF run
<1>7. \A i \in 0 .. n : run[i] = IF i = 0 THEN Options ELSE OptionStep(run[i - 1], src[i])
  <2>1. run = [i \in 0 .. n |-> IF i = 0 THEN Options ELSE OptionStep(run[i - 1], src[i])]
    BY <1>6 DEF Body
  <2> QED
    BY <2>1
<1>8. run[0] = Options /\ \A i \in 1 .. n : run[i] = OptionStep(run[i - 1], src[i])
  BY <1>1, <1>7
<1> QED
  BY <1>5, <1>8

\* parseOpts: one character more is one step more.
LEMMA OptionGrows ==
  ASSUME NEW S, NEW src \in Seq(S), NEW ch \in S
  PROVE  OptionRun(Append(src, ch)) = OptionStep(OptionRun(src), ch)
<1> DEFINE n == Len(src)
           more == Append(src, ch)
<1>1. n \in Nat /\ more \in Seq(S) /\ Len(more) = n + 1 /\ more[n + 1] = ch
  OBVIOUS
<1>2. \A i \in 1 .. n : more[i] = src[i]
  OBVIOUS
<1> HIDE DEF more
<1>3. PICK a : /\ OptionRun(src) = a[n]
               /\ a[0] = Options
               /\ \A i \in 1 .. n : a[i] = OptionStep(a[i - 1], src[i])
  BY OptionRuns
<1>4. PICK b : /\ OptionRun(more) = b[n + 1]
               /\ b[0] = Options
               /\ \A i \in 1 .. (n + 1) : b[i] = OptionStep(b[i - 1], more[i])
  BY <1>1, OptionRuns
<1> HIDE DEF n
<1> DEFINE G == {k \in 0 .. n : a[k] = b[k]}
<1>5. 0 \in G
  BY <1>1, <1>3, <1>4
<1>6. ASSUME NEW k \in 1 .. n, k - 1 \in G
      PROVE  k \in G
  <2>1. k \in 0 .. n /\ k \in 1 .. (n + 1)
    BY <1>1
  <2>2. a[k] = OptionStep(a[k - 1], src[k]) /\ b[k] = OptionStep(b[k - 1], more[k])
    BY <1>3, <1>4, <2>1
  <2> QED
    BY <1>2, <1>6, <2>1, <2>2
<1>7. a[n] = b[n]
  <2>1. n \in 0 .. n
    BY <1>1
  <2> HIDE DEF G
  <2>2. n \in G
    BY <1>1, <1>5, <1>6, <2>1, InductionUpTo
  <2> QED
    BY <2>2 DEF G
<1>8. b[n + 1] = OptionStep(b[n], ch)
  <2>1. n + 1 \in 1 .. (n + 1) /\ (n + 1) - 1 = n
    BY <1>1
  <2>2. b[n + 1] = OptionStep(b[(n + 1) - 1], more[n + 1])
    BY <1>4, <2>1
  <2> QED
    BY <1>1, <2>1, <2>2
<1> QED
  BY <1>3, <1>4, <1>7, <1>8 DEF more

LEMMA OptionStarts == OptionRun(<<>>) = Options
<1>1. <<>> \in Seq({}) /\ Len(<<>>) = 0
  OBVIOUS
<1> QED
  BY <1>1, OptionRuns

\* FlattenSeq: its recursion has a value for every index.
LEMMA FlattenRuns ==
  ASSUME NEW S, NEW ss \in Seq(Seq(S)), ss # <<>>
  PROVE  \E flat : /\ FlattenSeq(ss) = flat[Len(ss)]
                   /\ flat[1] = ss[1]
                   /\ \A i \in 2 .. Len(ss) : flat[i] = flat[i - 1] \o ss[i]
<1> DEFINE n == Len(ss)
           Cat(x, i) == x \o ss[i]
           Body(f, m) == [i \in 1 .. m |-> IF i = 1 THEN ss[i] ELSE Cat(f[i - 1], i)]
           G == {m \in 0 .. n : m # 0 => \E f : f = Body(f, m)}
<1>1. n \in Nat /\ n # 0
  OBVIOUS
<1> HIDE DEF Cat, n
<1>2. 0 \in G
  BY <1>1
<1>3. ASSUME NEW m \in 1 .. n, m - 1 \in G
      PROVE  m \in G
  <2>1. m \in 0 .. n
    BY <1>1
  <2>2. CASE m = 1
    <3> DEFINE f0 == [i \in 1 .. 1 |-> ss[1]]
    <3>1. f0 = Body(f0, 1)
      OBVIOUS
    <3> HIDE DEF f0, Body
    <3> QED
      BY <2>1, <2>2, <3>1
  <2>3. CASE m # 1
    <3>1. PICK f : f = Body(f, m - 1)
      BY <1>1, <1>3, <2>3
    <3> DEFINE g == [i \in 1 .. m |-> IF i = m THEN Cat(f[m - 1], m) ELSE f[i]]
    <3>2. ASSUME NEW i \in 1 .. m
          PROVE  g[i] = IF i = 1 THEN ss[i] ELSE Cat(g[i - 1], i)
      <4>1. CASE i = m
        BY <1>1, <2>3, <4>1
      <4>2. CASE i # m
        <5>1. i \in 1 .. (m - 1) /\ g[i] = f[i]
          BY <1>1, <4>2
        <5>2. i # 1 => i - 1 \in 1 .. (m - 1) /\ g[i - 1] = f[i - 1]
          BY <1>1, <4>2, <5>1
        <5>3. f[i] = IF i = 1 THEN ss[i] ELSE Cat(f[i - 1], i)
          BY <3>1, <5>1
        <5> QED
          BY <5>1, <5>2, <5>3
      <4> QED
        BY <4>1, <4>2
    <3>3. g = [i \in 1 .. m |-> IF i = 1 THEN ss[i] ELSE Cat(g[i - 1], i)]
      BY <3>2
    <3>4. g = Body(g, m)
      BY <3>3
    <3> HIDE DEF g, Body
    <3> QED
      BY <2>1, <3>4
  <2> QED
    BY <2>2, <2>3
<1>4. \E f : f = Body(f, n)
  <2>1. n \in 0 .. n
    BY <1>1
  <2> HIDE DEF G
  <2>2. n \in G
    BY <1>1, <1>2, <1>3, <2>1, InductionUpTo
  <2> QED
    BY <1>1, <2>2 DEF G
<1> DEFINE flat == CHOOSE f : f = Body(f, n)
<1>5. FlattenSeq(ss) = flat[n]
  <2>1. FlattenSeq(ss) = IF n = 0 THEN ss ELSE flat[n]
    BY Zenon DEF FlattenSeq, Cat, n
  <2> HIDE DEF flat
  <2> QED
    BY <1>1, <2>1
<1> HIDE DEF Body
<1>6. flat = Body(flat, n)
  BY <1>4, Zenon
<1> HIDE DEF flat
<1>7. \A i \in 1 .. n : flat[i] = IF i = 1 THEN ss[i] ELSE Cat(flat[i - 1], i)
  <2>1. flat = [i \in 1 .. n |-> IF i = 1 THEN ss[i] ELSE Cat(flat[i - 1], i)]
    BY <1>6 DEF Body
  <2> QED
    BY <2>1
<1>8. flat[1] = ss[1] /\ \A i \in 2 .. n : flat[i] = Cat(flat[i - 1], i)
  BY <1>1, <1>7
<1> QED
  BY <1>5, <1>8, Zenon DEF Cat, n

\* FlattenSeq: one sequence more is appended.
LEMMA FlattenGrows ==
  ASSUME NEW S, NEW ss \in Seq(Seq(S)), NEW t \in Seq(S)
  PROVE  FlattenSeq(Append(ss, t)) = FlattenSeq(ss) \o t
<1> DEFINE n == Len(ss)
           more == Append(ss, t)
<1>1. n \in Nat /\ more \in Seq(Seq(S)) /\ more # <<>> /\ Len(more) = n + 1 /\ more[n + 1] = t
  <2>1. \A U : \A xs \in Seq(U), x \in U :
          /\ Len(xs) \in Nat
          /\ Append(xs, x) \in Seq(U)
          /\ Append(xs, x) # <<>>
          /\ Len(Append(xs, x)) = Len(xs) + 1
          /\ Append(xs, x)[Len(xs) + 1] = x
    OBVIOUS
  <2> QED
    BY <2>1, Zenon
<1>2. \A i \in 1 .. n : more[i] = ss[i]
  OBVIOUS
<1>3. ss # <<>> <=> n # 0
  OBVIOUS
<1> HIDE DEF more
<1>4. PICK b : /\ FlattenSeq(more) = b[n + 1]
               /\ b[1] = more[1]
               /\ \A i \in 2 .. (n + 1) : b[i] = b[i - 1] \o more[i]
  <2>1. \E flat : /\ FlattenSeq(more) = flat[Len(more)]
                  /\ flat[1] = more[1]
                  /\ \A i \in 2 .. Len(more) : flat[i] = flat[i - 1] \o more[i]
    BY <1>1, FlattenRuns, Zenon
  <2> QED
    BY <1>1, <2>1, Zenon
<1>5. CASE ss = <<>>
  <2>1. FlattenSeq(ss) = ss
    BY <1>5 DEF FlattenSeq
  <2>2. FlattenSeq(more) = t
    BY <1>1, <1>3, <1>4, <1>5
  <2> QED
    BY <1>5, <2>1, <2>2 DEF more
<1>6. CASE ss # <<>>
  <2>1. PICK a : /\ FlattenSeq(ss) = a[n]
                 /\ a[1] = ss[1]
                 /\ \A i \in 2 .. n : a[i] = a[i - 1] \o ss[i]
    BY <1>6, FlattenRuns, Zenon
  <2>2. n # 0
    BY <1>3, <1>6
  <2> HIDE DEF n
  <2> DEFINE G == {k \in 0 .. n : k # 0 => a[k] = b[k]}
  <2>3. 0 \in G
    BY <1>1
  <2>4. ASSUME NEW k \in 1 .. n, k - 1 \in G
        PROVE  k \in G
    <3>1. k \in 0 .. n /\ more[k] = ss[k]
      BY <1>1, <1>2
    <3>2. CASE k = 1
      BY <1>4, <2>1, <3>1, <3>2
    <3>3. CASE k # 1
      <4>1. k \in 2 .. n /\ k \in 2 .. (n + 1)
        BY <1>1, <3>3
      <4>2. a[k - 1] = b[k - 1]
        BY <1>1, <2>4, <3>3
      <4>3. a[k] = a[k - 1] \o ss[k] /\ b[k] = b[k - 1] \o more[k]
        BY <1>4, <2>1, <4>1, Zenon
      <4>4. a[k] = b[k]
        BY <3>1, <4>2, <4>3, Zenon
      <4> QED
        BY <3>1, <4>4
    <3> QED
      BY <3>2, <3>3
  <2>5. a[n] = b[n]
    <3>1. n \in 0 .. n
      BY <1>1
    <3> HIDE DEF G
    <3>2. n \in G
      BY <1>1, <2>3, <2>4, <3>1, InductionUpTo
    <3> QED
      BY <2>2, <3>2 DEF G
  <2>6. n + 1 \in 2 .. (n + 1) /\ (n + 1) - 1 = n
    BY <1>1, <2>2
  <2>7. b[n + 1] = b[(n + 1) - 1] \o more[n + 1]
    BY <1>4, <2>6
  <2>8. b[n + 1] = b[n] \o t
    BY <1>1, <2>6, <2>7
  <2>9. FlattenSeq(more) = FlattenSeq(ss) \o t
    BY <1>4, <2>1, <2>5, <2>8, Zenon
  <2> QED
    BY <2>9 DEF more
<1> QED
  BY <1>5, <1>6

LEMMA FlattenEmpty == FlattenSeq(<<>>) = <<>>
BY DEF FlattenSeq

\* The first k elements of a sequence: the induction over sequences goes
\* from k - 1 to k.
LEMMA FirstElements ==
  ASSUME NEW S, NEW s \in Seq(S)
  PROVE  /\ Len(s) \in Nat
         /\ <<>> \in Seq(S)
         /\ SubSeq(s, 1, 0) = <<>>
         /\ SubSeq(s, 1, Len(s)) = s
         /\ \A k \in 1 .. Len(s) : /\ SubSeq(s, 1, k) \in Seq(S)
                                   /\ SubSeq(s, 1, k) = Append(SubSeq(s, 1, k - 1), s[k])
                                   /\ SubSeq(s, 1, k - 1) \in Seq(S)
                                   /\ s[k] \in S
OBVIOUS

\* FlattenSeq: the characters are those of the sequences.
LEMMA FlattenType ==
  ASSUME NEW S, NEW ss \in Seq(Seq(S))
  PROVE  FlattenSeq(ss) \in Seq(S)
<1> DEFINE n == Len(ss)
           G == {k \in 0 .. n : FlattenSeq(SubSeq(ss, 1, k)) \in Seq(S)}
<1>1. n \in Nat
  OBVIOUS
<1>2. 0 \in G
  <2>1. SubSeq(ss, 1, 0) = <<>> /\ <<>> \in Seq(S)
    OBVIOUS
  <2>2. FlattenSeq(SubSeq(ss, 1, 0)) \in Seq(S)
    BY <2>1, FlattenEmpty, Zenon
  <2> QED
    BY <1>1, <2>2
<1>3. ASSUME NEW k \in 1 .. n, k - 1 \in G
      PROVE  k \in G
  <2> DEFINE p == SubSeq(ss, 1, k - 1)
  <2>1. p \in Seq(Seq(S)) /\ ss[k] \in Seq(S) /\ SubSeq(ss, 1, k) = Append(p, ss[k])
    BY FirstElements
  <2>2. FlattenSeq(p) \in Seq(S)
    BY <1>3
  <2> HIDE DEF p
  <2>3. FlattenSeq(SubSeq(ss, 1, k)) = FlattenSeq(p) \o ss[k]
    BY <2>1, FlattenGrows
  <2>4. FlattenSeq(p) \o ss[k] \in Seq(S)
    BY <2>1, <2>2
  <2>5. FlattenSeq(SubSeq(ss, 1, k)) \in Seq(S)
    BY <2>3, <2>4, Zenon
  <2>6. k \in 0 .. n
    BY <1>1
  <2> QED
    BY <2>5, <2>6, Zenon
<1>4. FlattenSeq(SubSeq(ss, 1, n)) \in Seq(S)
  <2>1. n \in 0 .. n
    BY <1>1
  <2> HIDE DEF G, n
  <2>2. n \in G
    BY <1>1, <1>2, <1>3, <2>1, InductionUpTo
  <2> QED
    BY <2>2 DEF G
<1> QED
  BY <1>4, FirstElements

-----------------------------------------------------------------------------
(* parseArray, one character after the other.                              *)

\* The parser is at mode, within depth brackets.
Is(s, mode, depth, dims, elems, elem) ==
  /\ DOMAIN s = {"mode", "depth", "dims", "elems", "elem"}
  /\ s.mode = mode /\ s.depth = depth /\ s.dims = dims
  /\ s.elems = elems /\ s.elem = elem

\* parseArray: between the quotes of an element of a flat array.
LEMMA QuotedEnds ==
  ASSUME NEW s, NEW d, NEW es, NEW e, Is(s, "quoted", 1, d, es, e)
  PROVE  Is(ArrayStep(s, "\""), "after", 1, d, Append(es, e), <<>>)
<1>1. ArrayStep(s, "\"") = [s EXCEPT !.mode = "after", !.elem = <<>>, !.elems = Append(@, s.elem)]
  BY DEF Is, ArrayStep, Quoted, EndOfQuoted
<1> QED
  BY <1>1 DEF Is

LEMMA QuotedSteps ==
  ASSUME NEW s, NEW d, NEW es, NEW e, NEW ch, Is(s, "quoted", 1, d, es, e)
  PROVE  /\ Is(ArrayStep(s, "\\"), "escaped", 1, d, es, e)
         /\ ch \notin {"\"", "\\"} => Is(ArrayStep(s, ch), "quoted", 1, d, es, Append(e, ch))
<1>1. ArrayStep(s, "\\") = [s EXCEPT !.mode = "escaped"]
  BY DEF Is, ArrayStep, Quoted
<1>2. ch \notin {"\"", "\\"} => ArrayStep(s, ch) = [s EXCEPT !.elem = Append(@, ch)]
  BY DEF Is, ArrayStep, Quoted
<1> QED
  BY <1>1, <1>2 DEF Is

LEMMA EscapedSteps ==
  ASSUME NEW s, NEW d, NEW es, NEW e, NEW ch, Is(s, "escaped", 1, d, es, e)
  PROVE  Is(ArrayStep(s, ch), "quoted", 1, d, es, Append(e, ch))
<1>1. ArrayStep(s, ch) = [s EXCEPT !.mode = "quoted", !.elem = Append(@, ch)]
  BY DEF Is, ArrayStep
<1> QED
  BY <1>1 DEF Is

LEMMA AfterElementSteps ==
  ASSUME NEW s, NEW mode, NEW m \in Nat, NEW es, NEW e, Is(s, mode, 1, <<m>>, es, e)
  PROVE  /\ Is(AfterElement(s, ","), "element", 1, <<m + 1>>, es, e)
         /\ Is(AfterElement(s, "}"), "after", 0, <<m + 1>>, es, e)
<1>1. [<<m>> EXCEPT ![1] = @ + 1] = <<m + 1>>
  OBVIOUS
<1>2. AfterElement(s, ",") = [s EXCEPT !.mode = "element", !.dims[1] = @ + 1]
  BY DEF Is, AfterElement
<1>3. Is(AfterElement(s, ","), "element", 1, [s.dims EXCEPT ![1] = @ + 1], es, e)
  BY <1>2 DEF Is
<1>4. AfterElement(s, "}") = [s EXCEPT !.mode = "after", !.dims[1] = @ + 1, !.depth = @ - 1]
  BY DEF Is, AfterElement
<1>5. Is(AfterElement(s, "}"), "after", s.depth - 1, [s.dims EXCEPT ![1] = @ + 1], es, e)
  BY <1>4 DEF Is
<1>6. s.dims = <<m>> /\ s.depth = 1 /\ 1 - 1 = 0
  BY DEF Is
<1> QED
  BY <1>1, <1>3, <1>5, <1>6

\* parseArray: after an element of a flat array.
LEMMA AfterSteps ==
  ASSUME NEW s, NEW m \in Nat, NEW es, NEW e, Is(s, "after", 1, <<m>>, es, e)
  PROVE  /\ Is(ArrayStep(s, ","), "element", 1, <<m + 1>>, es, e)
         /\ Is(ArrayStep(s, "}"), "after", 0, <<m + 1>>, es, e)
<1>1. ArrayStep(s, ",") = AfterElement(s, ",") /\ ArrayStep(s, "}") = AfterElement(s, "}")
  BY DEF Is, ArrayStep
<1> QED
  BY <1>1, AfterElementSteps, Zenon

\* parseArray: an element without quotes.
LEMMA PlainSteps ==
  ASSUME NEW s, NEW d, NEW es, NEW e, NEW ch, ch \notin {",", "}"}, Is(s, "plain", 1, d, es, e)
  PROVE  Is(ArrayStep(s, ch), "plain", 1, d, es, Append(e, ch))
<1>1. ArrayStep(s, ch) = [s EXCEPT !.mode = "plain", !.elem = Append(@, ch)]
  BY DEF Is, ArrayStep, Plain
<1> QED
  BY <1>1 DEF Is

LEMMA PlainEnds ==
  ASSUME NEW s, NEW m \in Nat, NEW es, NEW e, e # <<>>, e # <<"NULL">>,
         Is(s, "plain", 1, <<m>>, es, e)
  PROVE  /\ Is(ArrayStep(s, ","), "element", 1, <<m + 1>>, Append(es, e), <<>>)
         /\ Is(ArrayStep(s, "}"), "after", 0, <<m + 1>>, Append(es, e), <<>>)
<1> DEFINE t == [s EXCEPT !.elem = <<>>, !.elems = Append(@, e)]
<1>1. Is(t, "plain", 1, <<m>>, Append(es, e), <<>>)
  BY DEF Is
<1>2. s.elem = e /\ s.mode = "plain"
  BY DEF Is
<1>3. Plain(s, ",") = AfterElement(t, ",") /\ Plain(s, "}") = AfterElement(t, "}")
  BY <1>2 DEF Plain
<1>4. ArrayStep(s, ",") = Plain(s, ",") /\ ArrayStep(s, "}") = Plain(s, "}")
  BY <1>2 DEF ArrayStep
<1> HIDE DEF t
<1> QED
  BY <1>1, <1>3, <1>4, AfterElementSteps, Zenon

\* parseArray: the first character of an element.
LEMMA ElementSteps ==
  ASSUME NEW s, NEW mode, NEW d, NEW es, NEW ch, Is(s, mode, 1, d, es, <<>>)
  PROVE  /\ Is(Element(s, "\""), "quoted", 1, d, es, <<>>)
         /\ ch \notin Unquotable => Is(Element(s, ch), "plain", 1, d, es, <<ch>>)
<1>1. Element(s, "\"") = [s EXCEPT !.mode = "quoted"]
  BY DEF Element
<1>2. ch \notin Unquotable => Element(s, ch) = Plain(s, ch)
  BY DEF Element, Unquotable
<1>3. ch \notin Unquotable => Plain(s, ch) = [s EXCEPT !.mode = "plain", !.elem = Append(@, ch)]
  BY DEF Plain, Unquotable
<1>4. Is(Element(s, "\""), "quoted", 1, d, es, <<>>)
  BY <1>1 DEF Is
<1>5. ch \notin Unquotable => Is(Element(s, ch), "plain", 1, d, es, Append(<<>>, ch))
  BY <1>2, <1>3 DEF Is
<1>6. Append(<<>>, ch) = <<ch>>
  OBVIOUS
<1> QED
  BY <1>4, <1>5, <1>6

\* What comes first in an element: a quote, or a character that needs none.
Begins(ch) == ch = "\"" \/ ch \notin Unquotable

\* parseArray: the first element also ends the opening brackets.
LEMMA OpenSteps ==
  ASSUME NEW s, NEW ch, Begins(ch), Is(s, "open", 1, <<>>, <<>>, <<>>)
  PROVE  \E t : /\ Is(t, "open", 1, <<0>>, <<>>, <<>>)
                /\ ArrayStep(s, ch) = Element(t, ch)
<1> DEFINE t == [s EXCEPT !.dims = [i \in 1 .. s.depth |-> 0]]
<1>1. s.depth = 1 /\ s.mode = "open"
  BY DEF Is
<1>2. [i \in 1 .. s.depth |-> 0] = <<0>>
  <2>1. [i \in 1 .. 1 |-> 0] = <<0>>
    OBVIOUS
  <2> QED
    BY <1>1, <2>1
<1>3. Is(t, "open", 1, <<0>>, <<>>, <<>>)
  BY <1>2 DEF Is
<1>4. ch # "{" /\ ch # "}"
  BY DEF Begins, Unquotable
<1>5. Open(s, ch) = Element(t, ch)
  <2>1. s.depth # 0
    BY <1>1
  <2>2. ch \notin {"{", "}"}
    BY <1>4
  <2> QED
    BY <1>4, <2>1, <2>2, Zenon DEF Open
<1>6. ArrayStep(s, ch) = Open(s, ch)
  BY <1>1 DEF ArrayStep
<1> HIDE DEF t
<1> QED
  BY <1>3, <1>5, <1>6, Zenon

LEMMA BracketSteps ==
  /\ Is(ArrayStep(Parser, "{"), "open", 1, <<>>, <<>>, <<>>)
  /\ Is(ArrayStep(ArrayStep(Parser, "{"), "}"), "close", 0, <<>>, <<>>, <<>>)
<1> DEFINE s == ArrayStep(Parser, "{")
<1>1. s = [Parser EXCEPT !.depth = @ + 1]
  BY DEF ArrayStep, Open, Parser
<1>2. Is(s, "open", 1, <<>>, <<>>, <<>>)
  <2>1. Is(s, "open", Parser.depth + 1, <<>>, <<>>, <<>>)
    BY <1>1 DEF Is, Parser
  <2>2. Parser.depth + 1 = 1
    BY DEF Parser
  <2> QED
    BY <2>1, <2>2
<1> HIDE DEF s
<1>3. s.mode = "open" /\ s.depth = 1
  BY <1>2 DEF Is
<1>4. ArrayStep(s, "}") = Close(s, "}")
  BY <1>3 DEF ArrayStep, Open
<1>5. Close(s, "}") = [s EXCEPT !.mode = "close", !.depth = @ - 1]
  BY <1>3 DEF Close
<1>6. Is(ArrayStep(s, "}"), "close", s.depth - 1, <<>>, <<>>, <<>>)
  BY <1>2, <1>4, <1>5 DEF Is
<1>7. s.depth - 1 = 0
  BY <1>3
<1> QED
  BY <1>2, <1>6, <1>7 DEF s

-----------------------------------------------------------------------------
(* Elements and arrays.                                                    *)

\* Texts: concatenation, and texts of one and two characters.
LEMMA ConcatType ==
  ASSUME NEW S, NEW a \in Seq(S), NEW b \in Seq(S)
  PROVE  a \o b \in Seq(S)
OBVIOUS

LEMMA AppendOne ==
  ASSUME NEW S, NEW s \in Seq(S), NEW x \in S
  PROVE  s \o <<x>> = Append(s, x)
OBVIOUS

LEMMA AppendType ==
  ASSUME NEW S, NEW s \in Seq(S), NEW x \in S
  PROVE  Append(s, x) \in Seq(S) /\ Append(s, x) # <<>>
OBVIOUS

LEMMA ShortTexts ==
  ASSUME NEW S, NEW x \in S, NEW y \in S
  PROVE  <<x>> \in Seq(S) /\ <<x, y>> \in Seq(S)
OBVIOUS

LEMMA WrittenCharacters ==
  \A x \in {"{", "}", ",", "\"", "\\", "'", " ", "="} : x \in Characters
<1>1. Written \subseteq Characters
  BY ValuesAssumption, Zenon
<1> QED
  BY <1>1 DEF Written, Unquotable

\* The text pre and what the first k of the pieces come to.
Upto(pre, pieces, k) == pre \o FlattenSeq(SubSeq(pieces, 1, k))

LEMMA UptoStarts ==
  ASSUME NEW S, NEW pre \in Seq(S), NEW pieces \in Seq(Seq(S))
  PROVE  Upto(pre, pieces, 0) = pre
<1>1. SubSeq(pieces, 1, 0) = <<>> /\ pre \o <<>> = pre
  OBVIOUS
<1> QED
  BY <1>1, FlattenEmpty, Zenon DEF Upto

LEMMA UptoEnds ==
  ASSUME NEW S, NEW pre, NEW pieces \in Seq(S)
  PROVE  Upto(pre, pieces, Len(pieces)) = pre \o FlattenSeq(pieces)
<1>1. SubSeq(pieces, 1, Len(pieces)) = pieces
  OBVIOUS
<1> QED
  BY <1>1, Zenon DEF Upto

LEMMA UptoGrows ==
  ASSUME NEW S, NEW pre \in Seq(S), NEW pieces \in Seq(Seq(S)), NEW k \in 1 .. Len(pieces)
  PROVE  /\ Upto(pre, pieces, k - 1) \in Seq(S)
         /\ Upto(pre, pieces, k) = Upto(pre, pieces, k - 1) \o pieces[k]
<1> DEFINE p == SubSeq(pieces, 1, k - 1)
           f == FlattenSeq(p)
           q == pieces[k]
<1>1. p \in Seq(Seq(S)) /\ q \in Seq(S) /\ SubSeq(pieces, 1, k) = Append(p, q)
  BY FirstElements
<1> HIDE DEF p, q
<1>2. f \in Seq(S) /\ FlattenSeq(Append(p, q)) = f \o q
  BY <1>1, FlattenType, FlattenGrows
<1>3. FlattenSeq(SubSeq(pieces, 1, k)) = f \o q
  BY <1>1, <1>2, Zenon
<1>4. Upto(pre, pieces, k) = pre \o (f \o q)
  BY <1>3, Zenon DEF Upto
<1>5. Upto(pre, pieces, k - 1) = pre \o f
  BY Zenon DEF Upto, p
<1> HIDE DEF f
<1>6. f \in Seq(S) /\ q \in Seq(S)
  BY <1>1, <1>2
<1>7. pre \o f \in Seq(S)
  BY <1>6
<1>8. pre \o (f \o q) = (pre \o f) \o q
  BY <1>6
<1> QED
  BY <1>4, <1>5, <1>7, <1>8, Zenon DEF q

\* parseArray: what appendArrayQuotedBytes has escaped is read as it was.
LEMMA EscapedIsRead ==
  ASSUME NEW pre \in Seq(Characters), NEW e \in Seq(Characters), NEW d, NEW es,
         Is(ArrayRun(pre), "quoted", 1, d, es, <<>>)
  PROVE  /\ Escape(e) \in Seq(Characters)
         /\ Is(ArrayRun(pre \o Escape(e)), "quoted", 1, d, es, e)
<1> DEFINE n == Len(e)
           Piece(x) == IF x \in {"\"", "\\"} THEN <<"\\", x>> ELSE <<x>>
           P == [i \in DOMAIN e |-> Piece(e[i])]
           G == {k \in 0 .. n : Is(ArrayRun(Upto(pre, P, k)), "quoted", 1, d, es, SubSeq(e, 1, k))}
<1>1. n \in Nat /\ DOMAIN e = 1 .. n
  OBVIOUS
<1>2. "\\" \in Characters
  BY WrittenCharacters
<1>3. \A x \in Characters : Piece(x) \in Seq(Characters)
  BY <1>2, ShortTexts, Zenon
<1>4. Escape(e) = FlattenSeq(P)
  BY Zenon DEF Escape
<1> HIDE DEF Piece
<1>5. P \in Seq(Seq(Characters)) /\ Len(P) = n /\ \A k \in 1 .. n : P[k] = Piece(e[k])
  BY <1>1, <1>3
<1> HIDE DEF P
<1>6. 0 \in G
  <2>1. Upto(pre, P, 0) = pre
    BY <1>5, UptoStarts, Zenon
  <2>2. SubSeq(e, 1, 0) = <<>>
    OBVIOUS
  <2>3. Is(ArrayRun(Upto(pre, P, 0)), "quoted", 1, d, es, SubSeq(e, 1, 0))
    BY <2>1, <2>2, Zenon
  <2> QED
    BY <1>1, <2>3
<1>7. ASSUME NEW k \in 1 .. n, k - 1 \in G
      PROVE  k \in G
  <2> DEFINE t == Upto(pre, P, k - 1)
             f == SubSeq(e, 1, k - 1)
             ch == e[k]
             u == Append(t, "\\")
  <2>1. t \in Seq(Characters) /\ Upto(pre, P, k) = t \o Piece(ch)
    <3>1. k \in 1 .. Len(P) /\ P[k] = Piece(ch)
      BY <1>5
    <3>2. t \in Seq(Characters) /\ Upto(pre, P, k) = t \o P[k]
      BY <1>5, <3>1, UptoGrows, Zenon
    <3> QED
      BY <3>1, <3>2, Zenon
  <2>2. ch \in Characters /\ SubSeq(e, 1, k) = Append(f, ch)
    BY FirstElements
  <2>3. Is(ArrayRun(t), "quoted", 1, d, es, f)
    BY <1>7
  <2>4. k \in 0 .. n
    BY <1>1
  <2>5. u \in Seq(Characters)
    BY <1>2, <2>1
  <2> HIDE DEF t, f, ch, u
  <2>6. CASE ch \in {"\"", "\\"}
    <3>1. t \o <<"\\", ch>> = Append(u, ch)
      <4>1. t \in Seq(Characters) /\ ch \in Characters
        BY <2>1, <2>2
      <4>2. t \o <<"\\", ch>> = Append(Append(t, "\\"), ch)
        BY <1>2, <4>1
      <4> QED
        BY <4>2 DEF u
    <3>2. Upto(pre, P, k) = Append(u, ch)
      BY <2>1, <2>6, <3>1, Zenon DEF Piece
    <3>3. ArrayRun(u) = ArrayStep(ArrayRun(t), "\\")
      BY <1>2, <2>1, ArrayGrows, Zenon DEF u
    <3>4. ArrayRun(Append(u, ch)) = ArrayStep(ArrayRun(u), ch)
      BY <2>2, <2>5, ArrayGrows, Zenon
    <3>5. Is(ArrayRun(u), "escaped", 1, d, es, f)
      BY <2>3, <3>3, QuotedSteps, Zenon
    <3>6. Is(ArrayRun(Upto(pre, P, k)), "quoted", 1, d, es, SubSeq(e, 1, k))
      BY <2>2, <3>2, <3>4, <3>5, EscapedSteps, Zenon
    <3> QED
      BY <2>4, <3>6, Zenon
  <2>7. CASE ch \notin {"\"", "\\"}
    <3>1. t \o <<ch>> = Append(t, ch)
      BY <2>1, <2>2, AppendOne, Zenon
    <3>2. Upto(pre, P, k) = Append(t, ch)
      BY <2>1, <2>7, <3>1, Zenon DEF Piece
    <3>3. ArrayRun(Append(t, ch)) = ArrayStep(ArrayRun(t), ch)
      BY <2>1, <2>2, ArrayGrows, Zenon
    <3>4. Is(ArrayRun(Upto(pre, P, k)), "quoted", 1, d, es, SubSeq(e, 1, k))
      BY <2>2, <2>3, <2>7, <3>2, <3>3, QuotedSteps, Zenon
    <3> QED
      BY <2>4, <3>4, Zenon
  <2> QED
    BY <2>6, <2>7, Zenon
<1>8. Is(ArrayRun(Upto(pre, P, n)), "quoted", 1, d, es, SubSeq(e, 1, n))
  <2>1. n \in 0 .. n
    BY <1>1
  <2> HIDE DEF G, n
  <2>2. n \in G
    BY <1>1, <1>6, <1>7, <2>1, InductionUpTo
  <2> QED
    BY <2>2 DEF G
<1>9. Upto(pre, P, n) = pre \o Escape(e)
  <2>1. Upto(pre, P, Len(P)) = pre \o FlattenSeq(P)
    BY <1>5, UptoEnds, Zenon
  <2> QED
    BY <1>4, <1>5, <2>1, Zenon
<1>10. SubSeq(e, 1, n) = e
  OBVIOUS
<1>11. Escape(e) \in Seq(Characters)
  BY <1>4, <1>5, FlattenType, Zenon
<1> QED
  BY <1>8, <1>9, <1>10, <1>11, Zenon

\* parseArray expects an element: the next one, or the first one.
Expects(s, m, es) ==
  \/ Is(s, "element", 1, <<m>>, es, <<>>)
  \/ m = 0 /\ es = <<>> /\ Is(s, "open", 1, <<>>, <<>>, <<>>)

\* The elements es have been read, whether or not the parser knows.
Read(s, m, es) ==
  /\ Is(ArrayStep(s, ","), "element", 1, <<m>>, es, <<>>)
  /\ Is(ArrayStep(s, "}"), "after", 0, <<m>>, es, <<>>)

\* What array.go or PostgreSQL writes for an element.
Writes(t, e) ==
  \/ t = appendArrayQuotedBytes(e)
  \/ /\ t = e /\ e # <<>> /\ e # <<"NULL">>
     /\ \A i \in 1 .. Len(e) : e[i] \notin Unquotable

LEMMA ElementBegins ==
  ASSUME NEW s, NEW m, NEW es, NEW ch, Expects(s, m, es)
  PROVE  /\ Is(ArrayStep(s, "\""), "quoted", 1, <<m>>, es, <<>>)
         /\ ch \notin Unquotable => Is(ArrayStep(s, ch), "plain", 1, <<m>>, es, <<ch>>)
<1>1. CASE Is(s, "element", 1, <<m>>, es, <<>>)
  <2>1. \A x : ArrayStep(s, x) = Element(s, x)
    BY <1>1 DEF Is, ArrayStep
  <2> QED
    BY <1>1, <2>1, ElementSteps, Zenon
<1>2. CASE m = 0 /\ es = <<>> /\ Is(s, "open", 1, <<>>, <<>>, <<>>)
  <2>1. ASSUME NEW x, Begins(x)
        PROVE  /\ x = "\"" => Is(ArrayStep(s, x), "quoted", 1, <<0>>, <<>>, <<>>)
               /\ x \notin Unquotable => Is(ArrayStep(s, x), "plain", 1, <<0>>, <<>>, <<x>>)
    <3>1. PICK t : /\ Is(t, "open", 1, <<0>>, <<>>, <<>>)
                   /\ ArrayStep(s, x) = Element(t, x)
      BY <1>2, <2>1, OpenSteps, Zenon
    <3> QED
      BY <3>1, ElementSteps, Zenon
  <2>2. Begins("\"") /\ (ch \notin Unquotable => Begins(ch))
    BY DEF Begins
  <2> QED
    BY <1>2, <2>1, <2>2, Zenon
<1> QED
  BY <1>1, <1>2, Zenon DEF Expects

\* A text after a delimiter, and one within delimiters.
LEMMA Preceded ==
  ASSUME NEW a \in Seq(Characters), NEW b \in Seq(Characters), NEW x \in Characters
  PROVE  a \o (<<x>> \o b) = Append(a, x) \o b
<1>1. <<x>> \in Seq(Characters)
  OBVIOUS
<1>2. Append(a, x) = a \o <<x>>
  OBVIOUS
<1>3. a \o (<<x>> \o b) = (a \o <<x>>) \o b
  BY <1>1
<1> QED
  BY <1>2, <1>3, Zenon

LEMMA Delimited ==
  ASSUME NEW a \in Seq(Characters), NEW b \in Seq(Characters),
         NEW x \in Characters, NEW y \in Characters
  PROVE  a \o (<<x>> \o b \o <<y>>) = Append(Append(a, x) \o b, y)
<1>1. <<x>> \in Seq(Characters) /\ <<y>> \in Seq(Characters) /\ <<x>> \o b \in Seq(Characters)
  OBVIOUS
<1>2. Append(a, x) = a \o <<x>> /\ a \o <<x>> \in Seq(Characters)
  OBVIOUS
<1>3. (a \o <<x>>) \o b \in Seq(Characters)
  BY <1>1, <1>2
<1>4. Append((a \o <<x>>) \o b, y) = ((a \o <<x>>) \o b) \o <<y>>
  BY <1>3
<1>5. a \o (<<x>> \o b) = (a \o <<x>>) \o b
  BY <1>1
<1>6. a \o ((<<x>> \o b) \o <<y>>) = (a \o (<<x>> \o b)) \o <<y>>
  BY <1>1
<1> QED
  BY <1>2, <1>4, <1>5, <1>6, Zenon

\* parseArray: an element in quotes.
LEMMA QuotedIsRead ==
  ASSUME NEW pre \in Seq(Characters), NEW e \in Seq(Characters), NEW m \in Nat, NEW es,
         Expects(ArrayRun(pre), m, es)
  PROVE  /\ appendArrayQuotedBytes(e) \in Seq(Characters)
         /\ Read(ArrayRun(pre \o appendArrayQuotedBytes(e)), m + 1, Append(es, e))
<1> DEFINE q == Append(pre, "\"")
           x == Escape(e)
           t == <<"\"">> \o x \o <<"\"">>
<1>1. "\"" \in Characters
  BY WrittenCharacters
<1>2. q \in Seq(Characters)
  BY <1>1, AppendType, Zenon
<1>3. ArrayRun(q) = ArrayStep(ArrayRun(pre), "\"")
  BY <1>1, ArrayGrows, Zenon
<1>4. Is(ArrayRun(q), "quoted", 1, <<m>>, es, <<>>)
  BY <1>3, ElementBegins, Zenon
<1> HIDE DEF q, x
<1>5. x \in Seq(Characters) /\ Is(ArrayRun(q \o x), "quoted", 1, <<m>>, es, e)
  BY <1>2, <1>4, EscapedIsRead, Zenon DEF x
<1>6. q \o x \in Seq(Characters) /\ x \in Seq(Characters)
  BY <1>2, <1>5, ConcatType, Zenon
<1>7. t \in Seq(Characters)
  <2>1. <<"\"">> \in Seq(Characters)
    BY <1>1, ShortTexts, Zenon
  <2>2. <<"\"">> \o x \in Seq(Characters)
    BY <1>6, <2>1, ConcatType, Zenon
  <2> QED
    BY <2>1, <2>2, ConcatType, Zenon
<1>8. pre \o t = Append(q \o x, "\"")
  BY <1>1, <1>6, Delimited, Zenon DEF q
<1>9. ArrayRun(Append(q \o x, "\"")) = ArrayStep(ArrayRun(q \o x), "\"")
  BY <1>1, <1>6, ArrayGrows, Zenon
<1>10. Is(ArrayRun(pre \o t), "after", 1, <<m>>, Append(es, e), <<>>)
  BY <1>5, <1>8, <1>9, QuotedEnds, Zenon
<1>11. appendArrayQuotedBytes(e) = t
  BY Zenon DEF appendArrayQuotedBytes, x
<1> HIDE DEF t
<1>12. Read(ArrayRun(pre \o t), m + 1, Append(es, e))
  BY <1>10, AfterSteps, Zenon DEF Read
<1> QED
  BY <1>7, <1>11, <1>12, Zenon

\* parseArray: an element without quotes.
LEMMA PlainIsRead ==
  ASSUME NEW pre \in Seq(Characters), NEW e \in Seq(Characters), NEW m \in Nat, NEW es,
         Expects(ArrayRun(pre), m, es),
         e # <<>>, e # <<"NULL">>, \A i \in 1 .. Len(e) : e[i] \notin Unquotable
  PROVE  Read(ArrayRun(pre \o e), m + 1, Append(es, e))
<1> DEFINE n == Len(e)
           Begun(k) == pre \o SubSeq(e, 1, k)
           G == {k \in 0 .. n : k # 0 => Is(ArrayRun(Begun(k)), "plain", 1, <<m>>, es, SubSeq(e, 1, k))}
<1>1. n \in Nat /\ n # 0
  OBVIOUS
<1>2. ASSUME NEW k \in 1 .. n
      PROVE  /\ Begun(k - 1) \in Seq(Characters)
             /\ e[k] \in Characters
             /\ Begun(k) = Append(Begun(k - 1), e[k])
             /\ SubSeq(e, 1, k) = Append(SubSeq(e, 1, k - 1), e[k])
  <2> DEFINE f == SubSeq(e, 1, k - 1)
             ch == e[k]
  <2>1. f \in Seq(Characters) /\ ch \in Characters /\ SubSeq(e, 1, k) = Append(f, ch)
    BY FirstElements
  <2> HIDE DEF f, ch
  <2>2. f \in Seq(Characters) /\ ch \in Characters
    BY <2>1
  <2>3. pre \o f \in Seq(Characters) /\ pre \o Append(f, ch) = Append(pre \o f, ch)
    <3>1. pre \o f \in Seq(Characters)
      BY <2>2
    <3>2. Append(f, ch) = f \o <<ch>> /\ Append(pre \o f, ch) = (pre \o f) \o <<ch>>
      BY <2>2, <3>1
    <3>3. pre \o (f \o <<ch>>) = (pre \o f) \o <<ch>>
      BY <2>2
    <3> QED
      BY <3>1, <3>2, <3>3, Zenon
  <2> QED
    BY <2>1, <2>3, Zenon DEF f, ch
<1>3. SubSeq(e, 1, 0) = <<>> /\ SubSeq(e, 1, n) = e
  OBVIOUS
<1>4. Begun(0) = pre
  <2>1. pre \o <<>> = pre
    OBVIOUS
  <2> QED
    BY <1>3, <2>1, Zenon
<1>5. Begun(n) = pre \o e
  BY <1>3, Zenon
<1> HIDE DEF Begun
<1>6. 0 \in G
  BY <1>1
<1>7. ASSUME NEW k \in 1 .. n, k - 1 \in G
      PROVE  k \in G
  <2>1. k \in 0 .. n
    BY <1>1
  <2>2. e[k] \notin Unquotable /\ e[k] \notin {",", "}"}
    BY DEF Unquotable
  <2>3. ArrayRun(Begun(k)) = ArrayStep(ArrayRun(Begun(k - 1)), e[k])
    BY <1>2, ArrayGrows, Zenon
  <2>4. CASE k = 1
    <3>1. k - 1 = 0
      BY <2>4
    <3>2. Is(ArrayRun(Begun(k)), "plain", 1, <<m>>, es, <<e[k]>>)
      BY <1>4, <2>2, <2>3, <3>1, ElementBegins, Zenon
    <3>3. SubSeq(e, 1, k) = <<e[k]>>
      <4>1. SubSeq(e, 1, k) = Append(<<>>, e[k])
        BY <1>2, <1>3, <3>1, Zenon
      <4> QED
        BY <4>1
    <3>4. Is(ArrayRun(Begun(k)), "plain", 1, <<m>>, es, SubSeq(e, 1, k))
      BY <3>2, <3>3, Zenon
    <3> QED
      BY <2>1, <3>4, Zenon
  <2>5. CASE k # 1
    <3>1. k - 1 # 0
      BY <1>1, <2>5
    <3>2. Is(ArrayRun(Begun(k - 1)), "plain", 1, <<m>>, es, SubSeq(e, 1, k - 1))
      BY <1>7, <3>1, Zenon
    <3>3. Is(ArrayRun(Begun(k)), "plain", 1, <<m>>, es, SubSeq(e, 1, k))
      <4>1. Is(ArrayStep(ArrayRun(Begun(k - 1)), e[k]), "plain", 1, <<m>>, es,
               Append(SubSeq(e, 1, k - 1), e[k]))
        BY <2>2, <3>2, PlainSteps, Zenon
      <4> QED
        BY <1>2, <2>3, <4>1, Zenon
    <3> QED
      BY <2>1, <3>3, Zenon
  <2> QED
    BY <2>4, <2>5, Zenon
<1>8. Is(ArrayRun(Begun(n)), "plain", 1, <<m>>, es, SubSeq(e, 1, n))
  <2>1. n \in 0 .. n
    BY <1>1
  <2> HIDE DEF G, n
  <2>2. n \in G
    BY <1>1, <1>6, <1>7, <2>1, InductionUpTo
  <2> QED
    BY <1>1, <2>2, Zenon DEF G
<1>9. Is(ArrayRun(pre \o e), "plain", 1, <<m>>, es, e)
  BY <1>3, <1>5, <1>8, Zenon
<1> QED
  BY <1>9, PlainEnds, Zenon DEF Read

LEMMA ElementIsRead ==
  ASSUME NEW pre \in Seq(Characters), NEW e \in Seq(Characters), NEW t, NEW m \in Nat, NEW es,
         Expects(ArrayRun(pre), m, es), Writes(t, e)
  PROVE  Read(ArrayRun(pre \o t), m + 1, Append(es, e))
BY QuotedIsRead, PlainIsRead, Zenon DEF Writes

\* parseArray: the elements of an array, whoever has written it.
LEMMA JoinedIsRead ==
  ASSUME NEW texts \in Seq(Seq(Characters)), NEW vals \in Seq(Seq(Characters)),
         texts # <<>>, Len(vals) = Len(texts),
         \A i \in 1 .. Len(texts) : Writes(texts[i], vals[i])
  PROVE  Is(ArrayRun(Joined(texts)), "after", 0, <<Len(vals)>>, vals, <<>>)
<1> DEFINE n == Len(texts)
           C == Seq(Characters)
           open == <<"{">>
           Piece(i) == IF i = 1 THEN texts[i] ELSE <<",">> \o texts[i]
           P == [i \in DOMAIN texts |-> Piece(i)]
           G == {k \in 0 .. n : k # 0 => Read(ArrayRun(Upto(open, P, k)), k, SubSeq(vals, 1, k))}
<1>1. n \in Nat /\ n # 0 /\ DOMAIN texts = 1 .. n /\ Len(vals) = n
  OBVIOUS
<1>2. open \in C /\ <<",">> \in C /\ "," \in Characters /\ "{" \in Characters /\ "}" \in Characters
  BY WrittenCharacters, ShortTexts, Zenon
<1>3. \A i \in 1 .. n : texts[i] \in C /\ vals[i] \in C
  OBVIOUS
<1>4. \A i \in 1 .. n : Piece(i) \in C
  BY <1>2, <1>3, ConcatType, Zenon
<1>5. Joined(texts) = open \o FlattenSeq(P) \o <<"}">>
  BY Zenon DEF Joined
<1> HIDE DEF Piece
<1>6. P \in Seq(C) /\ Len(P) = n /\ \A k \in 1 .. n : P[k] = Piece(k)
  BY <1>1, <1>4
<1> HIDE DEF P, open
<1>7. 0 \in G
  BY <1>1
<1>8. ASSUME NEW k \in 1 .. n, k - 1 \in G
      PROVE  k \in G
  <2> DEFINE t == Upto(open, P, k - 1)
             es == SubSeq(vals, 1, k - 1)
             v == vals[k]
             x == texts[k]
  <2>1. k \in 0 .. n /\ k \in 1 .. Len(P) /\ (k - 1) + 1 = k /\ k - 1 \in Nat
    BY <1>1, <1>6
  <2>2. t \in C /\ Upto(open, P, k) = t \o Piece(k)
    BY <1>2, <1>6, <2>1, UptoGrows, Zenon
  <2>3. SubSeq(vals, 1, k) = Append(es, v) /\ v \in C /\ x \in C /\ Writes(x, v)
    BY <1>1, <1>3, FirstElements
  <2>4. k = 1 => t = open /\ es = <<>>
    <3>1. Upto(open, P, 0) = open
      BY <1>2, <1>6, UptoStarts, Zenon
    <3>2. SubSeq(vals, 1, 0) = <<>>
      OBVIOUS
    <3>3. k = 1 => k - 1 = 0
      OBVIOUS
    <3> QED
      BY <3>1, <3>2, <3>3, Zenon
  <2>5. k # 1 => Read(ArrayRun(t), k - 1, es)
    <3>1. k # 1 => k - 1 # 0
      BY <1>1
    <3> QED
      BY <1>8, <3>1, Zenon
  <2> HIDE DEF t, es, v, x
  <2>6. PICK pre \in C : /\ Upto(open, P, k) = pre \o x
                         /\ Expects(ArrayRun(pre), k - 1, es)
    <3>1. CASE k = 1
      <4>1. Upto(open, P, k) = t \o x
        BY <2>2, <3>1, Zenon DEF Piece, x
      <4>2. ArrayRun(open) = ArrayStep(Parser, "{")
        <5>1. open = Append(<<>>, "{") /\ <<>> \in C
          BY DEF open
        <5> QED
          BY <1>2, <5>1, ArrayGrows, ArrayStarts, Zenon
      <4>3. k - 1 = 0
        BY <3>1
      <4>4. Expects(ArrayRun(t), k - 1, es)
        BY <2>4, <3>1, <4>2, <4>3, BracketSteps, Zenon DEF Expects
      <4> QED
        BY <2>2, <4>1, <4>4, Zenon
    <3>2. CASE k # 1
      <4>1. Upto(open, P, k) = t \o (<<",">> \o x)
        BY <2>2, <3>2, Zenon DEF Piece, x
      <4>2. t \in C /\ x \in C
        BY <2>2, <2>3
      <4>3. t \o (<<",">> \o x) = Append(t, ",") \o x
        BY <1>2, <4>2, Preceded, Zenon
      <4>4. Append(t, ",") \in C
        BY <1>2, <4>2, AppendType, Zenon
      <4>5. ArrayRun(Append(t, ",")) = ArrayStep(ArrayRun(t), ",")
        BY <1>2, <4>2, ArrayGrows, Zenon
      <4>6. Expects(ArrayRun(Append(t, ",")), k - 1, es)
        BY <2>5, <3>2, <4>5, Zenon DEF Expects, Read
      <4> QED
        BY <4>1, <4>3, <4>4, <4>6, Zenon
    <3> QED
      BY <3>1, <3>2, Zenon
  <2>7. Read(ArrayRun(pre \o x), (k - 1) + 1, Append(es, v))
    BY <2>1, <2>3, <2>6, ElementIsRead, Zenon
  <2>8. Read(ArrayRun(Upto(open, P, k)), k, SubSeq(vals, 1, k))
    BY <2>1, <2>3, <2>6, <2>7, Zenon
  <2> QED
    BY <2>1, <2>8, Zenon
<1>9. Read(ArrayRun(Upto(open, P, n)), n, SubSeq(vals, 1, n))
  <2>1. n \in 0 .. n
    BY <1>1
  <2> HIDE DEF G, n
  <2>2. n \in G
    BY <1>1, <1>7, <1>8, <2>1, InductionUpTo
  <2> QED
    BY <1>1, <2>2, Zenon DEF G
<1>10. SubSeq(vals, 1, n) = vals
  <2>1. SubSeq(vals, 1, Len(vals)) = vals
    OBVIOUS
  <2> QED
    BY <1>1, <2>1, Zenon
<1> DEFINE u == open \o FlattenSeq(P)
<1>11. Upto(open, P, n) = u
  BY <1>6, UptoEnds, Zenon
<1>12. u \in C
  BY <1>2, <1>6, FlattenType, ConcatType, Zenon
<1>13. Joined(texts) = u \o <<"}">>
  BY <1>5, Zenon
<1> HIDE DEF u
<1>14. u \o <<"}">> = Append(u, "}")
  BY <1>2, <1>12, AppendOne, Zenon
<1>15. ArrayRun(Append(u, "}")) = ArrayStep(ArrayRun(u), "}")
  BY <1>2, <1>12, ArrayGrows, Zenon
<1> QED
  BY <1>1, <1>9, <1>10, <1>11, <1>13, <1>14, <1>15, Zenon DEF Read

\* scanLinearArray: an array that array.go or PostgreSQL has written.
LEMMA JoinedIsScanned ==
  ASSUME NEW texts \in Seq(Seq(Characters)), NEW vals \in Seq(Seq(Characters)),
         Len(vals) = Len(texts),
         \A i \in 1 .. Len(texts) : Writes(texts[i], vals[i])
  PROVE  /\ scanLinearArray(Joined(texts)) = vals
         /\ Joined(texts) \in Seq(Characters)
<1> DEFINE src == Joined(texts)
           s == ArrayRun(src)
           n == Len(vals)
           dims == IF n = 0 THEN <<>> ELSE <<n>>
<1>1. n \in Nat /\ dims \in Seq(Nat) /\ Len(dims) <= 1
  OBVIOUS
<1>2. "{" \in Characters /\ "}" \in Characters
  BY WrittenCharacters
<1>3. src \in Seq(Characters) /\ src # <<>>
  <2> DEFINE P == [i \in DOMAIN texts |-> IF i = 1 THEN texts[i] ELSE <<",">> \o texts[i]]
             f == FlattenSeq(P)
  <2>1. P \in Seq(Seq(Characters))
    <3>1. "," \in Characters
      BY WrittenCharacters
    <3>2. <<",">> \in Seq(Characters)
      BY <3>1, ShortTexts, Zenon
    <3>3. \A i \in 1 .. Len(texts) : texts[i] \in Seq(Characters)
      OBVIOUS
    <3>4. \A i \in 1 .. Len(texts) : <<",">> \o texts[i] \in Seq(Characters)
      BY <3>2, <3>3, ConcatType, Zenon
    <3>5. DOMAIN texts = 1 .. Len(texts) /\ Len(texts) \in Nat
      OBVIOUS
    <3>6. \A i \in DOMAIN texts : P[i] \in Seq(Characters)
      BY <3>3, <3>4, <3>5, Zenon
    <3>7. P = [i \in 1 .. Len(texts) |-> P[i]]
      BY <3>5
    <3>8. \A i \in 1 .. Len(texts) : P[i] \in Seq(Characters)
      BY <3>5, <3>6, Zenon
    <3> HIDE DEF P
    <3> QED
      BY <3>5, <3>7, <3>8
  <2>2. f \in Seq(Characters)
    BY <2>1, FlattenType, Zenon
  <2>3. src = <<"{">> \o f \o <<"}">>
    BY Zenon DEF Joined
  <2> HIDE DEF f, src
  <2>4. <<"{">> \o f \o <<"}">> \in Seq(Characters) /\ <<"{">> \o f \o <<"}">> # <<>>
    <3>1. <<"{">> \o f \in Seq(Characters)
      BY <1>2, <2>2, ShortTexts, ConcatType, Zenon
    <3>2. (<<"{">> \o f) \o <<"}">> = Append(<<"{">> \o f, "}")
      BY <1>2, <3>1, AppendOne, Zenon
    <3> QED
      BY <1>2, <3>1, <3>2, AppendType, Zenon
  <2> QED
    BY <2>3, <2>4, Zenon
<1>4. s.mode # "failed" /\ s.depth = 0 /\ s.dims = dims /\ s.elems = vals
  <2>1. CASE texts # <<>>
    <3>1. Is(s, "after", 0, <<n>>, vals, <<>>)
      BY <2>1, JoinedIsRead, Zenon
    <3>2. n # 0
      BY <2>1
    <3> HIDE DEF s, n
    <3> QED
      BY <3>1, <3>2 DEF Is
  <2>2. CASE texts = <<>>
    <3>1. n = 0 /\ vals = <<>>
      BY <2>2
    <3>2. src = Append(Append(<<>>, "{"), "}")
      <4>1. [i \in DOMAIN texts |-> IF i = 1 THEN texts[i] ELSE <<",">> \o texts[i]] = <<>>
        BY <2>2
      <4>2. src = <<"{">> \o <<>> \o <<"}">>
        BY <4>1, FlattenEmpty, Zenon DEF Joined
      <4>3. <<"{">> \o <<>> \o <<"}">> = Append(Append(<<>>, "{"), "}")
        <5>1. <<>> \in Seq(Characters)
          OBVIOUS
        <5>2. <<>> \o (<<"{">> \o <<>> \o <<"}">>) = Append(Append(<<>>, "{") \o <<>>, "}")
          BY <1>2, <5>1, Delimited, Zenon
        <5>3. <<"{">> \o <<>> = <<"{">> /\ Append(<<>>, "{") \o <<>> = Append(<<>>, "{")
          OBVIOUS
        <5>4. <<>> \o (<<"{">> \o <<"}">>) = <<"{">> \o <<"}">>
          OBVIOUS
        <5> QED
          BY <5>2, <5>3, <5>4, Zenon
      <4> QED
        BY <4>2, <4>3, Zenon
    <3>3. <<>> \in Seq(Characters) /\ Append(<<>>, "{") \in Seq(Characters)
      <4>1. <<>> \in Seq(Characters)
        OBVIOUS
      <4> QED
        BY <1>2, <4>1, AppendType, Zenon
    <3>4. ArrayRun(Append(<<>>, "{")) = ArrayStep(Parser, "{")
      BY <1>2, <3>3, ArrayGrows, ArrayStarts, Zenon
    <3>5. ArrayRun(Append(Append(<<>>, "{"), "}")) = ArrayStep(ArrayRun(Append(<<>>, "{")), "}")
      BY <1>2, <3>3, ArrayGrows, Zenon
    <3>6. Is(s, "close", 0, <<>>, <<>>, <<>>)
      BY <3>2, <3>4, <3>5, BracketSteps, Zenon
    <3> HIDE DEF s, n
    <3> QED
      BY <3>1, <3>6 DEF Is
  <2> QED
    BY <2>1, <2>2, Zenon
<1>5. \A i \in DOMAIN dims : dims[i] # 0 /\ Len(vals) % dims[i] = 0
  <2>1. n # 0 => n % n = 0
    BY <1>1
  <2> QED
    BY <1>1, <2>1
<1> DEFINE r == [dims |-> dims, elems |-> vals]
<1>6. parseArray(src) = r
  <2> HIDE DEF s, src, dims
  <2>1. /\ ~(s.mode = "failed" \/ s.depth > 0 \/ src = <<>>)
        /\ ~\E i \in DOMAIN s.dims : s.dims[i] = 0
        /\ ~\E i \in DOMAIN s.dims : Len(s.elems) % s.dims[i] # 0
    BY <1>3, <1>4, <1>5
  <2>2. parseArray(src) = [dims |-> s.dims, elems |-> s.elems]
    BY <2>1, Zenon DEF parseArray, s
  <2> QED
    BY <1>4, <2>2, Zenon
<1>7. r \notin {Failed, Panic}
  <2>1. vals \in Seq(Seq(Characters) \cup {Nil})
    OBVIOUS
  <2>2. r \in [dims : Seq(Nat), elems : Seq(Seq(Characters) \cup {Nil})]
    <3> HIDE DEF dims
    <3> QED
      BY <1>1, <2>1
  <2> HIDE DEF r
  <2> QED
    BY <2>2, ResultsAssumption, Zenon
<1>8. r.dims = dims /\ r.elems = vals
  OBVIOUS
<1>9. ~(Len(r.dims) > 1)
  <2> HIDE DEF dims
  <2>1. Len(dims) \in Nat
    BY <1>1
  <2> QED
    BY <1>1, <1>8, <2>1
<1> HIDE DEF src, r
<1>10. scanLinearArray(src) = vals
  BY <1>6, <1>7, <1>8, <1>9, Zenon DEF scanLinearArray
<1> QED
  BY <1>3, <1>10, Zenon DEF src

-----------------------------------------------------------------------------
(* No text makes parseArray divide by zero: a dimension that has been left *)
(* has counted an element, and only the ones still open may be zero.       *)

Typed(s) ==
  /\ DOMAIN s = {"mode", "depth", "dims", "elems", "elem"}
  /\ s.depth \in Nat /\ s.dims \in Seq(Nat)
  /\ s.elems \in Seq(Seq(Characters) \cup {Nil})
  /\ s.elem \in Seq(Characters)

Filled(s) ==
  /\ s.depth <= Len(s.dims)
  /\ \A j \in 1 .. Len(s.dims) : j > s.depth => s.dims[j] # 0

ParserInv(s) ==
  /\ Typed(s)
  /\ s.mode \in {"open", "close"} => s.dims = <<>>
  /\ s.mode \notin {"open", "close", "failed"} => Filled(s)

LEMMA FailKeeps ==
  ASSUME NEW s, Typed(s)
  PROVE  ParserInv(Fail(s))
<1> DEFINE q == [s EXCEPT !.mode = "failed"]
<1>1. /\ DOMAIN q = DOMAIN s /\ q.mode = "failed" /\ q.depth = s.depth
      /\ q.dims = s.dims /\ q.elems = s.elems /\ q.elem = s.elem
  BY DEF Typed
<1> HIDE DEF q
<1>2. Typed(q)
  BY <1>1 DEF Typed
<1>3. ParserInv(q)
  BY <1>1, <1>2 DEF ParserInv
<1> QED
  BY <1>3, Zenon DEF Fail, q

LEMMA CloseKeeps ==
  ASSUME NEW s, NEW ch, Typed(s), s.dims = <<>>
  PROVE  ParserInv(Close(s, ch))
<1>1. CASE ch = "}" /\ s.depth > 0
  <2> DEFINE q == [s EXCEPT !.mode = "close", !.depth = @ - 1]
  <2>1. Close(s, ch) = q
    BY <1>1, Zenon DEF Close
  <2>2. /\ DOMAIN q = DOMAIN s /\ q.mode = "close" /\ q.depth = s.depth - 1
        /\ q.dims = s.dims /\ q.elems = s.elems /\ q.elem = s.elem
    BY DEF Typed
  <2> HIDE DEF q
  <2>3. Typed(q)
    <3>1. s.depth \in Nat
      BY DEF Typed
    <3>2. \A x \in Nat : x > 0 => x - 1 \in Nat
      OBVIOUS
    <3>3. q.depth \in Nat
      BY <1>1, <2>2, <3>1, <3>2, Zenon
    <3> QED
      BY <2>2, <3>3 DEF Typed
  <2>4. ParserInv(q)
    BY <2>2, <2>3 DEF ParserInv
  <2> QED
    BY <2>1, <2>4
<1>2. CASE ~(ch = "}" /\ s.depth > 0)
  BY <1>2, FailKeeps, Zenon DEF Close
<1> QED
  BY <1>1, <1>2

LEMMA AfterElementKeeps ==
  ASSUME NEW s, NEW ch, Typed(s), Filled(s)
  PROVE  ParserInv(AfterElement(s, ch))
<1> DEFINE d == [s.dims EXCEPT ![s.depth] = @ + 1]
<1>1. s.depth \in Nat /\ s.dims \in Seq(Nat) /\ s.depth <= Len(s.dims)
  BY DEF Typed, Filled
<1>2. s.depth > 0 => /\ d \in Seq(Nat) /\ Len(d) = Len(s.dims) /\ d[s.depth] # 0
                     /\ \A j \in 1 .. Len(d) : j # s.depth => d[j] = s.dims[j]
  BY <1>1
<1>3. CASE ch = "," /\ s.depth > 0
  <2> DEFINE q == [s EXCEPT !.mode = "element", !.dims[s.depth] = @ + 1]
  <2>1. AfterElement(s, ch) = q
    BY <1>3 DEF AfterElement
  <2>2. /\ DOMAIN q = DOMAIN s /\ q.mode = "element" /\ q.depth = s.depth
        /\ q.dims = d /\ q.elems = s.elems /\ q.elem = s.elem
    BY DEF Typed
  <2> HIDE DEF q, d
  <2>3. Typed(q)
    BY <1>2, <1>3, <2>2 DEF Typed
  <2>4. Filled(q)
    BY <1>1, <1>2, <1>3, <2>2 DEF Filled
  <2>5. ParserInv(q)
    BY <2>2, <2>3, <2>4 DEF ParserInv
  <2> QED
    BY <2>1, <2>5
<1>4. CASE ch = "}" /\ s.depth > 0
  <2> DEFINE q == [s EXCEPT !.mode = "after", !.dims[s.depth] = @ + 1, !.depth = @ - 1]
  <2>1. AfterElement(s, ch) = q
    BY <1>4 DEF AfterElement
  <2>2. /\ DOMAIN q = DOMAIN s /\ q.mode = "after" /\ q.depth = s.depth - 1
        /\ q.dims = d /\ q.elems = s.elems /\ q.elem = s.elem
    BY DEF Typed
  <2> HIDE DEF q, d
  <2> DEFINE k == s.depth
             D == s.dims
  <2>3. k \in Nat /\ k > 0 /\ k <= Len(D) /\ q.depth = k - 1 /\ q.dims = d
    BY <1>1, <1>4, <2>2, Zenon
  <2>4. /\ d \in Seq(Nat) /\ Len(d) = Len(D) /\ d[k] # 0
        /\ \A j \in 1 .. Len(d) : j # k => d[j] = D[j]
    BY <1>2, <1>4, Zenon
  <2>5. D \in Seq(Nat) /\ \A j \in 1 .. Len(D) : j > k => D[j] # 0
    BY <1>1, Zenon DEF Filled
  <2> HIDE DEF k, D
  <2>6. k - 1 \in Nat /\ k - 1 <= Len(d)
    BY <2>3, <2>4, <2>5
  <2>7. Typed(q)
    BY <2>2, <2>3, <2>4, <2>6 DEF Typed
  <2>8. Filled(q)
    <3>1. \A j \in 1 .. Len(d) : j > k - 1 => d[j] # 0
      BY <2>3, <2>4, <2>5
    <3> QED
      BY <2>3, <2>6, <3>1, Zenon DEF Filled
  <2>9. ParserInv(q)
    BY <2>2, <2>7, <2>8 DEF ParserInv
  <2> QED
    BY <2>1, <2>9
<1>5. CASE ~(s.depth > 0 /\ ch \in {",", "}"})
  <2>1. AfterElement(s, ch) = Fail(s)
    BY <1>5 DEF AfterElement
  <2> QED
    BY <2>1, FailKeeps
<1> QED
  BY <1>3, <1>4, <1>5

LEMMA PlainKeeps ==
  ASSUME NEW s, NEW ch \in Characters, Typed(s), Filled(s)
  PROVE  ParserInv(Plain(s, ch))
<1>1. CASE ch \notin {",", "}"}
  <2> DEFINE q == [s EXCEPT !.mode = "plain", !.elem = Append(@, ch)]
  <2>1. Plain(s, ch) = q
    BY <1>1 DEF Plain
  <2>2. /\ DOMAIN q = DOMAIN s /\ q.mode = "plain" /\ q.depth = s.depth
        /\ q.dims = s.dims /\ q.elems = s.elems /\ q.elem = Append(s.elem, ch)
    BY DEF Typed
  <2>3. Append(s.elem, ch) \in Seq(Characters)
    BY DEF Typed
  <2> HIDE DEF q
  <2>4. Typed(q)
    BY <2>2, <2>3 DEF Typed
  <2>5. Filled(q)
    BY <2>2 DEF Filled
  <2>6. ParserInv(q)
    BY <2>2, <2>4, <2>5 DEF ParserInv
  <2> QED
    BY <2>1, <2>6
<1>2. CASE ch \in {",", "}"} /\ s.elem = <<>>
  <2>1. Plain(s, ch) = Fail(s)
    BY <1>2 DEF Plain
  <2> QED
    BY <2>1, FailKeeps
<1>3. CASE ch \in {",", "}"} /\ s.elem # <<>>
  <2> DEFINE x == IF s.elem = <<"NULL">> THEN Nil ELSE s.elem
             q == [s EXCEPT !.elem = <<>>, !.elems = Append(@, x)]
  <2>1. Plain(s, ch) = AfterElement(q, ch)
    BY <1>3, Zenon DEF Plain
  <2>2. /\ DOMAIN q = DOMAIN s /\ q.mode = s.mode /\ q.depth = s.depth
        /\ q.dims = s.dims /\ q.elems = Append(s.elems, x) /\ q.elem = <<>>
    BY DEF Typed
  <2>3. Append(s.elems, x) \in Seq(Seq(Characters) \cup {Nil}) /\ <<>> \in Seq(Characters)
    <3>1. x \in Seq(Characters) \cup {Nil}
      BY DEF Typed
    <3>2. s.elems \in Seq(Seq(Characters) \cup {Nil})
      BY DEF Typed
    <3> HIDE DEF x
    <3> QED
      BY <3>1, <3>2
  <2> HIDE DEF q, x
  <2>4. Typed(q)
    BY <2>2, <2>3 DEF Typed
  <2>5. Filled(q)
    BY <2>2 DEF Filled
  <2> QED
    BY <2>1, <2>4, <2>5, AfterElementKeeps
<1> QED
  BY <1>1, <1>2, <1>3

LEMMA ElementKeeps ==
  ASSUME NEW s, NEW ch \in Characters, Typed(s), Filled(s)
  PROVE  ParserInv(Element(s, ch))
<1>1. CASE ch = "{" /\ s.depth = Len(s.dims)
  <2>1. Element(s, ch) = Fail(s)
    BY <1>1 DEF Element
  <2> QED
    BY <2>1, FailKeeps
<1>2. CASE ch = "{" /\ s.depth # Len(s.dims)
  <2> DEFINE d == [s.dims EXCEPT ![s.depth + 1] = 0]
             q == [s EXCEPT !.mode = "element", !.depth = @ + 1, !.dims[s.depth + 1] = 0]
  <2>1. Element(s, ch) = q
    BY <1>2 DEF Element
  <2>2. /\ DOMAIN q = DOMAIN s /\ q.mode = "element" /\ q.depth = s.depth + 1
        /\ q.dims = d /\ q.elems = s.elems /\ q.elem = s.elem
    BY DEF Typed
  <2>3. s.depth \in Nat /\ s.dims \in Seq(Nat) /\ s.depth + 1 <= Len(s.dims)
    <3>1. s.depth \in Nat /\ s.dims \in Seq(Nat)
      BY DEF Typed
    <3>2. s.depth <= Len(s.dims)
      BY DEF Filled
    <3>3. \A k \in Nat, D \in Seq(Nat) : k <= Len(D) /\ k # Len(D) => k + 1 <= Len(D)
      OBVIOUS
    <3> QED
      BY <1>2, <3>1, <3>2, <3>3, Zenon
  <2>4. /\ d \in Seq(Nat) /\ Len(d) = Len(s.dims)
        /\ \A j \in 1 .. Len(d) : j # s.depth + 1 => d[j] = s.dims[j]
    BY <2>3
  <2> HIDE DEF q, d
  <2>5. Typed(q)
    BY <2>2, <2>3, <2>4 DEF Typed
  <2>6. Filled(q)
    <3> DEFINE k == s.depth
               D == s.dims
    <3>1. k \in Nat /\ k + 1 <= Len(D) /\ q.depth = k + 1 /\ q.dims = d
      BY <2>2, <2>3, Zenon
    <3>2. Len(d) = Len(D) /\ \A j \in 1 .. Len(d) : j # k + 1 => d[j] = D[j]
      BY <2>4, Zenon
    <3>3. D \in Seq(Nat) /\ \A j \in 1 .. Len(D) : j > k => D[j] # 0
      BY <2>3, Zenon DEF Filled
    <3> HIDE DEF k, D
    <3>4. k + 1 <= Len(d) /\ \A j \in 1 .. Len(d) : j > k + 1 => d[j] # 0
      BY <3>1, <3>2, <3>3
    <3> QED
      BY <3>1, <3>4, Zenon DEF Filled
  <2>7. ParserInv(q)
    BY <2>2, <2>5, <2>6 DEF ParserInv
  <2> QED
    BY <2>1, <2>7
<1>3. CASE ch = "\""
  <2> DEFINE q == [s EXCEPT !.mode = "quoted"]
  <2>1. Element(s, ch) = q
    BY <1>3 DEF Element
  <2>2. /\ DOMAIN q = DOMAIN s /\ q.mode = "quoted" /\ q.depth = s.depth
        /\ q.dims = s.dims /\ q.elems = s.elems /\ q.elem = s.elem
    BY DEF Typed
  <2> HIDE DEF q
  <2>3. ParserInv(q)
    BY <2>2 DEF ParserInv, Typed, Filled
  <2> QED
    BY <2>1, <2>3
<1>4. CASE ch # "{" /\ ch # "\""
  <2>1. Element(s, ch) = Plain(s, ch)
    BY <1>4 DEF Element
  <2> QED
    BY <2>1, PlainKeeps
<1> QED
  BY <1>1, <1>2, <1>3, <1>4

LEMMA OpenKeeps ==
  ASSUME NEW s, NEW ch \in Characters, Typed(s), s.dims = <<>>, s.mode = "open"
  PROVE  ParserInv(Open(s, ch))
<1>1. CASE ch = "{"
  <2> DEFINE q == [s EXCEPT !.depth = @ + 1]
  <2>1. Open(s, ch) = q
    BY <1>1 DEF Open
  <2>2. /\ DOMAIN q = DOMAIN s /\ q.mode = "open" /\ q.depth = s.depth + 1
        /\ q.dims = s.dims /\ q.elems = s.elems /\ q.elem = s.elem
    BY DEF Typed
  <2> HIDE DEF q
  <2>3. q.depth \in Nat
    <3>1. s.depth \in Nat
      BY DEF Typed
    <3> QED
      BY <2>2, <3>1
  <2>4. Typed(q)
    BY <2>2, <2>3 DEF Typed
  <2>5. ParserInv(q)
    BY <2>2, <2>4 DEF ParserInv
  <2> QED
    BY <2>1, <2>5
<1>2. CASE ch = "}"
  <2>1. Open(s, ch) = Close(s, ch)
    BY <1>2 DEF Open
  <2> QED
    BY <2>1, CloseKeeps
<1>3. CASE ch \notin {"{", "}"} /\ s.depth = 0
  <2>1. Open(s, ch) = Fail(s)
    BY <1>3 DEF Open
  <2> QED
    BY <2>1, FailKeeps
<1>4. CASE ch \notin {"{", "}"} /\ s.depth # 0
  <2> DEFINE d == [i \in 1 .. s.depth |-> 0]
             q == [s EXCEPT !.dims = d]
  <2>1. Open(s, ch) = Element(q, ch)
    <3>1. ch # "{" /\ ch # "}"
      BY <1>4
    <3> QED
      BY <1>4, <3>1, Zenon DEF Open
  <2>2. d \in Seq(Nat) /\ Len(d) = s.depth /\ s.depth \in Nat
    <3>1. s.depth \in Nat
      BY DEF Typed
    <3> DEFINE k == s.depth
    <3> HIDE DEF k
    <3>2. [i \in 1 .. k |-> 0] \in Seq(Nat) /\ Len([i \in 1 .. k |-> 0]) = k
      BY <3>1 DEF k
    <3> QED
      BY <3>1, <3>2 DEF k
  <2> HIDE DEF d
  <2>3. /\ DOMAIN q = DOMAIN s /\ q.depth = s.depth
        /\ q.dims = d /\ q.elems = s.elems /\ q.elem = s.elem
    BY DEF Typed
  <2> HIDE DEF q
  <2>4. Typed(q)
    BY <2>2, <2>3 DEF Typed
  <2>5. Filled(q)
    <3>1. \A k \in Nat : k <= k /\ \A j \in 1 .. k : ~(j > k)
      OBVIOUS
    <3> QED
      BY <2>2, <2>3, <3>1, Zenon DEF Filled
  <2> QED
    BY <2>1, <2>4, <2>5, ElementKeeps
<1> QED
  BY <1>1, <1>2, <1>3, <1>4

LEMMA QuotedKeeps ==
  ASSUME NEW s, NEW ch \in Characters, Typed(s), Filled(s), s.mode = "quoted"
  PROVE  ParserInv(Quoted(s, ch))
<1>1. CASE ch = "\\"
  <2> DEFINE q == [s EXCEPT !.mode = "escaped"]
  <2>1. Quoted(s, ch) = q
    BY <1>1 DEF Quoted
  <2>2. /\ DOMAIN q = DOMAIN s /\ q.mode = "escaped" /\ q.depth = s.depth
        /\ q.dims = s.dims /\ q.elems = s.elems /\ q.elem = s.elem
    BY DEF Typed
  <2> HIDE DEF q
  <2>3. ParserInv(q)
    BY <2>2 DEF ParserInv, Typed, Filled
  <2> QED
    BY <2>1, <2>3
<1>2. CASE ch = "\""
  <2> DEFINE q == [s EXCEPT !.mode = "after", !.elem = <<>>, !.elems = Append(@, s.elem)]
  <2>1. Quoted(s, ch) = q
    BY <1>2 DEF Quoted, EndOfQuoted
  <2>2. /\ DOMAIN q = DOMAIN s /\ q.mode = "after" /\ q.depth = s.depth
        /\ q.dims = s.dims /\ q.elems = Append(s.elems, s.elem) /\ q.elem = <<>>
    BY DEF Typed
  <2>3. Append(s.elems, s.elem) \in Seq(Seq(Characters) \cup {Nil}) /\ <<>> \in Seq(Characters)
    <3>1. s.elem \in Seq(Characters) \cup {Nil} /\ s.elems \in Seq(Seq(Characters) \cup {Nil})
      BY DEF Typed
    <3>2. <<>> \in Seq(Characters)
      OBVIOUS
    <3> QED
      BY <3>1, <3>2, AppendType, Zenon
  <2> HIDE DEF q
  <2>4. Typed(q)
    BY <2>2, <2>3 DEF Typed
  <2>5. Filled(q)
    BY <2>2 DEF Filled
  <2>6. ParserInv(q)
    BY <2>2, <2>4, <2>5 DEF ParserInv
  <2> QED
    BY <2>1, <2>6
<1>3. CASE ch # "\\" /\ ch # "\""
  <2> DEFINE q == [s EXCEPT !.elem = Append(@, ch)]
  <2>1. Quoted(s, ch) = q
    BY <1>3 DEF Quoted
  <2>2. /\ DOMAIN q = DOMAIN s /\ q.mode = "quoted" /\ q.depth = s.depth
        /\ q.dims = s.dims /\ q.elems = s.elems /\ q.elem = Append(s.elem, ch)
    BY DEF Typed
  <2>3. Append(s.elem, ch) \in Seq(Characters)
    BY DEF Typed
  <2> HIDE DEF q
  <2>4. Typed(q)
    BY <2>2, <2>3 DEF Typed
  <2>5. Filled(q)
    BY <2>2 DEF Filled
  <2>6. ParserInv(q)
    BY <2>2, <2>4, <2>5 DEF ParserInv
  <2> QED
    BY <2>1, <2>6
<1> QED
  BY <1>1, <1>2, <1>3

LEMMA ArrayStepKeeps ==
  ASSUME NEW s, NEW ch \in Characters, ParserInv(s)
  PROVE  ParserInv(ArrayStep(s, ch))
<1>1. Typed(s)
  BY DEF ParserInv
<1>2. CASE s.mode = "open"
  <2>1. ArrayStep(s, ch) = Open(s, ch)
    BY <1>2 DEF ArrayStep
  <2>2. s.dims = <<>>
    BY <1>2 DEF ParserInv
  <2> QED
    BY <1>1, <1>2, <2>1, <2>2, OpenKeeps
<1>3. CASE s.mode = "close"
  <2>1. ArrayStep(s, ch) = Close(s, ch)
    BY <1>3 DEF ArrayStep
  <2>2. s.dims = <<>>
    BY <1>3 DEF ParserInv
  <2> QED
    BY <1>1, <2>1, <2>2, CloseKeeps
<1>4. CASE s.mode \in {"element", "plain", "quoted", "escaped", "after"}
  <2>1. Filled(s)
    BY <1>4 DEF ParserInv
  <2>2. CASE s.mode = "element"
    <3>1. ArrayStep(s, ch) = Element(s, ch)
      BY <2>2 DEF ArrayStep
    <3> QED
      BY <1>1, <2>1, <3>1, ElementKeeps
  <2>3. CASE s.mode = "plain"
    <3>1. ArrayStep(s, ch) = Plain(s, ch)
      BY <2>3 DEF ArrayStep
    <3> QED
      BY <1>1, <2>1, <3>1, PlainKeeps
  <2>4. CASE s.mode = "quoted"
    <3>1. ArrayStep(s, ch) = Quoted(s, ch)
      BY <2>4 DEF ArrayStep
    <3> QED
      BY <1>1, <2>1, <2>4, <3>1, QuotedKeeps
  <2>5. CASE s.mode = "escaped"
    <3> DEFINE q == [s EXCEPT !.mode = "quoted", !.elem = Append(@, ch)]
    <3>1. ArrayStep(s, ch) = q
      BY <2>5 DEF ArrayStep
    <3>2. /\ DOMAIN q = DOMAIN s /\ q.mode = "quoted" /\ q.depth = s.depth
          /\ q.dims = s.dims /\ q.elems = s.elems /\ q.elem = Append(s.elem, ch)
      BY <1>1 DEF Typed
    <3>3. Append(s.elem, ch) \in Seq(Characters)
      BY <1>1 DEF Typed
    <3> HIDE DEF q
    <3>4. Typed(q)
      BY <1>1, <3>2, <3>3 DEF Typed
    <3>5. Filled(q)
      BY <2>1, <3>2 DEF Filled
    <3>6. ParserInv(q)
      BY <3>2, <3>4, <3>5 DEF ParserInv
    <3> QED
      BY <3>1, <3>6
  <2>6. CASE s.mode = "after"
    <3>1. ArrayStep(s, ch) = AfterElement(s, ch)
      BY <2>6 DEF ArrayStep
    <3> QED
      BY <1>1, <2>1, <3>1, AfterElementKeeps
  <2> QED
    BY <1>4, <2>2, <2>3, <2>4, <2>5, <2>6
<1>5. CASE s.mode \notin {"open", "close", "element", "plain", "quoted", "escaped", "after"}
  <2>1. ArrayStep(s, ch) = s
    BY <1>5 DEF ArrayStep
  <2> QED
    BY <2>1
<1> QED
  BY <1>2, <1>3, <1>4, <1>5

\* parseArray: no text makes it divide by a dimension of zero.
LEMMA NeverPanics ==
  ASSUME NEW src \in Seq(Characters)
  PROVE  parseArray(src) # Panic
<1> DEFINE n == Len(src)
           s == ArrayRun(src)
<1>1. n \in Nat
  OBVIOUS
<1>2. ParserInv(s)
  <2>1. PICK run : /\ ArrayRun(src) = run[n]
                   /\ run[0] = Parser
                   /\ \A i \in 1 .. n : run[i] = ArrayStep(run[i - 1], src[i])
    BY ArrayRuns, Zenon
  <2> DEFINE G == {k \in 0 .. n : ParserInv(run[k])}
  <2>2. 0 \in G
    <3>1. <<>> \in Seq(Nat) /\ <<>> \in Seq(Seq(Characters) \cup {Nil}) /\ <<>> \in Seq(Characters)
      OBVIOUS
    <3>2. Typed(Parser)
      BY <3>1 DEF Typed, Parser
    <3>3. ParserInv(Parser)
      BY <3>2 DEF ParserInv, Parser
    <3>4. 0 \in 0 .. n
      BY <1>1
    <3> QED
      BY <2>1, <3>3, <3>4, Zenon
  <2>3. ASSUME NEW k \in 1 .. n, k - 1 \in G
        PROVE  k \in G
    <3>1. src[k] \in Characters /\ k \in 0 .. n
      BY <1>1
    <3>2. ParserInv(run[k - 1])
      BY <2>3
    <3>3. ParserInv(run[k])
      BY <2>1, <3>1, <3>2, ArrayStepKeeps, Zenon
    <3> QED
      BY <3>1, <3>3, Zenon
  <2>4. n \in 0 .. n
    BY <1>1
  <2> HIDE DEF G, n
  <2>5. n \in G
    BY <1>1, <2>2, <2>3, <2>4, InductionUpTo
  <2> QED
    BY <2>1, <2>5, Zenon DEF G
<1> HIDE DEF s
<1>3. Typed(s)
  BY <1>2 DEF ParserInv
<1>4. CASE s.mode = "failed" \/ s.depth > 0 \/ src = <<>>
  BY <1>4, ResultsAssumption, Zenon DEF parseArray, s
<1>5. CASE ~(s.mode = "failed" \/ s.depth > 0 \/ src = <<>>)
  <2>1. ~\E i \in DOMAIN s.dims : s.dims[i] = 0
    <3>1. s.mode \in {"open", "close"} => s.dims = <<>>
      BY <1>2 DEF ParserInv
    <3>2. s.mode \notin {"open", "close", "failed"} => Filled(s)
      BY <1>2 DEF ParserInv
    <3>3. s.depth = 0 /\ s.dims \in Seq(Nat)
      <4>1. s.depth \in Nat /\ s.dims \in Seq(Nat)
        BY <1>3 DEF Typed
      <4>2. \A k \in Nat : ~(k > 0) => k = 0
        OBVIOUS
      <4> QED
        BY <1>5, <4>1, <4>2, Zenon
    <3>4. s.mode # "failed"
      BY <1>5
    <3>5. CASE s.dims = <<>>
      BY <3>5
    <3>6. CASE Filled(s)
      <4> DEFINE D == s.dims
      <4>1. D \in Seq(Nat) /\ \A j \in 1 .. Len(D) : j > 0 => D[j] # 0
        BY <3>3, <3>6, Zenon DEF Filled
      <4> HIDE DEF D
      <4>2. ~\E i \in DOMAIN D : D[i] = 0
        BY <4>1
      <4> QED
        BY <4>2 DEF D
    <3> QED
      BY <3>1, <3>2, <3>4, <3>5, <3>6
  <2> DEFINE r == [dims |-> s.dims, elems |-> s.elems]
  <2>2. parseArray(src) \in {Failed, r}
    BY <1>5, <2>1, Zenon DEF parseArray, s
  <2>3. r \in [dims : Seq(Nat), elems : Seq(Seq(Characters) \cup {Nil})]
    <3>1. s.dims \in Seq(Nat) /\ s.elems \in Seq(Seq(Characters) \cup {Nil})
      BY <1>3 DEF Typed
    <3> QED
      BY <3>1
  <2> HIDE DEF r
  <2> QED
    BY <2>2, <2>3, ResultsAssumption, Zenon
<1> QED
  BY <1>4, <1>5

-----------------------------------------------------------------------------
(* Arrays are read back.                                                   *)

LEMMA QuotedType ==
  ASSUME NEW e \in Seq(Characters)
  PROVE  appendArrayQuotedBytes(e) \in Seq(Characters)
<1> DEFINE Piece(x) == IF x \in {"\"", "\\"} THEN <<"\\", x>> ELSE <<x>>
           P == [i \in DOMAIN e |-> Piece(e[i])]
<1>1. "\"" \in Characters /\ "\\" \in Characters
  BY WrittenCharacters
<1>2. \A x \in Characters : Piece(x) \in Seq(Characters)
  BY <1>1, ShortTexts, Zenon
<1>3. Escape(e) = FlattenSeq(P)
  BY Zenon DEF Escape
<1> HIDE DEF Piece
<1>4. P \in Seq(Seq(Characters))
  <2>1. Len(e) \in Nat /\ DOMAIN e = 1 .. Len(e) /\ \A i \in DOMAIN e : e[i] \in Characters
    OBVIOUS
  <2>2. \A i \in DOMAIN e : Piece(e[i]) \in Seq(Characters)
    BY <1>2, <2>1, Zenon
  <2> QED
    BY <2>1, <2>2
<1> HIDE DEF P
<1>5. Escape(e) \in Seq(Characters) /\ <<"\"">> \in Seq(Characters)
  BY <1>1, <1>3, <1>4, FlattenType, ShortTexts, Zenon
<1>6. <<"\"">> \o Escape(e) \in Seq(Characters)
  BY <1>5, ConcatType, Zenon
<1> QED
  BY <1>5, <1>6, ConcatType, Zenon DEF appendArrayQuotedBytes

\* Scan: a text of the elements a, none of which is nil.
LEMMA StringsAreScanned ==
  ASSUME NEW a \in Seq(Seq(Characters)), NEW texts \in Seq(Seq(Characters)),
         Len(texts) = Len(a), \A i \in 1 .. Len(a) : Writes(texts[i], a[i])
  PROVE  StringArrayScan(Joined(texts)) = a
<1> DEFINE src == Joined(texts)
<1>1. scanLinearArray(src) = a /\ src \in Seq(Characters)
  BY JoinedIsScanned, Zenon
<1> HIDE DEF src
<1>2. src # Nil
  BY <1>1, ResultsAssumption, Zenon
<1>3. a \in Seq(Seq(Characters) \cup {Nil})
  OBVIOUS
<1>4. a \notin {Failed, Panic}
  BY <1>3, ResultsAssumption, Zenon
<1>5. \A i \in DOMAIN a : a[i] \in Seq(Characters)
  OBVIOUS
<1>6. ~\E i \in DOMAIN a : a[i] = Nil
  BY <1>5, ResultsAssumption, Zenon
<1>7. StringArrayScan(src) = a
  BY <1>1, <1>2, <1>6, Zenon DEF StringArrayScan
<1> QED
  BY <1>7, Zenon DEF src

LEMMA StringsSurvive ==
  ASSUME NEW a \in Seq(Seq(Characters))
  PROVE  /\ StringArrayScan(StringArrayValue(a)) = a
         /\ StringArrayScan(BackendArray(a)) = a
<1>1. a # Nil
  <2>1. a \in Seq(Seq(Characters) \cup {Nil})
    OBVIOUS
  <2> QED
    BY <2>1, ResultsAssumption, Zenon
<1>2. Len(a) \in Nat /\ DOMAIN a = 1 .. Len(a) /\ \A i \in 1 .. Len(a) : a[i] \in Seq(Characters)
  OBVIOUS
<1>3. StringArrayScan(StringArrayValue(a)) = a
  <2> DEFINE t == [i \in DOMAIN a |-> appendArrayQuotedBytes(a[i])]
  <2>1. \A i \in 1 .. Len(a) : appendArrayQuotedBytes(a[i]) \in Seq(Characters)
    BY <1>2, QuotedType, Zenon
  <2>2. t \in Seq(Seq(Characters)) /\ Len(t) = Len(a)
    BY <1>2, <2>1
  <2>3. \A i \in 1 .. Len(a) : Writes(t[i], a[i])
    BY <1>2, Zenon DEF Writes
  <2>4. StringArrayValue(a) = Joined(t)
    BY <1>1, Zenon DEF StringArrayValue
  <2> HIDE DEF t
  <2> QED
    BY <2>2, <2>3, <2>4, StringsAreScanned, Zenon
<1>4. StringArrayScan(BackendArray(a)) = a
  <2> DEFINE t == [i \in DOMAIN a |-> BackendElement(a[i])]
  <2>1. \A i \in 1 .. Len(a) : BackendElement(a[i]) \in Seq(Characters)
    BY <1>2, QuotedType, Zenon DEF BackendElement
  <2>2. t \in Seq(Seq(Characters)) /\ Len(t) = Len(a)
    BY <1>2, <2>1
  <2>3. \A e \in Seq(Characters) : Writes(BackendElement(e), e)
    <3>1. ASSUME NEW e \in Seq(Characters) PROVE DOMAIN e = 1 .. Len(e)
      OBVIOUS
    <3> QED
      BY <3>1, Zenon DEF Writes, BackendElement
  <2>4. \A i \in 1 .. Len(a) : Writes(t[i], a[i])
    BY <1>2, <2>3, Zenon
  <2>5. BackendArray(a) = Joined(t)
    BY Zenon DEF BackendArray
  <2> HIDE DEF t
  <2> QED
    BY <2>2, <2>4, <2>5, StringsAreScanned, Zenon
<1> QED
  BY <1>3, <1>4

LEMMA FloatsSurvive ==
  ASSUME NEW a \in Seq(Floats)
  PROVE  Float32ArrayScan(Float32ArrayValue(a), Floats) = a
<1> DEFINE t == [i \in DOMAIN a |-> <<a[i]>>]
           src == Joined(t)
<1>1. a # Nil
  BY ResultsAssumption, Zenon
<1>2. Len(a) \in Nat /\ DOMAIN a = 1 .. Len(a) /\ \A i \in 1 .. Len(a) : a[i] \in Floats
  OBVIOUS
<1>3. \A x \in Floats : x \in Characters /\ x \notin Unquotable /\ x # "NULL"
  <2>1. Floats \subseteq Characters \ (Unquotable \cup {"NULL"})
    BY ValuesAssumption, Zenon
  <2> QED
    BY <2>1, Zenon
<1>4. \A i \in 1 .. Len(a) : <<a[i]>> \in Seq(Characters)
  BY <1>2, <1>3, ShortTexts, Zenon
<1>5. t \in Seq(Seq(Characters)) /\ Len(t) = Len(a) /\ DOMAIN t = DOMAIN a
  BY <1>2, <1>4
<1>6. \A i \in DOMAIN a : t[i] = <<a[i]>>
  OBVIOUS
<1>7. \A x : x \notin Unquotable /\ x # "NULL" => Writes(<<x>>, <<x>>)
  <2>1. \A x : <<x>> # <<>> /\ (x # "NULL" => <<x>> # <<"NULL">>)
    OBVIOUS
  <2>2. \A x : \A i \in 1 .. Len(<<x>>) : <<x>>[i] = x
    OBVIOUS
  <2> QED
    BY <2>1, <2>2, Zenon DEF Writes
<1>8. \A i \in 1 .. Len(t) : Writes(t[i], t[i])
  BY <1>2, <1>3, <1>5, <1>6, <1>7, Zenon
<1>9. Float32ArrayValue(a) = src
  BY <1>1, Zenon DEF Float32ArrayValue
<1> HIDE DEF t
<1>10. scanLinearArray(src) = t /\ src \in Seq(Characters)
  BY <1>5, <1>8, JoinedIsScanned, Zenon
<1> HIDE DEF src
<1>11. src # Nil
  BY <1>10, ResultsAssumption, Zenon
<1>12. t \notin {Failed, Panic}
  <2>1. t \in Seq(Seq(Characters) \cup {Nil})
    BY <1>5
  <2> QED
    BY <2>1, ResultsAssumption, Zenon
<1>13. ~\E i \in DOMAIN t : \A x \in Floats : t[i] # <<x>>
  BY <1>2, <1>5, <1>6, Zenon
<1>14. [i \in DOMAIN t |-> t[i][1]] = a
  <2>1. \A i \in DOMAIN a : t[i][1] = a[i]
    BY <1>6
  <2> QED
    BY <1>5, <2>1
<1>15. Float32ArrayScan(src, Floats) = [i \in DOMAIN t |-> t[i][1]]
  BY <1>10, <1>11, <1>12, <1>13, Zenon DEF Float32ArrayScan
<1> QED
  BY <1>9, <1>14, <1>15, Zenon

\* array.go reads back what it has written and what PostgreSQL writes, and
\* no text makes it panic: for arrays, strings and texts of any length.
THEOREM ArraysAreReadBack == Spec => []ArraysSurvive
<1>1. ArraysSurvive
  <2>1. \A a \in StringArrays : /\ StringArrayScan(StringArrayValue(a)) = a
                                /\ StringArrayScan(BackendArray(a)) = a
    <3>1. StringArrays \subseteq Seq(Seq(Characters))
      BY ValuesAssumption, Zenon
    <3> QED
      BY <3>1, StringsSurvive, Zenon
  <2>2. \A a \in Float32Arrays : Float32ArrayScan(Float32ArrayValue(a), Floats) = a
    <3>1. Float32Arrays \subseteq Seq(Floats)
      BY ValuesAssumption, Zenon
    <3> QED
      BY <3>1, FloatsSurvive, Zenon
  <2>3. /\ StringArrayScan(StringArrayValue(Nil)) = Nil
        /\ Float32ArrayScan(Float32ArrayValue(Nil), Floats) = Nil
    BY Zenon DEF StringArrayScan, StringArrayValue, Float32ArrayScan, Float32ArrayValue
  <2>4. \A t \in ArrayTexts : parseArray(t) # Panic
    <3>1. ArrayTexts \subseteq Seq(Characters)
      BY ValuesAssumption, Zenon
    <3> QED
      BY <3>1, NeverPanics, Zenon
  <2> QED
    BY <2>1, <2>2, <2>3, <2>4, Zenon DEF ArraysSurvive
<1> QED
  BY <1>1, PTL

-----------------------------------------------------------------------------
(* Connection strings.                                                     *)

LEMMA PlacesCounted ==
  ASSUME NEW u \in Seq(Characters), NEW ch
  PROVE  IsFiniteSet(Places(u, ch)) /\ Cardinality(Places(u, ch)) \in Nat
<1>1. Len(u) \in Nat /\ 1 \in Int /\ Len(u) \in Int
  OBVIOUS
<1>2. IsFiniteSet(1 .. Len(u))
  BY <1>1, FS_Interval, Zenon
<1>3. Places(u, ch) \in SUBSET (1 .. Len(u))
  BY DEF Places
<1>4. IsFiniteSet(Places(u, ch))
  BY <1>2, <1>3, FS_Subset, Zenon
<1> QED
  BY <1>4, FS_CardinalityType, Zenon

\* A text that grows by one character.
LEMMA PlacesGrow ==
  ASSUME NEW u \in Seq(Characters), NEW x \in Characters, NEW ch
  PROVE  Cardinality(Places(Append(u, x), ch))
           = IF x = ch THEN Cardinality(Places(u, ch)) + 1 ELSE Cardinality(Places(u, ch))
<1> DEFINE n == Len(u)
           w == Append(u, x)
           A == Places(u, ch)
<1>1. n \in Nat /\ Len(w) = n + 1 /\ w[n + 1] = x /\ \A j \in 1 .. n : w[j] = u[j]
  OBVIOUS
<1>2. Places(w, ch) = {j \in 1 .. (n + 1) : w[j] = ch}
  BY <1>1, Zenon DEF Places
<1>3. A = {j \in 1 .. n : u[j] = ch}
  BY Zenon DEF Places
<1> HIDE DEF n, w
<1>4. x # ch => Places(w, ch) = A
  BY <1>1, <1>2, <1>3
<1>5. x = ch => Places(w, ch) = A \cup {n + 1}
  BY <1>1, <1>2, <1>3
<1>6. IsFiniteSet(A) /\ n + 1 \notin A
  <2>1. n + 1 \notin A
    BY <1>1, <1>3
  <2> QED
    BY <2>1, PlacesCounted, Zenon
<1> HIDE DEF A
<1>7. Cardinality(A \cup {n + 1}) = Cardinality(A) + 1
  BY <1>6, FS_AddElement, Zenon
<1>8. Cardinality(Places(w, ch)) = IF x = ch THEN Cardinality(A) + 1 ELSE Cardinality(A)
  BY <1>4, <1>5, <1>7, Zenon
<1> QED
  BY <1>8, Zenon DEF w, A

\* A character with a backslash, if it is ch.
Slashed(x, ch) == IF x = ch THEN <<"\\", x>> ELSE <<x>>

\* strings.Replace replaces every ch if there are no more than limit.
Replaced(u, ch) == FlattenSeq([i \in DOMAIN u |-> Slashed(u[i], ch)])

LEMMA AllReplaced ==
  ASSUME NEW u \in Seq(Characters), NEW ch, NEW limit \in Nat,
         Cardinality(Places(u, ch)) <= limit
  PROVE  ReplaceFirst(u, ch, limit) = Replaced(u, ch)
<1> DEFINE n == Len(u)
           A == Places(u, ch)
           Earlier(i) == {j \in 1 .. (i - 1) : u[j] = ch}
<1>1. n \in Nat /\ DOMAIN u = 1 .. n
  OBVIOUS
<1>2. IsFiniteSet(A) /\ Cardinality(A) \in Nat
  BY PlacesCounted, Zenon
<1>3. A = {j \in 1 .. n : u[j] = ch}
  BY Zenon DEF Places
<1> HIDE DEF n
<1>4. ASSUME NEW i \in 1 .. n, u[i] = ch
      PROVE  Cardinality(Earlier(i)) < limit
  <2>1. Earlier(i) \in SUBSET A /\ i \in A /\ i \notin Earlier(i)
    BY <1>1, <1>3, <1>4
  <2> HIDE DEF A, Earlier
  <2>2. /\ IsFiniteSet(Earlier(i))
        /\ Cardinality(Earlier(i)) <= Cardinality(A)
        /\ (Cardinality(A) = Cardinality(Earlier(i)) => A = Earlier(i))
    BY <1>2, <2>1, FS_Subset, Zenon
  <2>3. Cardinality(Earlier(i)) \in Nat
    BY <2>2, FS_CardinalityType, Zenon
  <2>4. Cardinality(A) # Cardinality(Earlier(i))
    BY <2>1, <2>2, Zenon
  <2>5. Cardinality(A) <= limit
    BY Zenon DEF A
  <2> QED
    BY <1>2, <2>2, <2>3, <2>4, <2>5
<1>5. \A i \in DOMAIN u : (IF u[i] = ch /\ Cardinality({j \in 1 .. (i - 1) : u[j] = ch}) < limit
                           THEN <<"\\", u[i]>> ELSE <<u[i]>>) = Slashed(u[i], ch)
  BY <1>1, <1>4, Zenon DEF Slashed
<1>6. [i \in DOMAIN u |-> IF u[i] = ch /\ Cardinality({j \in 1 .. (i - 1) : u[j] = ch}) < limit
                           THEN <<"\\", u[i]>> ELSE <<u[i]>>]
      = [i \in DOMAIN u |-> Slashed(u[i], ch)]
  BY <1>5, Zenon
<1> QED
  BY <1>6, Zenon DEF ReplaceFirst, Replaced

LEMMA SlashedType ==
  ASSUME NEW x \in Characters, NEW ch
  PROVE  Slashed(x, ch) \in Seq(Characters)
<1>1. "\\" \in Characters
  BY WrittenCharacters
<1> QED
  BY <1>1, ShortTexts, Zenon DEF Slashed

\* The pieces a text is replaced by.
LEMMA ReplacedPieces ==
  ASSUME NEW u \in Seq(Characters), NEW ch
  PROVE  /\ [i \in DOMAIN u |-> Slashed(u[i], ch)] \in Seq(Seq(Characters))
         /\ Len([i \in DOMAIN u |-> Slashed(u[i], ch)]) = Len(u)
<1>1. Len(u) \in Nat /\ DOMAIN u = 1 .. Len(u) /\ \A i \in DOMAIN u : u[i] \in Characters
  OBVIOUS
<1>2. \A i \in DOMAIN u : Slashed(u[i], ch) \in Seq(Characters)
  BY <1>1, SlashedType, Zenon
<1> QED
  BY <1>1, <1>2

LEMMA ReplacedType ==
  ASSUME NEW u \in Seq(Characters), NEW ch
  PROVE  Replaced(u, ch) \in Seq(Characters)
BY ReplacedPieces, FlattenType, Zenon DEF Replaced

LEMMA ReplacedEmpty ==
  ASSUME NEW ch
  PROVE  Replaced(<<>>, ch) = <<>>
<1>1. [i \in DOMAIN <<>> |-> Slashed(<<>>[i], ch)] = <<>>
  OBVIOUS
<1> QED
  BY <1>1, FlattenEmpty, Zenon DEF Replaced

LEMMA ReplacedGrows ==
  ASSUME NEW u \in Seq(Characters), NEW x \in Characters, NEW ch
  PROVE  Replaced(Append(u, x), ch) = Replaced(u, ch) \o Slashed(x, ch)
<1> DEFINE P == [i \in DOMAIN u |-> Slashed(u[i], ch)]
           w == Append(u, x)
           Q == [i \in DOMAIN w |-> Slashed(w[i], ch)]
<1>1. P \in Seq(Seq(Characters)) /\ Len(P) = Len(u)
  BY ReplacedPieces, Zenon
<1>2. w \in Seq(Characters)
  OBVIOUS
<1>3. Q \in Seq(Seq(Characters)) /\ Len(Q) = Len(w)
  BY <1>2, ReplacedPieces, Zenon
<1>4. Slashed(x, ch) \in Seq(Characters)
  BY SlashedType, Zenon
<1>5. /\ Len(u) \in Nat /\ DOMAIN u = 1 .. Len(u)
      /\ Len(w) = Len(u) + 1 /\ DOMAIN w = 1 .. (Len(u) + 1)
      /\ w[Len(u) + 1] = x /\ \A i \in 1 .. Len(u) : w[i] = u[i]
  OBVIOUS
<1>6. /\ \A i \in 1 .. Len(u) : Q[i] = P[i]
      /\ Q[Len(u) + 1] = Slashed(x, ch)
  BY <1>5
<1> HIDE DEF P, Q, w
<1>7. Q = Append(P, Slashed(x, ch))
  <2> DEFINE y == Slashed(x, ch)
             S == Seq(Characters)
             n == Len(u)
  <2>1. P \in Seq(S) /\ Q \in Seq(S) /\ y \in S /\ Len(P) = n /\ Len(Q) = n + 1 /\ n \in Nat
    BY <1>1, <1>3, <1>4, <1>5
  <2>2. (\A i \in 1 .. n : Q[i] = P[i]) /\ Q[n + 1] = y
    BY <1>6
  <2> HIDE DEF y, S, n
  <2>3. Q = Append(P, y)
    BY <2>1, <2>2
  <2> QED
    BY <2>3 DEF y
<1>8. FlattenSeq(Q) = FlattenSeq(P) \o Slashed(x, ch)
  BY <1>1, <1>4, <1>7, FlattenGrows, Zenon
<1> QED
  BY <1>8, Zenon DEF Replaced, P, Q, w

\* Two characters more.
LEMMA TwoMore ==
  ASSUME NEW u \in Seq(Characters), NEW x \in Characters, NEW y \in Characters
  PROVE  /\ u \o <<x, y>> = Append(Append(u, x), y)
         /\ Append(u, x) \in Seq(Characters)
         /\ Append(Append(u, x), y) \in Seq(Characters)
OBVIOUS

\* escapeForPostgres, first the backslashes.
LEMMA BackslashesGrow ==
  ASSUME NEW u \in Seq(Characters), NEW x \in Characters
  PROVE  Replaced(Append(u, x), "\\")
           = IF x = "\\" THEN Append(Append(Replaced(u, "\\"), "\\"), "\\")
             ELSE Append(Replaced(u, "\\"), x)
<1> DEFINE r == Replaced(u, "\\")
<1>1. "\\" \in Characters
  BY WrittenCharacters
<1>2. r \in Seq(Characters)
  BY ReplacedType, Zenon
<1>3. Replaced(Append(u, x), "\\") = r \o Slashed(x, "\\")
  BY ReplacedGrows, Zenon
<1> HIDE DEF r
<1>4. x = "\\" => r \o Slashed(x, "\\") = Append(Append(r, "\\"), "\\")
  <2>1. Slashed("\\", "\\") = <<"\\", "\\">>
    BY Zenon DEF Slashed
  <2>2. r \o <<"\\", "\\">> = Append(Append(r, "\\"), "\\")
    BY <1>1, <1>2, TwoMore, Zenon
  <2> QED
    BY <2>1, <2>2, Zenon
<1>5. x # "\\" => r \o Slashed(x, "\\") = Append(r, x)
  BY <1>2, AppendOne, Zenon DEF Slashed
<1> QED
  BY <1>3, <1>4, <1>5, Zenon DEF r

\* Escaping the backslashes leaves the quotes.
LEMMA QuotesKept ==
  ASSUME NEW v \in Seq(Characters)
  PROVE  Cardinality(Places(Replaced(v, "\\"), "'")) = Cardinality(Places(v, "'"))
<1> DEFINE n == Len(v)
           C(u) == Cardinality(Places(u, "'"))
           Same(u) == C(Replaced(u, "\\")) = C(u)
           G == {k \in 0 .. n : Same(SubSeq(v, 1, k))}
<1>1. n \in Nat
  OBVIOUS
<1>2. "\\" \in Characters /\ "\\" # "'"
  BY WrittenCharacters
<1>3. \A u \in Seq(Characters) : \A x \in Characters :
        C(Append(u, x)) = IF x = "'" THEN C(u) + 1 ELSE C(u)
  BY PlacesGrow, Zenon
<1> HIDE DEF C
<1>4. 0 \in G
  <2>1. SubSeq(v, 1, 0) = <<>>
    OBVIOUS
  <2>2. Same(SubSeq(v, 1, 0))
    BY <2>1, ReplacedEmpty, Zenon
  <2> HIDE DEF Same
  <2> QED
    BY <1>1, <2>2
<1>5. ASSUME NEW k \in 1 .. n, k - 1 \in G
      PROVE  k \in G
  <2> DEFINE f == SubSeq(v, 1, k - 1)
             x == v[k]
             r == Replaced(f, "\\")
             r1 == Append(r, "\\")
  <2>1. f \in Seq(Characters) /\ x \in Characters /\ SubSeq(v, 1, k) = Append(f, x)
    BY FirstElements
  <2>2. C(r) = C(f) /\ k \in 0 .. n
    <3>1. k \in 0 .. n
      BY <1>1
    <3> QED
      BY <1>5, <3>1, Zenon
  <2> HIDE DEF f, x
  <2>3. r \in Seq(Characters)
    BY <2>1, ReplacedType, Zenon
  <2>4. Replaced(Append(f, x), "\\") = IF x = "\\" THEN Append(r1, "\\") ELSE Append(r, x)
    BY <2>1, BackslashesGrow, Zenon
  <2> HIDE DEF r
  <2>5. r1 \in Seq(Characters)
    BY <1>2, <2>3, AppendType, Zenon
  <2>6. C(Append(f, x)) = IF x = "'" THEN C(f) + 1 ELSE C(f)
    BY <1>3, <2>1, Zenon
  <2>7. C(Append(r, x)) = IF x = "'" THEN C(r) + 1 ELSE C(r)
    BY <1>3, <2>1, <2>3, Zenon
  <2>8. C(r1) = C(r)
    BY <1>2, <1>3, <2>3, Zenon
  <2> HIDE DEF r1
  <2>9. C(Append(r1, "\\")) = C(r1)
    BY <1>2, <1>3, <2>5, Zenon
  <2>10. CASE x = "\\"
    <3>1. x # "'"
      BY <1>2, <2>10, Zenon
    <3> QED
      BY <2>1, <2>2, <2>4, <2>6, <2>8, <2>9, <2>10, <3>1, Zenon
  <2>11. CASE x # "\\"
    BY <2>1, <2>2, <2>4, <2>6, <2>7, <2>11, Zenon
  <2> QED
    BY <2>10, <2>11, Zenon
<1>6. Same(SubSeq(v, 1, n))
  <2>1. n \in 0 .. n
    BY <1>1
  <2> HIDE DEF G, n
  <2>2. n \in G
    BY <1>1, <1>4, <1>5, <2>1, InductionUpTo
  <2> QED
    BY <2>2, Zenon DEF G
<1>7. SubSeq(v, 1, n) = v
  OBVIOUS
<1> QED
  BY <1>6, <1>7, Zenon DEF C

\* escapeForPostgres with every backslash and every quote escaped.
Escaped(v) == Replaced(Replaced(v, "\\"), "'")

LEMMA EscapesAll ==
  ASSUME NEW v \in Seq(Characters), NEW limit \in Nat,
         Cardinality(Places(v, "\\")) <= limit, Cardinality(Places(v, "'")) <= limit
  PROVE  escapeForPostgres(v, limit) = Escaped(v)
<1> DEFINE r == Replaced(v, "\\")
<1>1. r \in Seq(Characters)
  BY ReplacedType, Zenon
<1>2. Cardinality(Places(r, "'")) <= limit
  BY QuotesKept, Zenon
<1>3. ReplaceFirst(v, "\\", limit) = r
  BY AllReplaced, Zenon
<1> HIDE DEF r
<1>4. ReplaceFirst(r, "'", limit) = Replaced(r, "'")
  BY <1>1, <1>2, AllReplaced, Zenon
<1> QED
  BY <1>3, <1>4, Zenon DEF escapeForPostgres, Escaped, r

LEMMA EscapedType ==
  ASSUME NEW v \in Seq(Characters)
  PROVE  Escaped(v) \in Seq(Characters)
BY ReplacedType, Zenon DEF Escaped

\* One character more: with a backslash if it is a backslash or a quote.
LEMMA EscapedGrows ==
  ASSUME NEW u \in Seq(Characters), NEW x \in Characters
  PROVE  Escaped(Append(u, x)) = IF x \in {"\\", "'"} THEN Append(Append(Escaped(u), "\\"), x)
                                 ELSE Append(Escaped(u), x)
<1> DEFINE r == Replaced(u, "\\")
           r1 == Append(r, "\\")
           e == Replaced(r, "'")
           e1 == Append(e, "\\")
<1>1. "\\" \in Characters /\ "\\" # "'"
  BY WrittenCharacters
<1>2. r \in Seq(Characters)
  BY ReplacedType, Zenon
<1>3. Replaced(Append(u, x), "\\") = IF x = "\\" THEN Append(r1, "\\") ELSE Append(r, x)
  BY BackslashesGrow, Zenon
<1> HIDE DEF r
<1>4. r1 \in Seq(Characters) /\ e \in Seq(Characters)
  BY <1>1, <1>2, AppendType, ReplacedType, Zenon
<1>5. e1 \in Seq(Characters)
  BY <1>1, <1>4, AppendType, Zenon
<1>6. Replaced(r1, "'") = e1
  <2>1. Replaced(r1, "'") = e \o Slashed("\\", "'")
    BY <1>1, <1>2, ReplacedGrows, Zenon
  <2>2. Slashed("\\", "'") = <<"\\">>
    BY <1>1, Zenon DEF Slashed
  <2> HIDE DEF e
  <2>3. e \o <<"\\">> = e1
    BY <1>1, <1>4, AppendOne, Zenon
  <2> QED
    BY <2>1, <2>2, <2>3, Zenon
<1>7. Replaced(Append(r1, "\\"), "'") = Append(e1, "\\")
  <2>1. Replaced(Append(r1, "\\"), "'") = Replaced(r1, "'") \o Slashed("\\", "'")
    BY <1>1, <1>4, ReplacedGrows, Zenon
  <2>2. Slashed("\\", "'") = <<"\\">>
    BY <1>1, Zenon DEF Slashed
  <2> HIDE DEF e1
  <2>3. e1 \o <<"\\">> = Append(e1, "\\")
    BY <1>1, <1>5, AppendOne, Zenon
  <2> QED
    BY <1>6, <2>1, <2>2, <2>3, Zenon
<1>8. Replaced(Append(r, x), "'") = IF x = "'" THEN Append(e1, x) ELSE Append(e, x)
  <2>1. Replaced(Append(r, x), "'") = e \o Slashed(x, "'")
    BY <1>2, ReplacedGrows, Zenon
  <2> HIDE DEF e
  <2>2. x = "'" => e \o Slashed(x, "'") = Append(e1, x)
    BY <1>1, <1>4, TwoMore, Zenon DEF Slashed
  <2>3. x # "'" => e \o Slashed(x, "'") = Append(e, x)
    BY <1>4, AppendOne, Zenon DEF Slashed
  <2> QED
    BY <2>1, <2>2, <2>3, Zenon
<1>9. Escaped(u) = e
  BY Zenon DEF Escaped, r
<1> HIDE DEF e
<1>10. CASE x = "\\"
  BY <1>3, <1>7, <1>9, <1>10, Zenon DEF Escaped
<1>11. CASE x # "\\"
  <2>1. Escaped(Append(u, x)) = Replaced(Append(r, x), "'")
    BY <1>3, <1>11, Zenon DEF Escaped
  <2> QED
    BY <1>8, <1>9, <1>11, <2>1, Zenon
<1> QED
  BY <1>10, <1>11, Zenon

-----------------------------------------------------------------------------
(* parseOpts, one character after the other.                               *)

\* The parser of options is at mode, with what it has read.
Reads(s, mode, key, val, found) ==
  /\ DOMAIN s = {"mode", "key", "val", "found"}
  /\ s.mode = mode /\ s.key = key /\ s.val = val /\ s.found = found

LEMMA FirstCharacter ==
  ASSUME NEW x
  PROVE  Append(<<>>, x) = <<x>>
OBVIOUS

\* parseOpts: the steps through one option.
LEMMA KeySteps ==
  ASSUME NEW s, NEW f, NEW ch, ch \notin {" ", "="}, Reads(s, "start", <<>>, <<>>, f)
  PROVE  /\ OptionStep(s, " ") = s
         /\ Reads(OptionStep(s, ch), "key", <<ch>>, <<>>, f)
<1>1. OptionStep(s, " ") = s
  BY DEF Reads, OptionStep
<1>2. OptionStep(s, ch) = Key(s, ch)
  BY DEF Reads, OptionStep
<1>3. Key(s, ch) = [s EXCEPT !.mode = "key", !.key = Append(@, ch)]
  BY DEF Key
<1>4. Reads(OptionStep(s, ch), "key", Append(<<>>, ch), <<>>, f)
  BY <1>2, <1>3 DEF Reads
<1> QED
  BY <1>1, <1>4, FirstCharacter, Zenon

LEMMA EqualsSteps ==
  ASSUME NEW s, NEW k, NEW f
  PROVE  /\ Reads(s, "key", k, <<>>, f) => Reads(OptionStep(s, "="), "equals", k, <<>>, f)
         /\ Reads(s, "equals", k, <<>>, f) => Reads(OptionStep(s, "'"), "quote", k, <<>>, f)
<1>1. ASSUME Reads(s, "key", k, <<>>, f)
      PROVE  Reads(OptionStep(s, "="), "equals", k, <<>>, f)
  <2>1. OptionStep(s, "=") = [s EXCEPT !.mode = "equals"]
    BY <1>1 DEF Reads, OptionStep, Key
  <2> QED
    BY <1>1, <2>1 DEF Reads
<1>2. ASSUME Reads(s, "equals", k, <<>>, f)
      PROVE  Reads(OptionStep(s, "'"), "quote", k, <<>>, f)
  <2>1. OptionStep(s, "'") = [s EXCEPT !.mode = "quote"]
    BY <1>2 DEF Reads, OptionStep
  <2> QED
    BY <1>2, <2>1 DEF Reads
<1> QED
  BY <1>1, <1>2, Zenon

LEMMA QuoteSteps ==
  ASSUME NEW s, NEW k, NEW v, NEW f, NEW ch, Reads(s, "quote", k, v, f)
  PROVE  /\ Reads(OptionStep(s, "\\"), "quoteEscape", k, v, f)
         /\ ch \notin {"'", "\\"} => Reads(OptionStep(s, ch), "quote", k, Append(v, ch), f)
<1>1. OptionStep(s, "\\") = [s EXCEPT !.mode = "quoteEscape"]
  BY DEF Reads, OptionStep, InQuotes
<1>2. ch \notin {"'", "\\"} => OptionStep(s, ch) = [s EXCEPT !.val = Append(@, ch)]
  BY DEF Reads, OptionStep, InQuotes
<1> QED
  BY <1>1, <1>2 DEF Reads

LEMMA QuoteEscapeSteps ==
  ASSUME NEW s, NEW k, NEW v, NEW f, NEW ch, Reads(s, "quoteEscape", k, v, f)
  PROVE  Reads(OptionStep(s, ch), "quote", k, Append(v, ch), f)
<1>1. OptionStep(s, ch) = [s EXCEPT !.mode = "quote", !.val = Append(@, ch)]
  BY DEF Reads, OptionStep
<1> QED
  BY <1>1 DEF Reads

LEMMA QuoteEnds ==
  ASSUME NEW s, NEW k, NEW v, NEW f, Reads(s, "quote", k, v, f)
  PROVE  Reads(OptionStep(s, "'"), "start", <<>>, <<>>, Append(f, <<k, v>>))
<1>1. OptionStep(s, "'") = Store(s)
  BY DEF Reads, OptionStep, InQuotes
<1>2. Store(s) = [s EXCEPT !.mode = "start", !.key = <<>>, !.val = <<>>,
                           !.found = Append(@, <<s.key, s.val>>)]
  BY DEF Store
<1>3. Reads(OptionStep(s, "'"), "start", <<>>, <<>>, Append(f, <<s.key, s.val>>))
  BY <1>1, <1>2 DEF Reads
<1>4. s.key = k /\ s.val = v
  BY DEF Reads
<1> QED
  BY <1>3, <1>4, Zenon

\* parseOpts: an escaped value is read as it was.
LEMMA ValueIsRead ==
  ASSUME NEW pre \in Seq(Characters), NEW v \in Seq(Characters), NEW key, NEW f,
         Reads(OptionRun(pre), "quote", key, <<>>, f)
  PROVE  Reads(OptionRun(pre \o Escaped(v)), "quote", key, v, f)
<1> DEFINE n == Len(v)
           E(k) == Escaped(SubSeq(v, 1, k))
           G == {k \in 0 .. n : Reads(OptionRun(pre \o E(k)), "quote", key, SubSeq(v, 1, k), f)}
<1>1. n \in Nat
  OBVIOUS
<1>2. "\\" \in Characters
  BY WrittenCharacters
<1>3. 0 \in G
  <2>1. SubSeq(v, 1, 0) = <<>> /\ pre \o <<>> = pre
    OBVIOUS
  <2>2. E(0) = <<>>
    BY <2>1, ReplacedEmpty, Zenon DEF Escaped
  <2>3. Reads(OptionRun(pre \o E(0)), "quote", key, SubSeq(v, 1, 0), f)
    BY <2>1, <2>2, Zenon
  <2> HIDE DEF E
  <2> QED
    BY <1>1, <2>3
<1>4. ASSUME NEW k \in 1 .. n, k - 1 \in G
      PROVE  k \in G
  <2> DEFINE u == SubSeq(v, 1, k - 1)
             x == v[k]
             e == Escaped(u)
             t == pre \o e
             t1 == Append(t, "\\")
  <2>1. u \in Seq(Characters) /\ x \in Characters /\ SubSeq(v, 1, k) = Append(u, x)
    BY FirstElements
  <2>2. Reads(OptionRun(t), "quote", key, u, f)
    BY <1>4
  <2>3. k \in 0 .. n
    BY <1>1
  <2> HIDE DEF u, x
  <2>4. e \in Seq(Characters)
    BY <2>1, EscapedType, Zenon
  <2>5. E(k) = IF x \in {"\\", "'"} THEN Append(Append(e, "\\"), x) ELSE Append(e, x)
    BY <2>1, EscapedGrows, Zenon
  <2> HIDE DEF e
  <2>6. /\ t \in Seq(Characters) /\ t1 \in Seq(Characters)
        /\ pre \o Append(e, x) = Append(t, x)
        /\ pre \o Append(Append(e, "\\"), x) = Append(t1, x)
    <3>1. x \in Characters /\ e \in Seq(Characters)
      BY <2>1, <2>4
    <3>2. t \in Seq(Characters)
      BY <3>1, ConcatType, Zenon
    <3>3. \A a, b \in Seq(Characters) : \A y \in Characters : a \o Append(b, y) = Append(a \o b, y)
      <4> SUFFICES ASSUME NEW a \in Seq(Characters), NEW b \in Seq(Characters), NEW y \in Characters
                   PROVE  a \o Append(b, y) = Append(a \o b, y)
        OBVIOUS
      <4>1. a \o b \in Seq(Characters)
        OBVIOUS
      <4>2. Append(b, y) = b \o <<y>> /\ Append(a \o b, y) = (a \o b) \o <<y>>
        BY <4>1
      <4>3. a \o (b \o <<y>>) = (a \o b) \o <<y>>
        OBVIOUS
      <4> QED
        BY <4>2, <4>3, Zenon
    <3>4. t1 \in Seq(Characters) /\ Append(e, "\\") \in Seq(Characters)
      BY <1>2, <3>1, <3>2, AppendType, Zenon
    <3>5. pre \o Append(e, "\\") = t1
      BY <1>2, <3>1, <3>3, Zenon
    <3>6. pre \o Append(Append(e, "\\"), x) = Append(pre \o Append(e, "\\"), x)
      BY <3>1, <3>3, <3>4, Zenon
    <3>7. pre \o Append(e, x) = Append(t, x)
      BY <3>1, <3>3, Zenon
    <3> QED
      BY <3>2, <3>4, <3>5, <3>6, <3>7, Zenon
  <2> HIDE DEF t
  <2>7. CASE x \in {"\\", "'"}
    <3>1. OptionRun(t1) = OptionStep(OptionRun(t), "\\")
      BY <1>2, <2>6, OptionGrows, Zenon
    <3> HIDE DEF t1
    <3>2. OptionRun(Append(t1, x)) = OptionStep(OptionRun(t1), x)
      BY <2>1, <2>6, OptionGrows, Zenon
    <3>3. Reads(OptionRun(t1), "quoteEscape", key, u, f)
      BY <2>2, <3>1, QuoteSteps, Zenon
    <3>4. Reads(OptionRun(Append(t1, x)), "quote", key, Append(u, x), f)
      BY <3>2, <3>3, QuoteEscapeSteps, Zenon
    <3>5. Reads(OptionRun(pre \o E(k)), "quote", key, SubSeq(v, 1, k), f)
      BY <2>1, <2>5, <2>6, <2>7, <3>4, Zenon
    <3> QED
      BY <2>3, <3>5, Zenon
  <2>8. CASE x \notin {"\\", "'"}
    <3>1. OptionRun(Append(t, x)) = OptionStep(OptionRun(t), x)
      BY <2>1, <2>6, OptionGrows, Zenon
    <3>2. x \notin {"'", "\\"}
      BY <2>8
    <3>3. Reads(OptionRun(Append(t, x)), "quote", key, Append(u, x), f)
      BY <2>2, <3>1, <3>2, QuoteSteps, Zenon
    <3>4. Reads(OptionRun(pre \o E(k)), "quote", key, SubSeq(v, 1, k), f)
      BY <2>1, <2>5, <2>6, <2>8, <3>3, Zenon
    <3> QED
      BY <2>3, <3>4, Zenon
  <2> QED
    BY <2>7, <2>8, Zenon
<1>5. Reads(OptionRun(pre \o E(n)), "quote", key, SubSeq(v, 1, n), f)
  <2>1. n \in 0 .. n
    BY <1>1
  <2> HIDE DEF G, n
  <2>2. n \in G
    BY <1>1, <1>3, <1>4, <2>1, InductionUpTo
  <2> QED
    BY <2>2 DEF G
<1>6. SubSeq(v, 1, n) = v
  OBVIOUS
<1> QED
  BY <1>5, <1>6, Zenon

LEMMA ConcatAssoc ==
  ASSUME NEW a \in Seq(Characters), NEW b \in Seq(Characters), NEW c \in Seq(Characters)
  PROVE  a \o (b \o c) = (a \o b) \o c
OBVIOUS

LEMMA ThreeMore ==
  ASSUME NEW u \in Seq(Characters), NEW x \in Characters, NEW y \in Characters, NEW z \in Characters
  PROVE  /\ u \o <<x, y, z>> = Append(Append(Append(u, x), y), z)
         /\ <<x, y, z>> \in Seq(Characters)
OBVIOUS

\* A key has no character that ends it; an option follows a space, or is first.
IsKey(k) == k \in Characters /\ k \notin {" ", "="}
IsSeparator(sep) == sep = <<>> \/ sep = <<" ">>

\* What KVConnectionString writes for an option, after a space or nothing.
OptionText(sep, k, v) == sep \o <<k, "=", "'">> \o Escaped(v) \o <<"'">>

LEMMA OptionTextType ==
  ASSUME NEW sep \in Seq(Characters), NEW k \in Characters, NEW v \in Seq(Characters)
  PROVE  /\ OptionText(sep, k, v) \in Seq(Characters)
         /\ \A pre \in Seq(Characters) :
              pre \o OptionText(sep, k, v)
                = Append(Append(Append(Append(pre \o sep, k), "="), "'") \o Escaped(v), "'")
<1> DEFINE a == <<k, "=", "'">>
           e == Escaped(v)
           z == <<"'">>
<1>1. "=" \in Characters /\ "'" \in Characters
  BY WrittenCharacters
<1>2. a \in Seq(Characters) /\ z \in Seq(Characters)
  BY <1>1, ShortTexts, ThreeMore, Zenon
<1>3. e \in Seq(Characters)
  BY EscapedType, Zenon
<1>4. OptionText(sep, k, v) = ((sep \o a) \o e) \o z
  BY Zenon DEF OptionText
<1> HIDE DEF a, e, z
<1>5. sep \o a \in Seq(Characters)
  BY <1>2, ConcatType, Zenon
<1>6. (sep \o a) \o e \in Seq(Characters)
  BY <1>3, <1>5, ConcatType, Zenon
<1>7. ((sep \o a) \o e) \o z \in Seq(Characters)
  BY <1>2, <1>6, ConcatType, Zenon
<1>8. ASSUME NEW pre \in Seq(Characters)
      PROVE  pre \o OptionText(sep, k, v)
               = Append(Append(Append(Append(pre \o sep, k), "="), "'") \o Escaped(v), "'")
  <2>1. pre \o sep \in Seq(Characters)
    BY ConcatType, Zenon
  <2>2. pre \o (((sep \o a) \o e) \o z) = (pre \o ((sep \o a) \o e)) \o z
    BY <1>2, <1>6, ConcatAssoc, Zenon
  <2>3. pre \o ((sep \o a) \o e) = (pre \o (sep \o a)) \o e
    BY <1>3, <1>5, ConcatAssoc, Zenon
  <2>4. pre \o (sep \o a) = (pre \o sep) \o a
    BY <1>2, ConcatAssoc, Zenon
  <2>5. (pre \o sep) \o a = Append(Append(Append(pre \o sep, k), "="), "'")
    BY <1>1, <2>1, ThreeMore, Zenon DEF a
  <2> DEFINE w == pre \o ((sep \o a) \o e)
  <2>6. w \in Seq(Characters)
    BY <1>6, ConcatType, Zenon
  <2> HIDE DEF w
  <2>7. w \o z = Append(w, "'")
    BY <1>1, <2>6, AppendOne, Zenon DEF z
  <2>8. w = Append(Append(Append(pre \o sep, k), "="), "'") \o e
    BY <2>3, <2>4, <2>5, Zenon DEF w
  <2> QED
    BY <1>4, <2>2, <2>7, <2>8, Zenon DEF e, w
<1> QED
  BY <1>4, <1>7, <1>8, Zenon

\* parseOpts: an option is read as it was.
LEMMA OptionIsRead ==
  ASSUME NEW pre \in Seq(Characters), NEW sep, IsSeparator(sep), NEW k, IsKey(k),
         NEW v \in Seq(Characters), NEW f,
         Reads(OptionRun(pre), "start", <<>>, <<>>, f)
  PROVE  Reads(OptionRun(pre \o OptionText(sep, k, v)), "start", <<>>, <<>>,
               Append(f, << <<k>>, v>>))
<1> DEFINE q == pre \o sep
           q1 == Append(q, k)
           q2 == Append(q1, "=")
           q3 == Append(q2, "'")
           w == q3 \o Escaped(v)
<1>0. k \in Characters /\ k \notin {" ", "="}
  BY Zenon DEF IsKey
<1>1. "=" \in Characters /\ "'" \in Characters /\ " " \in Characters
  BY WrittenCharacters
<1>2. sep \in Seq(Characters)
  <2>1. <<>> \in Seq(Characters)
    OBVIOUS
  <2> QED
    BY <1>1, <2>1, ShortTexts, Zenon DEF IsSeparator
<1>3. pre \o OptionText(sep, k, v) = Append(w, "'")
  BY <1>0, <1>2, OptionTextType, Zenon
<1>4. q \in Seq(Characters)
  BY <1>2, ConcatType, Zenon
<1>5. Reads(OptionRun(q), "start", <<>>, <<>>, f)
  <2>1. CASE sep = <<>>
    <3>1. pre \o <<>> = pre
      OBVIOUS
    <3> QED
      BY <2>1, <3>1, Zenon
  <2>2. CASE sep = <<" ">>
    <3>1. q = Append(pre, " ")
      BY <1>1, <2>2, AppendOne, Zenon
    <3>2. OptionRun(q) = OptionStep(OptionRun(pre), " ")
      BY <1>1, <3>1, OptionGrows, Zenon
    <3>3. OptionStep(OptionRun(pre), " ") = OptionRun(pre)
      BY <1>0, KeySteps, Zenon
    <3> QED
      BY <3>2, <3>3, Zenon
  <2> QED
    BY <2>1, <2>2, Zenon DEF IsSeparator
<1> HIDE DEF q
<1>6. q1 \in Seq(Characters) /\ OptionRun(q1) = OptionStep(OptionRun(q), k)
  BY <1>0, <1>4, AppendType, OptionGrows, Zenon
<1>7. Reads(OptionRun(q1), "key", <<k>>, <<>>, f)
  BY <1>0, <1>5, <1>6, KeySteps, Zenon
<1> HIDE DEF q1
<1>8. q2 \in Seq(Characters) /\ OptionRun(q2) = OptionStep(OptionRun(q1), "=")
  BY <1>1, <1>6, AppendType, OptionGrows, Zenon
<1>9. Reads(OptionRun(q2), "equals", <<k>>, <<>>, f)
  BY <1>7, <1>8, EqualsSteps, Zenon
<1> HIDE DEF q2
<1>10. q3 \in Seq(Characters) /\ OptionRun(q3) = OptionStep(OptionRun(q2), "'")
  BY <1>1, <1>8, AppendType, OptionGrows, Zenon
<1>11. Reads(OptionRun(q3), "quote", <<k>>, <<>>, f)
  BY <1>9, <1>10, EqualsSteps, Zenon
<1> HIDE DEF q3
<1>12. Reads(OptionRun(w), "quote", <<k>>, v, f)
  BY <1>10, <1>11, ValueIsRead, Zenon
<1>13. w \in Seq(Characters)
  BY <1>10, EscapedType, ConcatType, Zenon
<1> HIDE DEF w
<1>14. OptionRun(Append(w, "'")) = OptionStep(OptionRun(w), "'")
  BY <1>1, <1>13, OptionGrows, Zenon
<1> QED
  BY <1>3, <1>12, <1>14, QuoteEnds, Zenon

\* parseOpts: the options of a key-value string, in their order.
LEMMA OptionsAreRead ==
  ASSUME NEW pairs \in Seq(Characters \X Seq(Characters)), NEW limit \in Nat,
         \A i \in 1 .. Len(pairs) : /\ IsKey(pairs[i][1])
                                    /\ Cardinality(Places(pairs[i][2], "\\")) <= limit
                                    /\ Cardinality(Places(pairs[i][2], "'")) <= limit
  PROVE  parseOpts(KVText(pairs, limit))
           = [i \in DOMAIN pairs |-> << <<pairs[i][1]>>, pairs[i][2]>>]
<1> DEFINE n == Len(pairs)
           Sep(i) == IF i = 1 THEN <<>> ELSE <<" ">>
           P == [i \in DOMAIN pairs |-> OptionText(Sep(i), pairs[i][1], pairs[i][2])]
           read == [i \in DOMAIN pairs |-> << <<pairs[i][1]>>, pairs[i][2]>>]
           text == KVText(pairs, limit)
           G == {k \in 0 .. n : Reads(OptionRun(Upto(<<>>, P, k)), "start", <<>>, <<>>,
                                      SubSeq(read, 1, k))}
<1>1. n \in Nat /\ DOMAIN pairs = 1 .. n /\ <<>> \in Seq(Characters)
  OBVIOUS
<1>2. \A i \in 1 .. n : pairs[i][1] \in Characters /\ pairs[i][2] \in Seq(Characters)
  OBVIOUS
<1>3. " " \in Characters
  BY WrittenCharacters
<1>4. \A i : Sep(i) \in Seq(Characters) /\ IsSeparator(Sep(i))
  BY <1>1, <1>3, ShortTexts, Zenon DEF IsSeparator
<1>5. text = FlattenSeq(P)
  <2>1. \A i \in DOMAIN pairs :
          (IF i = 1 THEN <<>> ELSE <<" ">>) \o <<pairs[i][1], "=", "'">>
             \o escapeForPostgres(pairs[i][2], limit) \o <<"'">>
          = OptionText(Sep(i), pairs[i][1], pairs[i][2])
    BY <1>1, <1>2, EscapesAll, Zenon DEF OptionText
  <2>2. [i \in DOMAIN pairs |->
          (IF i = 1 THEN <<>> ELSE <<" ">>) \o <<pairs[i][1], "=", "'">>
             \o escapeForPostgres(pairs[i][2], limit) \o <<"'">>] = P
    BY <2>1, Zenon
  <2> QED
    BY <2>2, Zenon DEF KVText
<1> HIDE DEF Sep
<1>6. P \in Seq(Seq(Characters)) /\ Len(P) = n
  <2>1. \A i \in 1 .. n : OptionText(Sep(i), pairs[i][1], pairs[i][2]) \in Seq(Characters)
    BY <1>2, <1>4, OptionTextType, Zenon
  <2> QED
    BY <1>1, <2>1
<1>7. \A i \in 1 .. n : P[i] = OptionText(Sep(i), pairs[i][1], pairs[i][2])
  BY <1>1
<1>8. read \in Seq(Seq(Seq(Characters))) /\ Len(read) = n
  <2>1. \A i \in 1 .. n : << <<pairs[i][1]>>, pairs[i][2]>> \in Seq(Seq(Characters))
    BY <1>2, ShortTexts, Zenon
  <2> QED
    BY <1>1, <2>1
<1>9. \A i \in 1 .. n : read[i] = << <<pairs[i][1]>>, pairs[i][2]>>
  BY <1>1
<1> HIDE DEF P, read, text
<1>10. 0 \in G
  <2>1. Upto(<<>>, P, 0) = <<>>
    BY <1>1, <1>6, UptoStarts, Zenon
  <2>2. SubSeq(read, 1, 0) = <<>>
    BY <1>8, FirstElements, Zenon
  <2>3. Reads(Options, "start", <<>>, <<>>, <<>>)
    BY DEF Reads, Options
  <2>4. Reads(OptionRun(Upto(<<>>, P, 0)), "start", <<>>, <<>>, SubSeq(read, 1, 0))
    BY <2>1, <2>2, <2>3, OptionStarts, Zenon
  <2> QED
    BY <1>1, <2>4
<1>11. ASSUME NEW k \in 1 .. n, k - 1 \in G
       PROVE  k \in G
  <2> DEFINE t == Upto(<<>>, P, k - 1)
             f == SubSeq(read, 1, k - 1)
  <2>1. t \in Seq(Characters) /\ Upto(<<>>, P, k) = t \o P[k]
    BY <1>1, <1>6, UptoGrows, Zenon
  <2>2. SubSeq(read, 1, k) = Append(f, read[k])
    BY <1>8, FirstElements, Zenon
  <2>3. Reads(OptionRun(t), "start", <<>>, <<>>, f)
    BY <1>11
  <2>4. k \in 0 .. n
    BY <1>1
  <2> HIDE DEF t, f
  <2>5. IsKey(pairs[k][1])
    BY Zenon
  <2>6. Reads(OptionRun(t \o OptionText(Sep(k), pairs[k][1], pairs[k][2])), "start", <<>>, <<>>,
              Append(f, << <<pairs[k][1]>>, pairs[k][2]>>))
    BY <1>2, <1>4, <2>1, <2>3, <2>5, OptionIsRead, Zenon
  <2>7. Reads(OptionRun(Upto(<<>>, P, k)), "start", <<>>, <<>>, SubSeq(read, 1, k))
    BY <1>7, <1>9, <2>1, <2>2, <2>6, Zenon
  <2> QED
    BY <2>4, <2>7, Zenon
<1>12. Reads(OptionRun(Upto(<<>>, P, n)), "start", <<>>, <<>>, SubSeq(read, 1, n))
  <2>1. n \in 0 .. n
    BY <1>1
  <2> HIDE DEF G, n
  <2>2. n \in G
    BY <1>1, <1>10, <1>11, <2>1, InductionUpTo
  <2> QED
    BY <2>2 DEF G
<1>13. SubSeq(read, 1, n) = read
  BY <1>8, FirstElements, Zenon
<1>14. Upto(<<>>, P, n) = text
  <2>1. FlattenSeq(P) \in Seq(Characters)
    BY <1>6, FlattenType, Zenon
  <2>2. \A u \in Seq(Characters) : <<>> \o u = u
    OBVIOUS
  <2>3. Upto(<<>>, P, n) = <<>> \o FlattenSeq(P)
    BY <1>6, UptoEnds, Zenon
  <2> QED
    BY <1>5, <2>1, <2>2, <2>3, Zenon
<1>15. OptionRun(text).mode = "start" /\ OptionRun(text).found = read
  BY <1>12, <1>13, <1>14, Zenon DEF Reads
<1> HIDE DEF n
<1>16. parseOpts(text) = read
  BY <1>15 DEF parseOpts
<1> QED
  BY <1>16, Zenon DEF text, read

\* v[key]: the value of the only option of that key, or none.
LEMMA GetOnly ==
  ASSUME NEW found, NEW key, NEW i \in Nat, i \in DOMAIN found,
         \A j \in DOMAIN found : found[j][1] = <<key>> <=> j = i
  PROVE  Get(found, key) = found[i][2]
<1>1. {j \in DOMAIN found : found[j][1] = <<key>>} = {i}
  BY Zenon
<1>2. Max({i}) = i
  BY DEF Max
<1>3. {i} # {}
  OBVIOUS
<1> QED
  BY <1>1, <1>2, <1>3, Zenon DEF Get

LEMMA GetNothing ==
  ASSUME NEW found, NEW key, \A j \in DOMAIN found : found[j][1] # <<key>>
  PROVE  Get(found, key) = <<>>
<1>1. {j \in DOMAIN found : found[j][1] = <<key>>} = {}
  BY Zenon
<1> QED
  BY <1>1, Zenon DEF Get

\* ConnStringKV: seven options with seven keys.
Keys ==
  <<"host", "database", "user", "password", "port", "sslmode", "client_encoding">>

LEMMA KeysAreDistinct ==
  /\ Keys[1] = "host" /\ Keys[2] = "database" /\ Keys[3] = "user" /\ Keys[5] = "port"
  /\ DOMAIN Keys = 1 .. 7
  /\ \A i, j \in 1 .. 7 : Keys[i] = Keys[j] => i = j
  /\ \A i \in 1 .. 7 : Keys[i] # "server" /\ Keys[i] # "user id"
BY DEF Keys

LEMMA KeysAreKeys == \A i \in 1 .. 7 : IsKey(Keys[i])
<1>1. Written \subseteq Characters
  BY ValuesAssumption, Zenon
<1>2. \A i \in 1 .. 7 : Keys[i] \in Written
  BY DEF Keys, Written
<1>3. \A i \in 1 .. 7 : Keys[i] # " " /\ Keys[i] # "="
  <2>1. \A i \in 1 .. 7 : Keys[i] \in {"host", "database", "user", "password", "port", "sslmode",
                                       "client_encoding"}
    BY DEF Keys
  <2> QED
    BY <2>1, Zenon
<1> QED
  BY <1>1, <1>2, <1>3, Zenon DEF IsKey

LEMMA PairsOfConnString ==
  ASSUME NEW cs \in ConnStrings
  PROVE  /\ kvPairs(cs) \in Seq(Characters \X Seq(Characters))
         /\ Len(kvPairs(cs)) = 7
         /\ DOMAIN kvPairs(cs) = 1 .. 7
         /\ \A i \in 1 .. 7 : kvPairs(cs)[i][1] = Keys[i]
         /\ kvPairs(cs)[1][2] = cs.host /\ kvPairs(cs)[2][2] = cs.database
         /\ kvPairs(cs)[3][2] = cs.user /\ kvPairs(cs)[5][2] = <<cs.port>>
<1> DEFINE mode == IF cs.sslMode = <<>> THEN <<"disable">> ELSE cs.sslMode
<1>1. Written \subseteq Characters
  BY ValuesAssumption, Zenon
<1>2. "disable" \in Characters /\ "UTF8" \in Characters
  BY <1>1 DEF Written
<1>3. cs \in [host : Seq(Characters), database : Seq(Characters), user : Seq(Characters),
              password : Seq(Characters), port : Characters, sslMode : Seq(Characters)]
  BY ValuesAssumption, Zenon
<1>4. /\ cs.host \in Seq(Characters) /\ cs.database \in Seq(Characters)
      /\ cs.user \in Seq(Characters) /\ cs.password \in Seq(Characters)
      /\ cs.port \in Characters /\ cs.sslMode \in Seq(Characters)
  BY <1>3
<1>5. /\ <<cs.port>> \in Seq(Characters) /\ <<"UTF8">> \in Seq(Characters)
      /\ mode \in Seq(Characters)
  BY <1>2, <1>4, ShortTexts, Zenon
<1>6. kvPairs(cs) =
        << <<"host", cs.host>>, <<"database", cs.database>>, <<"user", cs.user>>,
           <<"password", cs.password>>, <<"port", <<cs.port>> >>, <<"sslmode", mode>>,
           <<"client_encoding", <<"UTF8">> >> >>
  BY Zenon DEF kvPairs
<1> HIDE DEF mode
<1>7. /\ Len(kvPairs(cs)) = 7 /\ DOMAIN kvPairs(cs) = 1 .. 7
      /\ \A i \in 1 .. 7 : kvPairs(cs)[i][1] = Keys[i]
      /\ kvPairs(cs)[1][2] = cs.host /\ kvPairs(cs)[2][2] = cs.database
      /\ kvPairs(cs)[3][2] = cs.user /\ kvPairs(cs)[5][2] = <<cs.port>>
  BY <1>6 DEF Keys
<1>8. kvPairs(cs) \in Seq(Characters \X Seq(Characters))
  <2>1. \A i \in 1 .. 7 : Keys[i] \in Characters
    BY KeysAreKeys, Zenon DEF IsKey
  <2>3. \A i \in 1 .. 7 : kvPairs(cs)[i][2] \in Seq(Characters)
    <3>1. /\ kvPairs(cs)[4][2] = cs.password /\ kvPairs(cs)[6][2] = mode
          /\ kvPairs(cs)[7][2] = <<"UTF8">>
      BY <1>6
    <3>2. \A i \in 1 .. 7 : i = 1 \/ i = 2 \/ i = 3 \/ i = 4 \/ i = 5 \/ i = 6 \/ i = 7
      OBVIOUS
    <3> QED
      BY <1>4, <1>5, <1>7, <3>1, <3>2, Zenon
  <2>4. \A i \in 1 .. 7 : kvPairs(cs)[i] = <<kvPairs(cs)[i][1], kvPairs(cs)[i][2]>>
    BY <1>6
  <2>5. \A i \in 1 .. 7 : kvPairs(cs)[i] \in Characters \X Seq(Characters)
    <3>1. ASSUME NEW i \in 1 .. 7
          PROVE  kvPairs(cs)[i][1] \in Characters /\ kvPairs(cs)[i][2] \in Seq(Characters)
      BY <1>7, <2>1, <2>3, Zenon
    <3>2. ASSUME NEW i \in 1 .. 7
          PROVE  <<kvPairs(cs)[i][1], kvPairs(cs)[i][2]>> \in Characters \X Seq(Characters)
      <4> DEFINE x == kvPairs(cs)[i][1]
                 y == kvPairs(cs)[i][2]
      <4>1. x \in Characters /\ y \in Seq(Characters)
        BY <3>1, Zenon
      <4> HIDE DEF x, y
      <4>2. <<x, y>> \in Characters \X Seq(Characters)
        BY <4>1
      <4> QED
        BY <4>2, Zenon DEF x, y
    <3> QED
      BY <2>4, <3>2, Zenon
  <2>6. kvPairs(cs) = [i \in 1 .. 7 |-> kvPairs(cs)[i]]
    BY <1>6
  <2> DEFINE T == Characters \X Seq(Characters)
             p == kvPairs(cs)
  <2> HIDE DEF T, p
  <2>7. p = [i \in 1 .. 7 |-> p[i]] /\ \A i \in 1 .. 7 : p[i] \in T
    BY <2>5, <2>6, Zenon DEF T, p
  <2>8. p \in Seq(T)
    BY <2>7
  <2> QED
    BY <2>8, Zenon DEF T, p
<1> QED
  BY <1>7, <1>8, Zenon

LEMMA PairParts ==
  ASSUME NEW A, NEW B, NEW pairs \in Seq(A \X B), NEW i \in 1 .. Len(pairs)
  PROVE  pairs[i][1] \in A /\ pairs[i][2] \in B
OBVIOUS

LEMMA OneAndOne ==
  ASSUME NEW x, NEW y
  PROVE  /\ <<x>> # <<>>
         /\ <<x>> \o <<y>> = <<x, y>>
         /\ <<x>> = <<y>> => x = y
<1>1. <<x>> # <<>> /\ (<<x>> = <<y>> => x = y)
  OBVIOUS
<1>2. <<x>> \o <<y>> = Append(<<x>>, y)
  <2>1. <<x>> \in Seq({x, y}) /\ y \in {x, y}
    OBVIOUS
  <2> QED
    BY <2>1, AppendOne, Zenon
<1>3. Append(<<x>>, y) = <<x, y>>
  <2> DEFINE S == {x, y}
             a == Append(<<x>>, y)
             b == <<x, y>>
  <2>1. <<x>> \in Seq(S) /\ y \in S /\ Len(<<x>>) = 1 /\ <<x>>[1] = x
    OBVIOUS
  <2>2. a \in Seq(S) /\ Len(a) = 2 /\ a[1] = x /\ a[2] = y
    <3> HIDE DEF S
    <3> QED
      BY <2>1
  <2>3. b \in Seq(S) /\ Len(b) = 2 /\ b[1] = x /\ b[2] = y
    OBVIOUS
  <2> HIDE DEF S, a, b
  <2>4. \A i \in 1 .. 2 : a[i] = b[i]
    BY <2>2, <2>3
  <2>5. a = b
    BY <2>2, <2>3, <2>4
  <2> QED
    BY <2>5, Zenon DEF a, b
<1> QED
  BY <1>1, <1>2, <1>3, Zenon

LEMMA ConnStringIsRead ==
  ASSUME NEW cs \in ConnStrings
  PROVE  parseOpts(KVConnectionString(cs, EscapeLimit))
           = [i \in DOMAIN kvPairs(cs) |-> << <<kvPairs(cs)[i][1]>>, kvPairs(cs)[i][2]>>]
<1> DEFINE pairs == kvPairs(cs)
<1>1. EscapeLimit \in Nat
  BY ValuesAssumption, Zenon
<1>2. \A i \in 1 .. 7 : /\ Cardinality(Places(pairs[i][2], "\\")) <= EscapeLimit
                         /\ Cardinality(Places(pairs[i][2], "'")) <= EscapeLimit
  BY ValuesAssumption, Zenon DEF AllEscaped
<1>3. \A i \in 1 .. 7 : IsKey(pairs[i][1])
  BY PairsOfConnString, KeysAreKeys, Zenon
<1>4. pairs \in Seq(Characters \X Seq(Characters)) /\ Len(pairs) = 7
  BY PairsOfConnString, Zenon
<1>5. KVConnectionString(cs, EscapeLimit) = KVText(pairs, EscapeLimit)
  BY Zenon DEF KVConnectionString
<1> HIDE DEF pairs
<1>6. parseOpts(KVText(pairs, EscapeLimit))
        = [i \in DOMAIN pairs |-> << <<pairs[i][1]>>, pairs[i][2]>>]
  BY <1>1, <1>2, <1>3, <1>4, OptionsAreRead, Zenon
<1> QED
  BY <1>5, <1>6, Zenon DEF pairs

LEMMA DSNIsParsed ==
  ASSUME NEW cs \in ConnStrings
  PROVE  parseDSN(KVConnectionString(cs, EscapeLimit))
           = [host |-> cs.host \o <<":", cs.port>>, db |-> cs.database, user |-> cs.user]
<1> DEFINE pairs == kvPairs(cs)
           found == [i \in DOMAIN pairs |-> << <<pairs[i][1]>>, pairs[i][2]>>]
           text == KVConnectionString(cs, EscapeLimit)
<1>1. parseOpts(text) = found
  BY ConnStringIsRead, Zenon
<1>2. /\ pairs \in Seq(Characters \X Seq(Characters)) /\ Len(pairs) = 7
      /\ DOMAIN pairs = 1 .. 7 /\ \A i \in 1 .. 7 : pairs[i][1] = Keys[i]
      /\ pairs[1][2] = cs.host /\ pairs[2][2] = cs.database
      /\ pairs[3][2] = cs.user /\ pairs[5][2] = <<cs.port>>
  BY PairsOfConnString, Zenon
<1> HIDE DEF pairs, text
<1>3. DOMAIN found = 1 .. 7
  BY <1>2
<1>4. \A i \in 1 .. 7 : found[i][1] = <<Keys[i]>> /\ found[i][2] = pairs[i][2]
  BY <1>2
<1>5. found # Failed
  <2>1. \A i \in 1 .. 7 : pairs[i][1] \in Characters /\ pairs[i][2] \in Seq(Characters)
    BY <1>2, PairParts, Zenon
  <2>2. \A i \in 1 .. 7 : << <<pairs[i][1]>>, pairs[i][2]>> \in Seq(Seq(Characters))
    BY <2>1, ShortTexts, Zenon
  <2>3. found \in Seq(Seq(Seq(Characters)))
    BY <1>2, <2>2
  <2> QED
    BY <2>3, ResultsAssumption, Zenon
<1> HIDE DEF found
<1>7. ASSUME NEW i \in 1 .. 7
      PROVE  Get(found, Keys[i]) = pairs[i][2]
  <2>1. i \in Nat
    OBVIOUS
  <2>2. \A j \in 1 .. 7 : found[j][1] = <<Keys[i]>> <=> j = i
    <3> SUFFICES ASSUME NEW j \in 1 .. 7
                 PROVE  found[j][1] = <<Keys[i]>> <=> j = i
      OBVIOUS
    <3>1. found[j][1] = <<Keys[j]>>
      BY <1>4, Zenon
    <3>2. <<Keys[j]>> = <<Keys[i]>> => Keys[j] = Keys[i]
      BY OneAndOne, Zenon
    <3>3. Keys[j] = Keys[i] => j = i
      BY KeysAreDistinct, Zenon
    <3> QED
      BY <3>1, <3>2, <3>3, Zenon
  <2>3. Get(found, Keys[i]) = found[i][2]
    BY <1>3, <2>1, <2>2, GetOnly, Zenon
  <2> QED
    BY <1>4, <2>3, Zenon
<1>8. Get(found, "host") = cs.host /\ Get(found, "database") = cs.database
  <2>1. 1 \in 1 .. 7 /\ 2 \in 1 .. 7
    OBVIOUS
  <2> QED
    BY <1>2, <1>7, <2>1, KeysAreDistinct, Zenon
<1>9. Get(found, "user") = cs.user /\ Get(found, "port") = <<cs.port>>
  <2>1. 3 \in 1 .. 7 /\ 5 \in 1 .. 7
    OBVIOUS
  <2> QED
    BY <1>2, <1>7, <2>1, KeysAreDistinct, Zenon
<1>10. Get(found, "server") = <<>> /\ Get(found, "user id") = <<>>
  <2>1. \A j \in 1 .. 7 : found[j][1] # <<"server">> /\ found[j][1] # <<"user id">>
    <3> SUFFICES ASSUME NEW j \in 1 .. 7
                 PROVE  found[j][1] # <<"server">> /\ found[j][1] # <<"user id">>
      BY Zenon
    <3>1. found[j][1] = <<Keys[j]>> /\ Keys[j] # "server" /\ Keys[j] # "user id"
      BY <1>4, KeysAreDistinct, Zenon
    <3>2. \A x : <<Keys[j]>> = <<x>> => Keys[j] = x
      BY OneAndOne, Zenon
    <3> QED
      BY <3>1, <3>2, Zenon
  <2> QED
    BY <1>3, <2>1, GetNothing, Zenon
<1>11. <<cs.port>> # <<>> /\ <<":">> \o <<cs.port>> = <<":", cs.port>>
  BY OneAndOne, Zenon
<1>12. (IF Get(found, "host") # <<>> THEN Get(found, "host") ELSE Get(found, "server")) = cs.host
  BY <1>8, <1>10, Zenon
<1>13. (IF Get(found, "user") # <<>> THEN Get(found, "user") ELSE Get(found, "user id")) = cs.user
  BY <1>9, <1>10, Zenon
<1>14. (IF Get(found, "port") = <<>> THEN <<>> ELSE <<":">> \o Get(found, "port")) = <<":", cs.port>>
  BY <1>9, <1>11, Zenon
<1>15. parseDSN(text) = [host |-> cs.host \o <<":", cs.port>>, db |-> cs.database, user |-> cs.user]
  BY <1>1, <1>5, <1>8, <1>12, <1>13, <1>14, Zenon DEF parseDSN
<1> QED
  BY <1>15, Zenon DEF text

\* parseOpts and parseDSN read back what KVConnectionString writes: for
\* values of any characters, as long as escapeForPostgres escapes them all.
THEOREM ConnStringsAreReadBack == Spec => []ConnStringSurvives
<1>1. ConnStringSurvives
  BY ConnStringIsRead, DSNIsParsed, Zenon DEF ConnStringSurvives
<1> QED
  BY <1>1, PTL
=============================================================================
