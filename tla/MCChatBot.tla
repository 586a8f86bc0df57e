------------------------------ MODULE MCChatBot -----------------------------
(***************************************************************************)
(* A small instance of the bot, and of the concurrent search of a question *)
(* in it.  The two share no variable: a behaviour is one of the bot or of  *)
(* a search, the variables of the other keeping an initial value.          *)
(***************************************************************************)
EXTENDS ChatBot, ParallelSearch, TLC

CONSTANTS d1, d2

VARIABLE part  \* "bot" or "search"

-----------------------------------------------------------------------------
Msg(id, type, reply) == [id |-> id, type |-> type, reply |-> reply]

\* Two threads with answers, one without, a service message and an answer to
\* a message that was deleted.
MCExport ==
  <<Msg(1, "message", 0), Msg(2, "message", 0), Msg(3, "service", 1), Msg(4, "message", 1),
    Msg(5, "message", 2), Msg(6, "message", 9), Msg(7, "message", 0)>>

\* Every export of four messages.
MCInputs ==
  {[i \in 1 .. 4 |-> Msg(i, "message", f[i])] : f \in [1 .. 4 -> 0 .. 5]}

Tg(id, sender, chat, kind) == [id |-> id, sender |-> sender, chat |-> chat, kind |-> kind]

\* One sender asks twice and wants an explanation, as others ask and wait.
MCMessages ==
  {Tg(1, 1, "private", "text"), Tg(2, 1, "private", "text"), Tg(3, 1, "private", "explain"),
   Tg(4, 2, "public", "mention"), Tg(5, 2, "private", "help")}

MCScenarios ==
  {[rows |-> << >>, dumps |-> {d1, d2}, messages |-> {}],
   [rows |-> <<1>>, dumps |-> {}, messages |-> MCMessages]}

\* The loads are alike, and so are the ranges of a search.
MCSymmetry == Permutations(Dumps) \cup Permutations(Ranges)

-----------------------------------------------------------------------------
MCInit ==
  /\ part \in {"bot", "search"}
  /\ Init /\ SearchInit
  /\ part = "bot" => served = "completion"
  /\ part = "search" => rows # << >>

MCNext ==
  \/ part = "bot" /\ Next /\ UNCHANGED <<part, searchVars>>
  \/ part = "search" /\ SearchNext /\ UNCHANGED <<part, vars>>

MCSpec == MCInit /\ [][MCNext]_<<part, vars, searchVars>>
=============================================================================
