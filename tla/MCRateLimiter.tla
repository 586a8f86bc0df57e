--------------------------- MODULE MCRateLimiter ---------------------------
(***************************************************************************)
(* The three parts of the rate limiters for model checking: the windows of *)
(* a key under concurrent calls, the list of patterns that a configuration *)
(* is parsed into, and the manager whose configuration is watched.  They   *)
(* share no variable, and a behaviour is one of a single part, the         *)
(* variables of the others keeping one initial value.                      *)
(*                                                                         *)
(* The calls of the windows are symmetric.  The only fair actions and the  *)
(* only liveness property are those of the manager, whose states no        *)
(* permutation of Calls changes, so the reduction does not touch them.     *)
(***************************************************************************)
EXTENDS FixedWindow, PatternList, ConfigWatch, TLC

CONSTANTS good1, good2, bad, p1, p2, p3

VARIABLE part  \* "windows", "list" or "manager"

-----------------------------------------------------------------------------
\* A short and a long window.  The overrides: one that raises limits and has a
\* window too many, one with a window too few that lowers a limit, and one that
\* shortens the long window.
Window(limit, duration) == [limit |-> limit, duration |-> duration]

MCTwoWindows == <<Window(1, 1), Window(2, 3)>>
MCOverrides ==
  {<<Window(2, 1), Window(3, 3), Window(9, 4)>>, <<Window(0, 1)>>,
   <<Window(2, 1), Window(1, 1)>>}

MCSymmetry == Permutations(Calls)

\* All patterns with up to two segments over two literals, with and without a
\* method.  Strings that newPattern refuses are represented by one of them,
\* and a second spelling of the one-segment patterns is enough for conflicts.
BadPath == [method |-> "bad", segments |-> <<Multi, One>>, spelling |-> 1]
MCPaths == {p \in Patterns :
              p.spelling = 2 => Len(p.segments) = 1 /\ p.method = AnyMethod}
           \cup {BadPath}
MCMalformed == {BadPath}

\* Two configurations that parse and one that does not.
MCConfigs == {good1, good2, bad}
MCPathsOf ==
  [c \in MCConfigs |-> CASE c = good1 -> {p1}
                         [] c = good2 -> {p1, p2}
                         [] c = bad   -> {p1, p2, p3}]
MCBadPaths == {p3}

-----------------------------------------------------------------------------
MCInit ==
  /\ part \in {"windows", "list", "manager"}
  /\ Init /\ ListInit /\ WatchInit
  /\ part # "list" => todo = {}
  /\ part # "manager" => kind = "v1" /\ source = Unreadable

MCNext ==
  \/ part = "windows" /\ Next /\ UNCHANGED <<part, listVars, watchVars>>
  \/ part = "list" /\ ListNext /\ UNCHANGED <<part, vars, watchVars>>
  \/ part = "manager" /\ WatchNext /\ UNCHANGED <<part, vars, listVars>>

MCSpec == MCInit /\ [][MCNext]_<<part, vars, listVars, watchVars>> /\ Fairness
=============================================================================
