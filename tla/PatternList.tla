---------------------------- MODULE PatternList ----------------------------
(***************************************************************************)
(* How Manager.parseConfig (internal/resttooling/ratelimiter/v2/           *)
(* rate_limiter.go) builds its list of patterns: the paths of the          *)
(* configuration, a Go map, come in any order, and each one is compared    *)
(* with the patterns already in the list and inserted before the first one *)
(* that it is more specific than.  A conflict, a string that is no pattern *)
(* or a panic of the comparison ends the parse where it is, and leaves the *)
(* list as it is.                                                          *)
(***************************************************************************)
EXTENDS PathPattern

CONSTANTS
  Paths,      \* the keys that Config.Paths may have: patterns, and strings
  Malformed,  \* that newPattern refuses
  MaxPaths    \* bound: paths of one configuration

ASSUME PathsAssumption == Malformed \subseteq Paths /\ Paths \ Malformed \subseteq Patterns

VARIABLES
  todo,      \* paths the range over cfg.Paths has not visited
  patterns,  \* Manager.patterns
  limiters,  \* Manager.limiters; a limiter is named by the path it is for
  status     \* of parseConfig: "parsing", "loaded" or "failed"

listVars == <<todo, patterns, limiters, status>>

ListTypeOK ==
  /\ todo \subseteq Paths
  /\ patterns \in Seq(Paths)
  /\ limiters \in Seq(Paths)
  /\ status \in {"parsing", "loaded", "failed"}

ListInit ==
  /\ todo \in {{}} \cup {{f[i] : i \in 1..MaxPaths} : f \in [1..MaxPaths -> Paths]}
  /\ patterns = << >>
  /\ limiters = << >>
  /\ status = "parsing"

-----------------------------------------------------------------------------
Conflicts == {"equivalent", "overlaps"}

\* Mutant: patterns that overlap are not a conflict.
RefusedOnlyEquivalent(p) ==
  \/ p \in Malformed
  \/ \E i \in DOMAIN patterns : comparePathsAndMethods(p, patterns[i]) \in {"equivalent", "panic"}

\* The path cannot be added to the list.
Refused(p) ==
  \/ p \in Malformed
  \/ \E i \in DOMAIN patterns : comparePathsAndMethods(p, patterns[i]) \in Conflicts \cup {"panic"}

IsBefore(p, i) == comparePathsAndMethods(p, patterns[i]) = "moreSpecific"

\* Mutant: insertionIndex is not kept once it is set, so the last one wins.
LastInsertionIndex(p, at) ==
  /\ at \in DOMAIN patterns => IsBefore(p, at)
  /\ \A i \in DOMAIN patterns : i > at => ~IsBefore(p, i)
  /\ at = Len(patterns) + 1 => \A i \in DOMAIN patterns : ~IsBefore(p, i)

\* The index of the first pattern that p is more specific than, or the end
\* of the list when there is none.
insertionIndex(p, at) ==
  /\ at \in DOMAIN patterns => IsBefore(p, at)
  /\ \A i \in DOMAIN patterns : i < at => ~IsBefore(p, i)

\* append, copy and the assignment.
Insert(s, at, x) ==
  [i \in 1..(Len(s) + 1) |-> IF i < at THEN s[i]
                             ELSE IF i = at THEN x ELSE s[i - 1]]

AddPattern(p) ==
  /\ status = "parsing"
  /\ p \in todo
  /\ ~Refused(p)
  /\ todo' = todo \ {p}
  /\ \E at \in 1..(Len(patterns) + 1) :
       /\ insertionIndex(p, at)
       /\ patterns' = Insert(patterns, at, p)
       /\ limiters' = Insert(limiters, at, p)
  /\ UNCHANGED status

RefusePattern(p) ==
  /\ status = "parsing"
  /\ p \in todo
  /\ Refused(p)
  /\ status' = "failed"
  /\ UNCHANGED <<todo, patterns, limiters>>

FinishParse ==
  /\ status = "parsing"
  /\ todo = {}
  /\ status' = "loaded"
  /\ UNCHANGED <<todo, patterns, limiters>>

ListNext ==
  \/ \E p \in Paths : AddPattern(p) \/ RefusePattern(p)
  \/ FinishParse

ListSpec == ListInit /\ [][ListNext]_listVars

-----------------------------------------------------------------------------
\* rate_limiter.go:30 ("most specific patterns are first"): no pattern comes
\* after one that it is more specific than, in whatever order the map gave
\* them and also in the list that a failed parse leaves behind.
MostSpecificFirst ==
  \A i, j \in DOMAIN patterns :
    i < j => comparePathsAndMethods(patterns[j], patterns[i]) # "moreSpecific"

MatchingAt(r) == {i \in DOMAIN patterns : match(patterns[i], r)}
PanickingAt(r) == {i \in DOMAIN patterns : matchPanics(patterns[i], r)}

\* Manager.Allow takes the limiter of the first pattern that matches: unless
\* the pattern "/" stands before it and match panics there, it is the most
\* specific one of all patterns in the list that match the request.
FirstMatchIsMostSpecific ==
  status # "parsing" => \A r \in Requests : \A first \in MatchingAt(r) :
    (\A i \in MatchingAt(r) \cup PanickingAt(r) : first <= i) =>
      \A j \in MatchingAt(r) \ {first} :
        TrueRelation[patterns[first]][patterns[j]] = "moreSpecific"

\* rate_limiter.go:32: the nth limiter corresponds to the nth pattern.
LimiterOfPattern == limiters = patterns
=============================================================================
