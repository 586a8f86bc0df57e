---------------------------- MODULE PathPattern ----------------------------
(***************************************************************************)
(* The path patterns of internal/resttooling/ratelimiter/v2/pattern.go:    *)
(* which requests a pattern matches, and how two patterns compare.         *)
(*                                                                         *)
(* A pattern is what newPattern makes of a string it accepts: an optional  *)
(* method and a sequence of segments, each a literal, an identifier "{}"   *)
(* or, at the end only, an identifier "{...}" that takes all remaining     *)
(* segments.  The names of identifiers tell nothing apart and are left     *)
(* out; two strings with one meaning ("/a" and "/a/") are told apart by    *)
(* their spelling.  The pattern "/" has no segment at all.                 *)
(***************************************************************************)
EXTENDS Integers, Sequences, FiniteSets

CONSTANTS
  Literals,     \* segment texts that patterns use
  Methods,      \* methods that patterns use
  Spellings,    \* ways to write one pattern
  MaxSegments   \* bound: segments of a pattern

\* Stand-ins for a segment text and a method that no pattern mentions.
OtherText == "other"
OtherMethod == "OTHER"
AnyMethod == ""
One == "{}"
Multi == "{...}"
Identifiers == {One, Multi}

\* A segment that contains a brace is an identifier or refused, and
\* validateMethod knows six methods, the empty string not among them.
ASSUME PatternAssumption ==
  /\ MaxSegments \in Nat
  /\ Literals \cap (Identifiers \cup {OtherText}) = {}
  /\ Methods \cap {AnyMethod, OtherMethod} = {}

SeqsOf(S, n) == [1..n -> S]

\* "{...} identifier not at the end" is refused by newPattern.
SegmentsOf(n) ==
  {s \in SeqsOf(Literals \cup Identifiers, n) : \A i \in 1..(n - 1) : s[i] # Multi}

Patterns ==
  [method : Methods \cup {AnyMethod},
   segments : UNION {SegmentsOf(n) : n \in 0..MaxSegments},
   spelling : Spellings]

\* What Manager.Allow makes of a request: the method and the path split at
\* its slashes, which has at least one segment.
Requests ==
  [method : Methods \cup {OtherMethod},
   segments : UNION {SeqsOf(Literals \cup {OtherText}, n) : n \in 1..(MaxSegments + 1)}]

-----------------------------------------------------------------------------
inverseRelationship(r) ==
  CASE r = "moreSpecific" -> "moreGeneral"
    [] r = "moreGeneral"  -> "moreSpecific"
    [] OTHER              -> r

combineRelationships(r1, r2) ==
  CASE r1 = "equivalent" -> r2
    [] r1 = "disjoint"   -> "disjoint"
    [] r1 = "overlaps"   -> IF r2 = "disjoint" THEN "disjoint" ELSE "overlaps"
    [] OTHER             -> CASE r2 = "equivalent"              -> r1
                              [] r2 = inverseRelationship(r1)   -> "overlaps"
                              [] OTHER                          -> r2

\* compareMethods and compareSegments have one shape: what is equal is
\* equivalent, and a wildcard is more general than the rest.
compareMethods(p, p2) ==
  IF p.method = p2.method THEN "equivalent"
  ELSE IF p.method = AnyMethod THEN "moreGeneral"
  ELSE IF p2.method = AnyMethod THEN "moreSpecific"
  ELSE "disjoint"

compareSegments(s1, s2) ==
  IF s1 = s2 THEN "equivalent"
  ELSE IF s1 = Multi THEN "moreGeneral"
  ELSE IF s2 = Multi THEN "moreSpecific"
  ELSE IF s1 = One THEN "moreGeneral"
  ELSE IF s2 = One THEN "moreSpecific"
  ELSE "disjoint"

\* lastSegment indexes an empty slice, and panics, for the pattern "/".
Panic == "panic"
hasSegments(p) == p.segments # << >>
lastSegment(p) == p.segments[Len(p.segments)]
endsInMulti(p) == lastSegment(p) = Multi

\* The loop of comparePaths over corresponding segments.  It leaves the loop
\* at the first disjoint one, which combineRelationships absorbs anyway.
compareCommon(p, p2) ==
  LET n == IF Len(p.segments) <= Len(p2.segments) THEN Len(p.segments)
                                                  ELSE Len(p2.segments)
      rel[i \in 0..n] ==
        IF i = 0 THEN "equivalent"
        ELSE combineRelationships(rel[i - 1],
                                  compareSegments(p.segments[i], p2.segments[i]))
  IN  rel[n]

\* The two reads of lastSegment in the length test panic in this order: the
\* one of p2 is reached only when p has a last segment that is not a multi.
lengthTestPanics(p, p2) ==
  /\ Len(p.segments) # Len(p2.segments)
  /\ \/ ~hasSegments(p)
     \/ ~endsInMulti(p) /\ ~hasSegments(p2)

\* A longer pattern against one without segments: the loop does nothing and
\* the shorter one is asked for its last segment.
tailPanics(p, p2) ==
  \/ Len(p.segments) < Len(p2.segments) /\ ~hasSegments(p)
  \/ Len(p2.segments) < Len(p.segments) /\ ~hasSegments(p2)

comparePaths(p, p2) ==
  LET n == Len(p.segments)
      n2 == Len(p2.segments)
      rel == compareCommon(p, p2)
  IN  IF lengthTestPanics(p, p2) THEN Panic
      ELSE IF n # n2 /\ ~endsInMulti(p) /\ ~endsInMulti(p2) THEN "disjoint"
      ELSE IF rel = "disjoint" \/ n = n2 THEN rel
      ELSE IF tailPanics(p, p2) THEN Panic
      ELSE IF n < n2 /\ endsInMulti(p) THEN combineRelationships(rel, "moreGeneral")
      ELSE IF n2 < n /\ endsInMulti(p2) THEN combineRelationships(rel, "moreSpecific")
      ELSE "disjoint"

comparePathsAndMethods(p, p2) ==
  LET mrel == compareMethods(p, p2)
      prel == comparePaths(p, p2)
  IN  IF mrel = "disjoint" THEN "disjoint"
      ELSE IF prel = Panic THEN Panic
      ELSE combineRelationships(mrel, prel)

-----------------------------------------------------------------------------
\* match asks a pattern for its last segment when the lengths differ.
matchPanics(p, r) ==
  /\ p.method \in {AnyMethod, r.method}
  /\ ~hasSegments(p)

\* The method, the number of segments, then every literal up to a multi.
match(p, r) ==
  LET n == Len(p.segments)
  IN  /\ p.method \in {AnyMethod, r.method}
      /\ hasSegments(p)
      /\ Len(r.segments) = n \/ (endsInMulti(p) /\ Len(r.segments) > n)
      /\ \A i \in 1..n : \/ p.segments[i] \in Identifiers
                         \/ r.segments[i] = p.segments[i]

-----------------------------------------------------------------------------
(* The reference: patterns as the sets of requests that they match.        *)

Matched == [p \in Patterns |-> {r \in Requests : match(p, r)}]

\* The relationship of two sets of requests, by the comments on the values
\* of relationship.
SetRelation(P, Q) ==
  IF P = Q THEN "equivalent"
  ELSE IF P \cap Q = {} THEN "disjoint"
  ELSE IF P \subseteq Q THEN "moreSpecific"
  ELSE IF Q \subseteq P THEN "moreGeneral"
  ELSE "overlaps"

\* The true relationship of two patterns.
TrueRelation ==
  [p \in Patterns |-> [q \in Patterns |-> SetRelation(Matched[p], Matched[q])]]
=============================================================================
