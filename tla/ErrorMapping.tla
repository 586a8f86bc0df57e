---------------------------- MODULE ErrorMapping ----------------------------
(***************************************************************************)
(* What the error packages make of an error: its semantics, its status,    *)
(* the HTTP code of each of the two presenters of internal/openapiapp, and *)
(* whether Sentry hears of it.                                             *)
(*                                                                         *)
(* An error is a chain of wrappers around one leaf, or around the join of  *)
(* two.  Its nodes are listed in the order errors.Is and errors.As visit   *)
(* them; spine counts the nodes that are not inside the join.  A node has  *)
(* a type and a value; messages and stack traces are left out.             *)
(***************************************************************************)
EXTENDS Integers, Sequences, FiniteSets

Node(type, value) == [type |-> type, value |-> value]

Semantics ==
  {"Unknown", "NotImplemented", "Unavailable", "InvalidInput", "Timeout", "Internal",
   "Authentication", "Forbidden", "FailedPrecondition", "NotFound", "AlreadyExists",
   "Canceled", "Unprocessable", "NotAcceptable", "ResourceLocked", "TooManyRequests",
   "SkipError", "PartialSuccess"}

Codes ==
  {"Unknown", "Canceled", "InvalidArgument", "DeadlineExceeded", "NotFound", "AlreadyExists",
   "PermissionDenied", "TooManyRequests", "FailedPrecondition", "Aborted", "Unimplemented",
   "Internal", "Unavailable", "Unauthenticated", "Unprocessable", "NotAcceptable", "Locked"}

\* newError and wrapError of semerr, New of status, codeerr and clouderr.
SemanticNode(s) == Node("semerr", s)
StatusNode(c) == Node("status", c)
CodeNode == Node("codeerr", "")
FieldsNode == Node("fields", "")

Ogen == {"security", "decodeParams", "decodeRequest", "ogenOther"}
Foreign == {"canceled", "deadline", "dnsCanceled", "pgConnection", "pgOther", "reset", "refused",
            "epipe", "timeout", "skipSentry", "abort", "value", "plain"} \cup Ogen

WrapperTypes == {"semerr", "status", "codeerr", "fields"}

Nodes == [type : WrapperTypes \cup Foreign, value : Semantics \cup Codes \cup {""}]

\* An error as errors are made: nothing but a wrapper has nodes below it, and
\* a codeerr and a clouderr always have.
IsError(err) ==
  /\ err.nodes \in Seq(Nodes)
  /\ err.spine \in 0 .. Len(err.nodes)
  /\ \A i \in 1 .. Len(err.nodes) :
       /\ err.nodes[i].type = "semerr" => err.nodes[i].value \in Semantics
       /\ err.nodes[i].type = "status" => err.nodes[i].value \in Codes
       /\ err.nodes[i].type \in {"codeerr", "fields"} => i <= err.spine /\ i < Len(err.nodes)
       /\ i <= err.spine /\ i < Len(err.nodes) => err.nodes[i].type \in WrapperTypes

Leaf(node) == [nodes |-> <<node>>, spine |-> 1]
Wrap(node, err) == [nodes |-> <<node>> \o err.nodes, spine |-> err.spine + 1]
Join(a, b) == [nodes |-> <<a, b>>, spine |-> 0]

\* errors.As: the first node of one of the types; 0 if there is none.
As(err, types) ==
  LET hits == {i \in DOMAIN err.nodes : err.nodes[i].type \in types} IN
  IF hits = {} THEN 0 ELSE CHOOSE i \in hits : \A j \in hits : i <= j

Is(err, type) == As(err, {type}) # 0

\* The error that starts at node i: a joined error has only itself below it.
From(err, i) ==
  IF i <= err.spine
  THEN [nodes |-> SubSeq(err.nodes, i, Len(err.nodes)), spine |-> err.spine - i + 1]
  ELSE Leaf(err.nodes[i])

\* What the wrapper at node i wraps.
Below(err, i) == [nodes |-> SubSeq(err.nodes, i + 1, Len(err.nodes)), spine |-> err.spine - i]

-----------------------------------------------------------------------------
\* internal/semerr

AsSemanticError(err) == As(err, {"semerr"})
Semantic(err) == err.nodes[AsSemanticError(err)].value
IsSemanticError(err, s) == AsSemanticError(err) # 0 /\ Semantic(err) = s

\* The value of a panic as an error: anything but an error is an Internal one.
UnwrapPanic(p) == IF Is(p, "value") THEN Leaf(SemanticNode("Internal")) ELSE p

-----------------------------------------------------------------------------
\* internal/status

\* Tables that are total on the semantics and the codes they translate; a
\* semantics without a code is left to the next translation.
codeFromSemantic ==
  [s \in Semantics |->
     CASE s = "AlreadyExists" -> "AlreadyExists"
       [] s = "Authentication" -> "Unauthenticated"
       [] s = "Canceled" -> "Canceled"
       [] s = "FailedPrecondition" -> "FailedPrecondition"
       [] s = "Forbidden" -> "PermissionDenied"
       [] s = "Internal" -> "Internal"
       [] s = "InvalidInput" -> "InvalidArgument"
       [] s = "NotFound" -> "NotFound"
       [] s = "NotImplemented" -> "Unimplemented"
       [] s = "ResourceLocked" -> "Locked"
       [] s = "TooManyRequests" -> "TooManyRequests"
       [] s = "Timeout" -> "DeadlineExceeded"
       [] s = "Unavailable" -> "Unavailable"
       [] s = "Unprocessable" -> "Unprocessable"
       [] s = "NotAcceptable" -> "NotAcceptable"
       [] OTHER -> "none"]

codeFromContext(err) ==
  IF Is(err, "canceled") THEN "Canceled"
  ELSE IF Is(err, "deadline") THEN "DeadlineExceeded" ELSE "none"

codeFromDNSErr(err) == IF Is(err, "dnsCanceled") THEN "Canceled" ELSE "none"

codeFromSemerr(err) ==
  IF AsSemanticError(err) = 0 THEN "none" ELSE codeFromSemantic[Semantic(err)]

codeFromOgenerr(err) ==
  LET i == As(err, Ogen) IN
  IF i = 0 THEN "none"
  ELSE CASE err.nodes[i].type = "security" -> "Unauthenticated"
         [] err.nodes[i].type \in {"decodeParams", "decodeRequest"} -> "InvalidArgument"
         [] OTHER -> "none"

\* A Postgres error that is not about connections ends the search as Unknown.
codeFromPGDriver(err) ==
  LET i == As(err, {"pgConnection", "pgOther"}) IN
  IF i = 0 THEN "none"
  ELSE IF err.nodes[i].type = "pgConnection" THEN "Unavailable" ELSE "Unknown"

\* context.DeadlineExceeded, net errors and errnos have a Timeout method; it
\* answers false for a broken pipe and for a lookup that was canceled.
IsNetworkErrTranslatesToUnavailable(err) ==
  \/ Is(err, "reset") \/ Is(err, "refused")
  \/ LET i == As(err, {"timeout", "deadline", "dnsCanceled", "epipe"}) IN
       i # 0 /\ err.nodes[i].type \in {"timeout", "deadline"}

codeFromNetworkErr(err) ==
  IF IsNetworkErrTranslatesToUnavailable(err) THEN "Unavailable" ELSE "none"

\* The code of a translation that knows the error, or what the next one says.
OrElse(code, next) == IF code # "none" THEN code ELSE next

\* A Status in the chain is used as it is; else the first translation that
\* knows the error gives the code.
FromError(err) ==
  LET st == As(err, {"status"}) IN
  IF st # 0 THEN err.nodes[st].value
  ELSE OrElse(codeFromContext(err), OrElse(codeFromDNSErr(err), OrElse(codeFromSemerr(err),
         OrElse(codeFromOgenerr(err), OrElse(codeFromPGDriver(err),
           OrElse(codeFromNetworkErr(err), "Unknown"))))))

HTTP ==
  [c \in Codes |->
     CASE c \in {"Unknown", "Internal"} -> 500
       [] c = "Canceled" -> 499
       [] c = "InvalidArgument" -> 400
       [] c = "DeadlineExceeded" -> 408
       [] c \in {"NotFound", "PermissionDenied"} -> 404
       [] c \in {"AlreadyExists", "Aborted"} -> 409
       [] c = "TooManyRequests" -> 429
       [] c = "FailedPrecondition" -> 412
       [] c = "Unimplemented" -> 501
       [] c = "Unavailable" -> 503
       [] c = "Unauthenticated" -> 401
       [] c = "Unprocessable" -> 422
       [] c = "NotAcceptable" -> 406
       [] c = "Locked" -> 423]

-----------------------------------------------------------------------------
\* internal/resttooling/errors.go

SemanticErrorToHTTP ==
  [s \in Semantics |->
     CASE s \in {"InvalidInput", "NotImplemented"} -> 400
       [] s = "Authentication" -> 401
       [] s \in {"Forbidden", "NotFound"} -> 404
       [] s = "FailedPrecondition" -> 412
       [] s = "AlreadyExists" -> 409
       [] s = "ResourceLocked" -> 423
       [] s = "TooManyRequests" -> 429
       [] s = "Unprocessable" -> 422
       [] s = "NotAcceptable" -> 406
       [] s = "Timeout" -> 408
       [] s = "Unavailable" -> 503
       [] s = "SkipError" -> 200
       [] s = "PartialSuccess" -> 207
       [] OTHER -> 500]

\* Mutant: cancellation is not looked for under the semantics.
MutCodeFromSemantics(err) == SemanticErrorToHTTP[Semantic(err)]

CodeFromSemanticError(err) ==
  IF Is(err, "canceled") THEN 499 ELSE SemanticErrorToHTTP[Semantic(err)]

-----------------------------------------------------------------------------
\* internal/openapiapp/errors.go

semerrFromPGDriver(err) == codeFromPGDriver(err) = "Unavailable"

mapNonSemantic(err) ==
  IF Is(err, "canceled") THEN "Canceled"
  ELSE IF Is(err, "decodeParams") \/ Is(err, "decodeRequest") THEN "InvalidInput"
  ELSE IF Is(err, "security") THEN "Authentication"
  ELSE IF semerrFromPGDriver(err) \/ IsNetworkErrTranslatesToUnavailable(err) THEN "Unavailable"
  ELSE IF Is(err, "dnsCanceled") THEN "Canceled"
  ELSE "Internal"

\* The semantic error in the chain, without what wraps it, or a new one around it.
wrapWithSemantic(err) ==
  IF AsSemanticError(err) # 0 THEN From(err, AsSemanticError(err))
  ELSE Wrap(SemanticNode(mapNonSemantic(err)), err)

\* What PresentError makes of the error: under a codeerr, of what it wraps.
Presented(err) ==
  LET c == As(err, {"codeerr"}) IN
  wrapWithSemantic(IF c = 0 THEN err ELSE Below(err, c))

\* What PresentStatus makes of it: the Status of the chain, or a new one around it.
PresentedStatus(err) ==
  LET st == As(err, {"status"}) IN
  IF st # 0 THEN From(err, st) ELSE Wrap(StatusNode(FromError(err)), err)

-----------------------------------------------------------------------------
\* internal/sentrytooling/semantic.go

\* Mutant: the semantics are looked at before the status.
MutSkipBySemantics(err) ==
  \/ \E type \in {"skipSentry", "canceled", "deadline", "reset", "epipe"} \cup Ogen : Is(err, type)
  \/ AsSemanticError(err) # 0 /\ Semantic(err) # "Internal"
  \/ AsSemanticError(err) = 0 /\ Is(err, "status")
     /\ err.nodes[As(err, {"status"})].value \notin {"Internal", "Unknown"}

shouldSkipSentry(err) ==
  \/ \E type \in {"skipSentry", "canceled", "deadline", "reset", "epipe"} \cup Ogen : Is(err, type)
  \/ IF Is(err, "status")
     THEN err.nodes[As(err, {"status"})].value \notin {"Internal", "Unknown"}
     ELSE AsSemanticError(err) # 0 /\ Semantic(err) \notin {"Internal", "Unknown"}

=============================================================================
