------------------------------ MODULE MCServer ------------------------------
(***************************************************************************)
(* The start and the end of an application with one server, and one        *)
(* request through the middlewares of a server.  The two share no          *)
(* variable: a behaviour is one of the application or of a request, the    *)
(* variables of the other keeping an initial value.                        *)
(*                                                                         *)
(* The chains are the one of NewMetricsHandler, and one without tracing    *)
(* but with the security headers and the API metrics.  All errors with one *)
(* wrapper or none around one foreign error, a semantic one or a join of   *)
(* two, those with two wrappers around a few, and the semantic errors      *)
(* under a codeerr under another one, which only PresentError looks for.   *)
(* Errors of three nodes and more come through one of the chains: a layer  *)
(* makes no difference between them that it does not make between smaller  *)
(* ones, the error handler does.                                           *)
(***************************************************************************)
EXTENDS Application, HttpServer

VARIABLE part  \* "application" or "request"

MCCheckers == <<"critical", "optional", "critical">>

-----------------------------------------------------------------------------
MCMetricsHandler == <<"Recovery", "Sentry", "Tracing", "Logging">>
MCMeasured == <<"Recovery", "Sentry", "Security", "Logging", "Metrics">>
MCChains == {MCMetricsHandler, MCMeasured}

Foreigners == {Node(type, "") : type \in Foreign \ {"abort", "value"}}
Wrappers == {SemanticNode(s) : s \in Semantics} \cup {StatusNode(c) : c \in Codes} \cup {CodeNode, FieldsNode}
Inner == Foreigners \cup {SemanticNode("NotFound"), SemanticNode("Internal")}

Plain == {Leaf(node) : node \in Inner} \cup {Join(a, b) : a, b \in Inner}
Few == {Leaf(Node(type, "")) : type \in {"canceled", "plain", "reset"}}

Errors == Plain \cup {Wrap(w, e) : w \in Wrappers, e \in Plain}
                \cup {Wrap(w, Wrap(v, e)) : w, v \in Wrappers, e \in Few}
                \cup {Wrap(SemanticNode("NotFound"), Wrap(CodeNode, Wrap(SemanticNode(s), e)))
                         : s \in Semantics, e \in Few}

Plan(how, errs, presenters, stopped) ==
  [how : {how}, err : errs, presenter : presenters, stopped : stopped]

Presenters == {"PresentError", "PresentStatus"}
Panicked == {Leaf(node) : node \in Inner} \cup {Abort, Leaf(Node("value", ""))}

MCPlans ==
  Plan("error", Errors, Presenters, {FALSE})
    \cup Plan("ok", {NoError}, Presenters \cup {"plain"}, BOOLEAN)
    \cup UNION {Plan(how, Panicked, Presenters \cup {"plain"}, {FALSE}) : how \in {"panic", "headerThenPanic"}}

-----------------------------------------------------------------------------
AnyRequest == [how |-> "ok", err |-> NoError, presenter |-> "plain", stopped |-> FALSE]

MCInit ==
  /\ part \in {"application", "request"}
  /\ Init /\ ServerInit
  /\ part = "application" => chain = MCMeasured /\ plan = AnyRequest
  /\ Len(plan.err.nodes) > 2 => chain = MCMetricsHandler

MCNext ==
  \/ part = "application" /\ Next /\ UNCHANGED <<part, serverVars>>
  \/ part = "request" /\ ServerNext /\ UNCHANGED <<part, vars>>

MCSpec == MCInit /\ [][MCNext]_<<part, vars, serverVars>> /\ Fairness
=============================================================================
