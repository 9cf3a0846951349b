---------------------------- MODULE GraphResult ----------------------------
(* How a call of graph_request ends, and what each end says of Graph.  This  *)
(* is what GraphClient promises (GraphRequest) and ToolCall relies on.       *)
EXTENDS Naturals

\* A result; a GraphClientError; httpx's HTTPStatusError; any other exception,
\* a timeout among them; the cancellation of the caller.
Outcomes == {"ok", "GraphError", "HTTPStatusError", "Exception", "cancelled"}

\* How often Graph may have carried the operation out.
Times(outcome) ==
    CASE outcome = "ok"         -> {1}
      [] outcome = "GraphError" -> {0}
      [] OTHER                  -> {0, 1}

=============================================================================
