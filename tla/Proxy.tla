---------------------------------- MODULE Proxy ----------------------------------
(***************************************************************************)
(* The route handlers between the browser and the two servers: what comes  *)
(* back to the browser for everything that can become of a call upstream.  *)
(***************************************************************************)
EXTENDS Naturals

\* What becomes of a call, seen from the route handler.  The abort timer is cleared as
\* soon as the head of the answer is there: a body that breaks off is no timeout.
Outcomes == {"answered", "silent", "refused", "broken", "garbage"}

\* mcpFetch: no head within 15 s, or no connection.
FetchStatus(outcome) == IF outcome = "silent" THEN 504 ELSE 502

\* safeJson: a body that is not JSON, or one that cannot be read, which is no McpError.
BodyStatus(outcome) == IF outcome = "garbage" THEN 502 ELSE 500

\* proxyMcpGet and proxyMcpPost: an answer is passed on with its status.
Relayed(outcome, status) ==
  CASE outcome = "answered" -> status
    [] outcome \in {"silent", "refused"} -> FetchStatus(outcome)
    [] outcome \in {"broken", "garbage"} -> BodyStatus(outcome)

\* apiFetch: everything but 2xx is thrown as an ApiClientError.
Thrown(status) == status \notin 200..299
=============================================================================
