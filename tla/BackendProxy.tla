------------------------------- MODULE BackendProxy -------------------------------
(***************************************************************************)
(* The route handlers between the browser and the analysis backend         *)
(* (lib/backend.ts): what the browser is told for everything that can      *)
(* become of a call.  A message stands for its outcome.                    *)
(***************************************************************************)
EXTENDS Naturals

\* A call that was never made, for want of an address, was answered, found no server,
\* was not answered in 15 s, broke off in its body, or had a body that is not JSON, as
\* the 500 of an uncaught exception.
BackendOutcomes == {"unconfigured", "answered", "refused", "silent", "broken", "garbage"}

\* getBackendUrl, backendFetch and safeJson: the BackendErrors that carry details.
Detailed == {"unconfigured", "refused", "garbage"}

\* The status of each error; what is no BackendError becomes a 500.
ErrorStatus(outcome) ==
  CASE outcome = "unconfigured" -> 503
    [] outcome = "silent" -> 504
    [] outcome \in {"refused", "garbage"} -> 502
    [] outcome = "broken" -> 500

\* proxyGet and proxyPost: an answer is passed on with its status, whatever it is.
ProxyReply(outcome, status) ==
  IF outcome = "answered" THEN [status |-> status, details |-> FALSE]
  ELSE [status |-> ErrorStatus(outcome), details |-> outcome \in Detailed]

\* apiFetch: everything but 2xx is thrown, with the error's details if it has any.
Rejected(reply) == reply.status \notin 200..299
=============================================================================
