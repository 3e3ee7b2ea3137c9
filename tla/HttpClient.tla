------------------------------- MODULE HttpClient -------------------------------
(***************************************************************************)
(* The client that carries the calls to Logto: pkg/httpclient/client.go    *)
(* over resty, which is external.  A call makes up to RetryCount + 1       *)
(* attempts, each with the client's timeout, if its method allows that.    *)
(***************************************************************************)
EXTENDS Integers

CONSTANT RetryCount

ASSUME HttpClientAssumption == RetryCount \in Nat

\* resty repeats only what may be served twice: GET /oidc/me, but none of the POST and
\* PATCH calls to Logto.
Idempotent == {"GET", "PUT", "DELETE", "HEAD", "OPTIONS"}

\* Whether another attempt may follow the n-th.
MayRetry(method, n) == method \in Idempotent /\ n <= RetryCount

\* How an attempt comes to nothing: Logto answers 429 or 5xx, or no answer arrives
\* before the timeout.  Only of the latter is resty not sure to try again.
Unanswered == {"busy", "lost"}

MustRetry(method, n, outcome) == MayRetry(method, n) /\ outcome = "busy"
=============================================================================
