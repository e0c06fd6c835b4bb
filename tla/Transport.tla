----------------------------- MODULE Transport -----------------------------
(***************************************************************************)
(* What is below the sessions: one connection from its handshake on        *)
(* (NoiseConnection), and retry_async (Retry).  The two share no state.    *)
(***************************************************************************)
EXTENDS NoiseConnection, Integers

CONSTANT CustomPolicies                                       \* of Retry

VARIABLES policy, attempts, current_interval, at, calls, waits    \* Retry

Retry == INSTANCE Retry

retryVars == <<policy, attempts, current_interval, at, calls, waits>>

\* retry_async calls and waits as its policy says (Retry).
RetriesFollowPolicy == Retry!RetriesFollowPolicy

\* No wait is longer than the policy's max_interval (Retry).
WaitsWithinLimit == Retry!WaitsWithinLimit
=============================================================================
