------------------------------- MODULE Retry -------------------------------
(***************************************************************************)
(* retry_async (crates/omnimesh-core/src/retry.rs:92-133): an operation is *)
(* called again after a transient error, with a wait that grows by a       *)
(* factor up to a limit.  Times are in 1/1024 of a millisecond and the     *)
(* multiplier is a fraction: that way every wait of the policies below is  *)
(* a whole number.                                                         *)
(***************************************************************************)
EXTENDS Integers, Sequences

CONSTANT CustomPolicies    \* policies an application makes itself

ms == 1024

RetryPolicy(retries, initial, max, num, den) ==
    [max_retries |-> retries, initial_interval |-> initial * ms, max_interval |-> max * ms,
     num |-> num, den |-> den]

default == RetryPolicy(5, 100, 30000, 2, 1)
aggressive == RetryPolicy(10, 50, 5000, 3, 2)
conservative == RetryPolicy(3, 1000, 60000, 3, 1)
none == [default EXCEPT !.max_retries = 0]

\* What a call of the operation may come to: OmniMeshError by its classes.
Outcomes == {"Ok", "Connection", "Timeout", "Transport", "Discovery", "Io", "Crypto", "Config"}

is_retryable(r) == r \in {"Connection", "Timeout", "Transport", "Discovery", "Io"}

VARIABLES policy, attempts, current_interval,
          at,        \* before a call, asleep, or what retry_async returned
          calls,     \* history: calls of the operation so far
          waits      \* history: how long it slept between them

vars == <<policy, attempts, current_interval, at, calls, waits>>

Init ==
    /\ policy \in {default, aggressive, conservative, none} \cup CustomPolicies
    /\ attempts = 0
    /\ current_interval = policy.initial_interval
    /\ at = "call"
    /\ calls = 0
    /\ waits = <<>>

\* Plausible bug: the number of calls is taken for the number of retries.
goes_onOnce(r) == is_retryable(r) /\ attempts + 1 < policy.max_retries

goes_on(r) == is_retryable(r) /\ attempts < policy.max_retries

\* One call of the operation: its value or error is returned, or a wait begins.
operation(r) ==
    /\ at = "call"
    /\ calls' = calls + 1
    /\ IF goes_on(r)
       THEN attempts' = attempts + 1 /\ at' = "asleep"
       ELSE UNCHANGED attempts /\ at' = r
    /\ UNCHANGED <<policy, current_interval, waits>>

\* The wait is over, and the next one is set.
sleep ==
    LET longer == (current_interval * policy.num) \div policy.den
    IN  /\ at = "asleep"
        /\ waits' = Append(waits, current_interval)
        /\ current_interval' = IF longer < policy.max_interval THEN longer
                               ELSE policy.max_interval
        /\ at' = "call"
        /\ UNCHANGED <<policy, attempts, calls>>

Next == sleep \/ \E r \in Outcomes : operation(r)

Spec == Init /\ [][Next]_vars

-----------------------------------------------------------------------------
\* initial_interval * multiplier^(k-1), up to the limit.
Backoff(k) ==
    LET ideal == (policy.initial_interval * policy.num ^ (k - 1)) \div policy.den ^ (k - 1)
    IN  IF ideal > policy.max_interval THEN policy.max_interval ELSE ideal

\* A transient error is returned only after one call more than max_retries, and
\* any other outcome at once; between two calls there is one wait, and the k-th
\* is the one the policy gives in closed form (retry.rs:97-132), for policies that
\* begin within their limit, as the named ones do.
RetriesFollowPolicy ==
    /\ waits = [k \in 1..Len(waits) |-> Backoff(k)]
    /\ at = "call" => calls = Len(waits)
    /\ at \notin {"call", "asleep"} => calls = Len(waits) + 1
    /\ is_retryable(at) => calls = policy.max_retries + 1
    /\ calls <= policy.max_retries + 1

\* No wait is longer than max_interval, "Maximum backoff interval" (retry.rs:21).
\* The code holds every wait but the first against it (retry.rs:103 and 117-120).
WaitsWithinLimit == \A k \in DOMAIN waits : waits[k] <= policy.max_interval
=============================================================================
