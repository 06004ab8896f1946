----------------------------- MODULE RetryPolicy -----------------------------
(***************************************************************************)
(* The retry policy of the core crate (retry.rs) and the reading of urllib3's *)
(* Retry object into it (adapters.rs).                                        *)
(*                                                                            *)
(* A counter is [is, n]: "none" (no limit), "bool" (n = 0 is False), "int".   *)
(* A value of the Retry object that the extension does not take (a negative   *)
(* number, a subclass, any other type) has is = "other".                      *)
(***************************************************************************)
EXTENDS Naturals, Sequences, FiniteSets

CONSTANTS
    Unsupported     \* the conversion's Err or None

Reasons == {"connect", "read", "status", "redirect", "other"}
Counters == {"total"} \cup Reasons
RedirectStatuses == {301, 302, 303, 307, 308}
RetryAfterStatuses == {413, 429, 503}

Count(n) == [is |-> "int", n |-> n]
Unlimited == [is |-> "none", n |-> 0]
Boolean(b) == [is |-> "bool", n |-> IF b THEN 1 ELSE 0]

-----------------------------------------------------------------------------
(* retry_snapshot.                                                          *)

\* retry_count: None, an exact bool or a nonnegative int.
RetryCount(v) == IF v.is = "other" THEN Unsupported ELSE v

\* exact_bool, nonnegative_float, string_set, status_set: a field is taken as
\* it is or refuses the whole object.
ExactField(v) == v # Unsupported

\* history_snapshot: rows that carry a Python error are not taken.
HistoryValue(rows) == \A i \in DOMAIN rows : ~rows[i].error

\* core_history: the reason that a row of the Retry object stands for.
CoreHistory(rows) ==
    [i \in DOMAIN rows |-> IF rows[i].status = 0 THEN "other"
                            ELSE IF rows[i].location THEN "redirect" ELSE "status"]

\* retry_snapshot: the policy of a Retry object whose type, methods and fields
\* are all the ones the extension knows, else Unsupported.
RetrySnapshot(r) ==
    IF /\ r.exact
       /\ \A c \in Counters : RetryCount(r.counts[c]) # Unsupported
       /\ ExactField(r.allowed) /\ ExactField(r.force)
       /\ ExactField(r.respect) /\ ExactField(r.raises)
       /\ HistoryValue(r.history)
    THEN [counts |-> r.counts, allowed |-> r.allowed, force |-> r.force,
          respect |-> r.respect, raises |-> r.raises, history |-> r.history]
    ELSE Unsupported

-----------------------------------------------------------------------------
(* RetryState: [remaining, history], the history as its reasons.             *)

\* RetryCount::decrement, as the set of the new value or of nothing.
Decrement(c) ==
    IF c.is = "none" THEN {c}
    ELSE IF c.n = 0 THEN {}
    ELSE {Count(c.n - 1)}

\* RetryCount::is_truthy.
Truthy(c) == c.is # "none" /\ c.n > 0

\* MethodSet::allows, RetryState::allows_method: an empty set allows all, as
\* does None.  "any" stands for None.
AllowsMethod(policy, method) ==
    policy.allowed \in {{}, {"any"}} \/ method \in policy.allowed

\* RetryState::is_retry.
IsRetry(policy, method, status, hasRetryAfter) ==
    /\ AllowsMethod(policy, method)
    /\ \/ status \in policy.force
       \/ /\ policy.respect
          /\ Truthy(policy.counts["total"])
          /\ hasRetryAfter
          /\ status \in RetryAfterStatuses

\* The reason that is charged: a redirect status with a Location is a redirect.
Charged(reason, status, location) ==
    IF reason = "status" /\ location /\ status \in RedirectStatuses
    THEN "redirect" ELSE reason

\* RetryState::increment, as the set of the next state: total is charged, then
\* the reason's own counter; nothing when either is used up.
Increment(st, reason) ==
    {[remaining |-> [st.remaining EXCEPT !.counts = [@ EXCEPT !["total"] = t,
                                                              ![reason]  = c]],
      history   |-> Append(st.history, reason)] :
        t \in Decrement(st.remaining.counts["total"]),
        c \in Decrement(st.remaining.counts[reason])}

\* RetryState::consecutive_errors: the errors since the last redirect.
ConsecutiveErrors(history) ==
    Cardinality({i \in DOMAIN history :
                    \A j \in i .. Len(history) : history[j] # "redirect"})

\* RetryState::backoff: no delay before the second error in a row, then twice
\* as long each time; the exponent stands for the delay.
Backoff(history) ==
    IF ConsecutiveErrors(history) <= 1 THEN 0 ELSE ConsecutiveErrors(history) - 1

=============================================================================
