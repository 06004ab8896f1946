----------------------------- MODULE AdapterSend -----------------------------
(***************************************************************************)
(* HTTPAdapter.send in the extension (native_adapter_leaf of adapters.rs):    *)
(* admission, in which every input is converted or the request is left to the *)
(* Python implementation; commitment, after which it must not be; and the     *)
(* retry loop with its translation of failures into Requests exceptions.      *)
(*                                                                            *)
(* Another Python thread runs between the steps of the admission and may      *)
(* replace a part of the objects that the extension stands in for, or the     *)
(* adapter's Retry object.  The registry of adapters and its pools are        *)
(* AdapterRegistry's; here its verdicts are free.                             *)
(***************************************************************************)
EXTENDS BehaviorProof, RetryPolicy

CONSTANTS
    Root,           \* the object whose proof stands for those of AdapterState
    Heaps,          \* the heaps the extension may be imported into
    Inputs,         \* the arguments of send
    Retries,        \* Retry objects, as RetryPolicy describes them
    Answers,        \* responses: [status, retryAfter, location]
    ErrorKinds,     \* the transport's errors that an attempt may end in
    MaxAttempts     \* bound on the attempts of one send

\* A counter of a Retry object, of any kind, and a row of its history.
CounterValues == [is : {"none", "bool", "int", "other"}, n : Nat]
Rows == [status : Nat, location : BOOLEAN, error : BOOLEAN]

ASSUME HeapsAssumption ==
    Heaps \subseteq [Objects -> [kind : Kinds, parts : Seq(Objects), cached : BOOLEAN]]
ASSUME RetriesAssumption ==
    \A r \in Retries : r.counts \in [Counters -> CounterValues] /\ r.history \in Seq(Rows)

VARIABLES
    stage,      \* where the send is
    world,      \* the Python heap
    frozen,     \* the heap when initialize_adapter_state took its proofs
    input,      \* the arguments
    maxRetries, \* adapter.max_retries
    taken,      \* the policy that admission read
    retry,      \* the RetryState of the loop
    sends,      \* outcome of each attempt: an error kind or a response
    held,       \* a response that still has its connection
    slept,      \* the delay before the last retry
    result,     \* what send returned or raised
    touched     \* the stage at which the other thread interfered

vars == <<stage, world, frozen, input, maxRetries, taken, retry, sends, held,
          slept, result, touched>>

Pending == "pending"
NoSleep == [by |-> "none", n |-> 0]
Admission == {"enter", "identity", "input", "reidentity", "reretry", "select"}
Outcomes == {[is |-> "error", kind |-> k] : k \in ErrorKinds}
            \cup {[is |-> "answer", kind |-> a] : a \in Answers}
Raised == {"ConnectionError", "ConnectTimeout", "ReadTimeout", "SSLError",
           "ProxyError", "RetryError", "InvalidHeader", "LocationValueError"}

-----------------------------------------------------------------------------
(* Conversion of the arguments.  An argument is [is, ...]; a number is a       *)
(* counter of RetryPolicy.                                                     *)

\* duration_value: None, or a positive finite number that is not a bool.
DurationValue(v) == v.is = "none" \/ (v.is = "int" /\ v.n > 0)

\* timeout_value: one duration for both, a pair, or urllib3's Timeout without
\* a total.
TimeoutValue(t) ==
    CASE t.is = "scalar" -> DurationValue(t.connect)
      [] t.is = "pair"   -> DurationValue(t.connect) /\ DurationValue(t.read)
      [] t.is = "sauce"  -> /\ t.total = Unlimited
                            /\ DurationValue(t.connect) /\ DurationValue(t.read)
      [] OTHER           -> FALSE

\* tls_value: the roots are the default bundle, an existing file or directory;
\* the identity is absent, one existing file or two.
TlsValue(verify, cert) ==
    /\ verify \in {"default", "disabled", "bundle", "directory"}
    /\ cert \in {"none", "file", "pair"}

\* proxy_value: the Proxy that the selected URL stands for.
ProxyValue(p) ==
    CASE p \in {"none", "http", "https"} -> p
      [] p \in {"socks4", "socks4a"}     -> "socks4"
      [] p \in {"socks5", "socks5h"}     -> p
      [] OTHER                           -> Unsupported

\* request_headers, request_body and the URL: exact types that the native
\* request can hold.  proxy_request_url refuses a URL it would rewrite.
RequestValue(i) ==
    /\ i.headers = "exact"
    /\ i.body \in {"none", "bytes"}
    /\ i.url \in {"plain", "lexical"}
    /\ (i.scheme = "http" /\ ProxyValue(i.proxy) \in {"http", "https"})
          => i.url = "plain"

\* native_send_input up to its second look at the identities.
InputValue(i) ==
    /\ i.config = "empty" /\ i.maxsize > 0
    /\ RequestValue(i)
    /\ TimeoutValue(i.timeout)
    /\ TlsValue(i.verify, i.cert)
    /\ ProxyValue(i.proxy) # Unsupported

\* The end of native_send_input: urllib3 1.26 keeps TLS to itself.
NeedsCompatTls(i) ==
    i.urllib3 = "1.26" /\ (i.scheme = "https" \/ ProxyValue(i.proxy) = "https")

-----------------------------------------------------------------------------
(* Failures.                                                                *)

\* retry_reason.
RetryReason(kind) ==
    CASE kind \in {"Connect", "ConnectTimeout", "Dns"} -> "connect"
      [] kind \in {"ReadTimeout", "ResponseBody", "ChunkedEncoding",
                   "Connection", "Send"}              -> "read"
      [] OTHER                                        -> "other"

\* Defect for the checks: a failure to reach the proxy is reported as such only
\* when the proxy itself refused.
SurrogateUnproxied(kind, proxied) ==
    CASE kind = "ConnectTimeout" -> <<"MaxRetryError", "ConnectTimeoutError">>
      [] kind = "ReadTimeout"    -> <<"ReadTimeoutError", "">>
      [] kind = "Proxy"          -> <<"MaxRetryError", "_ProxyError">>
      [] OTHER                   -> <<"MaxRetryError", "NewConnectionError">>

\* canonical_adapter_surrogate: the urllib3 exception that Python would have
\* seen, with the reason that MaxRetryError carries.
Surrogate(kind, proxied) ==
    LET k == IF proxied /\ kind \in {"Connect", "ConnectTimeout", "Dns"}
             THEN "Proxy" ELSE kind
    IN  CASE k \in {"InvalidUrl", "MissingSchema"} -> <<"LocationValueError", "">>
          [] k = "InvalidHeader"                   -> <<"_InvalidHeader", "">>
          [] k = "ReadTimeout"                     -> <<"ReadTimeoutError", "">>
          [] k \in {"Connect", "Dns"}              -> <<"MaxRetryError", "NewConnectionError">>
          [] k = "ConnectTimeout"                  -> <<"MaxRetryError", "ConnectTimeoutError">>
          [] k = "Proxy"                           -> <<"MaxRetryError", "_ProxyError">>
          [] k \in {"Tls", "Handshake"}            -> <<"MaxRetryError", "_SSLError">>
          [] k \in {"Send", "Connection"}          -> <<"MaxRetryError", "ProtocolError">>
          [] OTHER                                 -> <<"ProtocolError", "">>

\* canonical_retry_surrogate: too many responses of a status.
RetrySurrogate == <<"MaxRetryError", "ResponseError">>

\* simulate_adapter_handlers: the except clauses of HTTPAdapter.send in order.
\* In urllib3 1.26 NewConnectionError is a ConnectTimeoutError.
MapSurrogate(e) ==
    CASE e[1] = "ProtocolError" -> "ConnectionError"
      [] e[1] = "MaxRetryError" ->
            (CASE e[2] = "ConnectTimeoutError" -> "ConnectTimeout"
               [] e[2] = "ResponseError"       -> "RetryError"
               [] e[2] = "_ProxyError"         -> "ProxyError"
               [] e[2] = "_SSLError"           -> "SSLError"
               [] OTHER                        -> "ConnectionError")
      [] e[1] = "ReadTimeoutError" -> "ReadTimeout"
      [] e[1] = "_InvalidHeader"   -> "InvalidHeader"
      [] OTHER                     -> e[1]

\* mapped_transport_error.
MappedTransportError(kind) ==
    MapSurrogate(Surrogate(kind, input.proxy # "none"))

-----------------------------------------------------------------------------
Init ==
    /\ world \in Heaps /\ frozen = world
    /\ input \in Inputs /\ maxRetries \in Retries
    /\ stage = "enter"
    /\ taken = Unsupported /\ retry = Unsupported
    /\ sends = <<>> /\ held = FALSE /\ slept = NoSleep
    /\ result = Pending /\ touched = "never"

Admit(next) ==
    /\ stage' = next
    /\ UNCHANGED <<world, frozen, input, maxRetries, taken, retry, sends, held,
                   slept, result, touched>>

\* NotImplemented: the Python implementation sends the request.
Fallback ==
    /\ stage' = "done" /\ result' = "compat"
    /\ UNCHANGED <<world, frozen, input, maxRetries, taken, retry, sends, held,
                   slept, touched>>

\* native_adapter_leaf: verify=False is left to Python.
Enter ==
    /\ stage = "enter"
    /\ IF input.verify = "disabled" THEN Fallback ELSE Admit("identity")

\* adapter_identity_is_pristine before anything is read.
CheckIdentity ==
    /\ stage = "identity"
    /\ IF Pristine(frozen, world, Root) THEN Admit("input") ELSE Fallback

\* native_send_input reads the adapter, the request and the Retry object.
ReadInput ==
    /\ stage = "input"
    /\ IF InputValue(input) /\ RetrySnapshot(maxRetries) # Unsupported
       THEN /\ taken' = RetrySnapshot(maxRetries)
            /\ stage' = "reidentity"
            /\ UNCHANGED <<world, frozen, input, maxRetries, retry, sends, held,
                           slept, result, touched>>
       ELSE Fallback

\* Defect for the checks: the identities are not looked at again.
RecheckNothing ==
    stage = "reidentity" /\ Admit("reretry")

\* The second look at the identities, and at the registry's proofs.
RecheckIdentity ==
    /\ stage = "reidentity"
    /\ \/ Pristine(frozen, world, Root) /\ Admit("reretry")
       \/ Fallback

\* The second reading of the Retry object must give the same policy.
RecheckRetry ==
    /\ stage = "reretry"
    /\ IF RetrySnapshot(maxRetries) = taken /\ ~NeedsCompatTls(input)
       THEN Admit("select") ELSE Fallback

\* adapter_pool finds or makes the pool, or the registry refuses.
SelectPool ==
    stage = "select" /\ (Admit("committed") \/ Fallback)

\* Defect for the checks: the registry's refusal hands the request to Python.
EnterManagerOrFallback ==
    /\ stage = "committed"
    /\ \/ /\ retry' = [remaining |-> taken, history |-> CoreHistory(taken.history)]
          /\ stage' = "attempt"
          /\ UNCHANGED <<world, frozen, input, maxRetries, taken, sends, held,
                         slept, result, touched>>
       \/ Fallback

\* connection_from_url and the recording of its effect; a lost race raises.  The
\* loop starts from the policy that was taken, whatever max_retries is by now.
EnterManager ==
    /\ stage = "committed"
    /\ \/ /\ stage' = "attempt"
          /\ retry' = [remaining |-> taken, history |-> CoreHistory(taken.history)]
          /\ UNCHANGED result
       \/ /\ stage' = "done" /\ result' = "RuntimeError"
          /\ UNCHANGED retry
    /\ UNCHANGED <<world, frozen, input, maxRetries, taken, sends, held, slept,
                   touched>>

-----------------------------------------------------------------------------
(* The retry loop.                                                          *)

Raise(exception) == stage' = "done" /\ result' = exception

\* Defect for the checks: the method is not asked for before a replay.
MayReplayAny(reason) == TRUE

\* After a read failure the server may have seen the request.
MayReplay(reason) == reason = "read" => AllowsMethod(retry.remaining, input.method)

\* An attempt fails: charged and repeated after the backoff, or raised.
AttemptFails(kind) ==
    /\ stage = "attempt" /\ Len(sends) < MaxAttempts
    /\ sends' = Append(sends, [is |-> "error", kind |-> kind])
    /\ IF /\ kind # "InvalidHeader" /\ MayReplay(RetryReason(kind))
          /\ Increment(retry, RetryReason(kind)) # {}
       THEN /\ retry' \in Increment(retry, RetryReason(kind))
            /\ slept' = [by |-> "backoff", n |-> Backoff(retry'.history)]
            /\ UNCHANGED <<stage, result>>
       ELSE /\ Raise(MappedTransportError(kind))
            /\ UNCHANGED <<retry, slept>>
    /\ UNCHANGED <<world, frozen, input, maxRetries, taken, held, touched>>

\* An attempt is answered: the response holds its connection.
AttemptAnswers(a) ==
    /\ stage = "attempt" /\ Len(sends) < MaxAttempts
    /\ sends' = Append(sends, [is |-> "answer", kind |-> a])
    /\ held' = TRUE
    /\ stage' = "answered"
    /\ UNCHANGED <<world, frozen, input, maxRetries, taken, retry, slept, result,
                   touched>>

Answer == sends[Len(sends)].kind
AnswerReason == Charged("status", Answer.status, Answer.location)

\* build_python_response: the caller gets the response with its connection,
\* when it asks for no retry or the retries are used up and nothing raises.
BuildResponse ==
    /\ stage = "answered"
    /\ IsRetry(retry.remaining, input.method, Answer.status, Answer.retryAfter)
          => Increment(retry, AnswerReason) = {} /\ ~taken.raises
    /\ stage' = "done" /\ result' = "response"
    /\ UNCHANGED <<world, frozen, input, maxRetries, taken, retry, sends, held,
                   slept, touched>>

\* Too many responses of a status: drained, then RetryError.
RaiseOnStatus ==
    /\ stage = "answered"
    /\ IsRetry(retry.remaining, input.method, Answer.status, Answer.retryAfter)
    /\ Increment(retry, AnswerReason) = {} /\ taken.raises
    /\ held' = FALSE
    /\ Raise(MapSurrogate(RetrySurrogate))
    /\ UNCHANGED <<world, frozen, input, maxRetries, taken, retry, sends, slept,
                   touched>>

\* drain_response, then retry_after or the backoff, then the next attempt.
RetryStatus ==
    /\ stage = "answered"
    /\ IsRetry(retry.remaining, input.method, Answer.status, Answer.retryAfter)
    /\ retry' \in Increment(retry, AnswerReason)
    /\ held' = FALSE
    /\ slept' = IF taken.respect /\ Answer.retryAfter
                THEN [by |-> "header", n |-> 0]
                ELSE [by |-> "backoff", n |-> Backoff(retry'.history)]
    /\ stage' = "attempt"
    /\ UNCHANGED <<world, frozen, input, maxRetries, taken, sends, result, touched>>

\* check_signals raises in the pump while an attempt or a drain is waited for;
\* the response is dropped with its connection.
Interrupt ==
    /\ stage \in {"attempt", "answered"}
    /\ held' = FALSE
    /\ Raise("KeyboardInterrupt")
    /\ UNCHANGED <<world, frozen, input, maxRetries, taken, retry, sends, slept,
                   touched>>

-----------------------------------------------------------------------------
(* The other Python thread, at most once.  After the commitment the code reads *)
(* max_retries once more, and only to ask that object how long a Retry-After   *)
(* header means (get_retry_after); a length of time is not part of this model, *)
(* and every counter is that of the policy taken before.                       *)

Quiet == touched = "never" /\ stage \in Admission \cup {"committed"}

\* It replaces a part of an object that the proof follows.
Rebind ==
    /\ Quiet
    /\ \E o \in Reaches(world, Root) : \E p \in Objects :
          /\ world[o].parts # <<>> /\ p # world[o].parts[1]
          /\ world' = [world EXCEPT ![o].parts[1] = p]
    /\ touched' = stage
    /\ UNCHANGED <<stage, frozen, input, maxRetries, taken, retry, sends, held,
                   slept, result>>

\* It gives the adapter another Retry object.
ReplaceRetry ==
    /\ Quiet
    /\ \E r \in Retries :
          RetrySnapshot(r) # RetrySnapshot(maxRetries) /\ maxRetries' = r
    /\ touched' = stage
    /\ UNCHANGED <<stage, world, frozen, input, taken, retry, sends, held, slept,
                   result>>

\* The interpreter memoises an empty cache in a class.
Memoise ==
    /\ stage \in Admission
    /\ \E o \in Objects :
          /\ world[o].kind = "class" /\ ~world[o].cached
          /\ world' = [world EXCEPT ![o].cached = TRUE]
    /\ UNCHANGED <<stage, frozen, input, maxRetries, taken, retry, sends, held,
                   slept, result, touched>>

Next ==
    \/ Enter \/ CheckIdentity \/ ReadInput \/ RecheckIdentity \/ RecheckRetry
    \/ SelectPool \/ EnterManager
    \/ \E k \in ErrorKinds : AttemptFails(k)
    \/ \E a \in Answers : AttemptAnswers(a)
    \/ BuildResponse \/ RaiseOnStatus \/ RetryStatus \/ Interrupt
    \/ Rebind \/ ReplaceRetry \/ Memoise

Spec == Init /\ [][Next]_vars

-----------------------------------------------------------------------------
(* Properties.                                                              *)

Committed == stage \in {"committed", "attempt", "answered"} \/ sends # <<>>

\* What a send is committed on is what was looked at: never a world that was
\* changed before the last look at what was changed, a function replaced up to
\* the second identity check or a Retry object replaced between its two readings.
CommitIsFresh ==
    Committed =>
        /\ world # frozen /\ ~Pristine(frozen, world, Root)
              => touched \notin {"enter", "identity", "input", "reidentity"}
        /\ RetrySnapshot(maxRetries) # taken
              => touched \notin {"enter", "identity", "input", "reidentity", "reretry"}

\* The proof of an object is exact: replacing a part of anything that the
\* object can reach through functions, classes, partials and descriptors, in
\* cycles and shared, is noticed, and what the interpreter caches is not.
ProofIsExact ==
    Pristine(frozen, world, Root) <=>
        \A o \in Reaches(frozen, Root) : world[o].parts = frozen[o].parts

\* "From manager entry onward the send is committed and must never replay
\* through retained Python": a request goes out by one transport only.
OneTransport == [][Committed => result' # "compat"]_vars

\* The attempts of one send are bounded by the total and, per reason, by that
\* reason's own counter of the policy that admission read.
AttemptsBounded ==
    sends # <<>> =>
        /\ taken.counts["total"].is # "none" =>
              Len(sends) <= taken.counts["total"].n + 1
        /\ \A r \in Reasons : taken.counts[r].is # "none" =>
              Cardinality({i \in Len(taken.history) + 1 .. Len(retry.history) :
                              retry.history[i] = r}) <= taken.counts[r].n

\* The failures after which the server may have acted on the request.
MayHaveReached(outcome) ==
    outcome.is = "answer" \/ RetryReason(outcome.kind) = "read"

\* A request whose method may not be retried is never repeated after an
\* attempt that may have reached the server.
NoBlindReplay ==
    (taken # Unsupported /\ ~AllowsMethod(taken, input.method)) =>
        \A i \in 1 .. Len(sends) - 1 : ~MayHaveReached(sends[i])

\* No attempt starts while an earlier response of the same send still has its
\* connection: with a blocking pool of one the send would wait for itself.
NoConnectionHeldByRetry == stage = "attempt" => ~held

\* Retries are legal: as many as the policy allows for each reason, none that
\* repeats what the server may have done, and none that waits for a connection
\* its own send still holds.
RetriesAreLegal == AttemptsBounded /\ NoBlindReplay /\ NoConnectionHeldByRetry

\* The exception names the failure that ended the send: timeouts, TLS and
\* proxy failures keep their own classes, the rest is a ConnectionError.
LastSend == sends[Len(sends)]
RaisedIsHonest ==
    (sends # <<>> /\ stage = "done" /\ result \in Raised) =>
        LET k == LastSend.kind
        IN  /\ result = "RetryError" <=> LastSend.is = "answer"
            /\ LastSend.is = "error" =>
                 /\ result = "ReadTimeout" <=> k = "ReadTimeout"
                 /\ result = "ConnectTimeout" <=>
                       k = "ConnectTimeout" /\ input.proxy = "none"
                 /\ result = "ProxyError" <=>
                       \/ k = "Proxy"
                       \/ /\ input.proxy # "none"
                          /\ k \in {"Connect", "ConnectTimeout", "Dns"}
                 /\ result = "SSLError" <=> k \in {"Tls", "Handshake"}

=============================================================================
