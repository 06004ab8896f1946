----------------------------- MODULE DigestAuth -----------------------------
(***************************************************************************)
(* HTTP Digest authentication: one HTTPDigestAuth object shared by several *)
(* threads, the requests it prepares and the response hooks it registers   *)
(* on them.  The counters of the protocol live in a threading.local of the *)
(* auth object (`local`), so they belong to a thread, not to a request.    *)
(* handle_401 is the machine of crates/requests/src/auth.rs, whose worker  *)
(* asks the origin thread for one action per step; every step may fail (a  *)
(* Python exception, a broken connection, a closed bridge).  The adapter   *)
(* has `free` connections: a response holds one until it is read or closed.*)
(***************************************************************************)
EXTENDS Integers, Sequences

CONSTANTS
    Threads,      \* threads that share the auth object
    Requests,     \* prepared requests
    BodyOf,       \* Requests -> {"bytes", "file", "tell"}: no tell, tell and seek, tell alone
    Answers,      \* what the server may answer: see Answer
    Connections,  \* pool_maxsize of a blocking adapter
    CountLimit,   \* 2^32: the width of DigestState.nonce_count
    MaxNonce,     \* bound: nonces the server hands out
    MaxHooks,     \* bound: times the auth object is applied to a request
    MaxHops,      \* bound: redirects followed by one send
    MaxCalls      \* bound: sends and preparations

ASSUME DigestAssumption ==
    /\ "nobody" \notin Requests
    /\ BodyOf \in [Requests -> {"bytes", "file", "tell"}]
    /\ Connections \in Nat /\ MaxNonce \in Nat /\ MaxHooks \in Nat /\ MaxHops \in Nat
    /\ CountLimit \in Nat \ {0}

VARIABLES local, request, call, nonce, free, built, calls

digestVars == <<local, request, call, nonce, free, built, calls>>

NoPos == -1
NoHeader == [nonce |-> 0, count |-> 0]
NoChallenge == [digest |-> FALSE, nonce |-> 0, qop |-> "none", known |-> FALSE, complete |-> FALSE]
NoResponse == [status |-> "none", held |-> FALSE, chal |-> NoChallenge]
Idle == [at |-> "idle"]

\* One answer of the server: its class of status and, if it sends a
\* WWW-Authenticate header, whether the header names Digest, carries a new
\* nonce, which qop it offers, whether the algorithm is one of the five known
\* ones and whether realm and nonce are both there.
Answer == [status : {"ok", "redirect", "unauthorized"}, digest : BOOLEAN, fresh : BOOLEAN,
           qop : {"none", "auth", "other"}, known : BOOLEAN, complete : BOOLEAN]

ASSUME AnswersAssumption == Answers \subseteq Answer

DigestInit ==
    /\ local = [t \in Threads |->
                 [init |-> FALSE, last_nonce |-> 0, nonce_count |-> 0, chal |-> NoChallenge,
                  pos |-> NoPos, num_401_calls |-> 0, owner |-> "nobody"]]
    /\ request = [r \in Requests |-> [hooks |-> 0, auth |-> NoHeader, at |-> 0]]
    /\ call = [t \in Threads |-> Idle]
    /\ nonce = 1
    /\ free = Connections
    /\ built = [t \in Threads |-> <<>>]
    /\ calls = 0

-----------------------------------------------------------------------------
(* prepare_digest, DigestPlan::finish and _digest_auth_trial *)

\* Defect for the checks: the count starts again with every header.
NextCountRestarting(l) == 1

\* prepare_digest: a nonce seen before is counted on, a new one starts at 1.
NextCount(l) ==
    IF l.chal.nonce = l.last_nonce THEN (l.nonce_count + 1) % CountLimit ELSE 1

\* What build_digest_header leaves in the thread's state: nothing for an
\* unknown algorithm; the count for a qop it cannot serve or when a callback
\* (ctime, urandom) fails; the count and the nonce when it made a header.
Counted(l) == IF l.chal.known THEN [l EXCEPT !.nonce_count = NextCount(l)] ELSE l
MakesHeader(l) == l.chal.known /\ l.chal.qop # "other"
Used(l) == IF MakesHeader(l) THEN [Counted(l) EXCEPT !.last_nonce = l.chal.nonce] ELSE Counted(l)
HeaderOf(l) ==
    IF MakesHeader(l)
    THEN [nonce |-> l.chal.nonce, count |-> IF l.chal.qop = "auth" THEN NextCount(l) ELSE 0]
    ELSE NoHeader

\* `if _digest_auth: headers["Authorization"] = ...`: without a header the one
\* the request already carries stays.
Stamped(header, l) == IF MakesHeader(l) THEN HeaderOf(l) ELSE header
Log(t, l) ==
    built' = IF MakesHeader(l) /\ l.chal.qop = "auth"
             THEN [built EXCEPT ![t] = Append(@, HeaderOf(l))] ELSE built

-----------------------------------------------------------------------------
(* HTTPDigestAuth.__call__ *)

\* `owner` is history: the request whose unread body `pos` was taken from.
Fresh(l, r) ==
    [l EXCEPT !.init = TRUE, !.owner = IF request[r].at = 0 THEN r ELSE "nobody"]
TellOf(r) == IF BodyOf[r] = "bytes" THEN NoPos ELSE request[r].at

\* The auth object is applied to r by thread t: a saved nonce is used at once,
\* the position of the body is saved, both hooks are registered once more.
Authenticate(t, r) ==
    LET l == Fresh(local[t], r)
        saved == l.last_nonce # 0
    IN  /\ call[t].at = "idle" /\ calls < MaxCalls /\ request[r].hooks < MaxHooks
        /\ saved => l.chal.complete
        /\ LET m == IF saved THEN Used(l) ELSE l
           IN  local' = [local EXCEPT ![t] = [m EXCEPT !.pos = TellOf(r), !.num_401_calls = 1]]
        /\ request' = [request EXCEPT ![r].hooks = @ + 1,
                                      ![r].auth = IF saved THEN Stamped(@, l) ELSE @]
        /\ IF saved THEN Log(t, l) ELSE UNCHANGED built
        /\ calls' = calls + 1
        /\ UNCHANGED <<call, nonce, free>>

\* Building the header raises: the challenge that replaced the good one lacks
\* its realm or nonce, or a callback failed after the count was stored.
AuthenticateFails(t, r) ==
    LET l == local[t]
    IN  /\ call[t].at = "idle" /\ calls < MaxCalls /\ request[r].hooks < MaxHooks
        /\ l.init /\ l.last_nonce # 0
        /\ local' = [local EXCEPT ![t] = IF l.chal.complete THEN Counted(l) ELSE l]
        /\ calls' = calls + 1
        /\ UNCHANGED <<request, call, nonce, free, built>>

-----------------------------------------------------------------------------
(* Session.send and the adapter, as far as the hooks meet them *)

Start(t, r) ==
    /\ call[t].at = "idle" /\ calls < MaxCalls /\ request[r].hooks > 0
    /\ \A u \in Threads : call[u].at # "idle" => call[u].req # r
    /\ call' = [call EXCEPT ![t] = [at |-> "send", req |-> r, hook |-> 1, step |-> 0, hops |-> 0,
                                    resent |-> 0, first |-> 0, from |-> 0,
                                    carries |-> NoHeader, response |-> NoResponse]]
    /\ calls' = calls + 1
    /\ UNCHANGED <<local, request, nonce, free, built>>

Arrived(ans, n) ==
    [status |-> ans.status, held |-> TRUE,
     chal |-> [digest |-> ans.digest, nonce |-> n, qop |-> ans.qop, known |-> ans.known,
               complete |-> ans.complete]]
AfterSending(r) == IF BodyOf[r] = "bytes" THEN 0 ELSE 1
Offers(ans, n) == n = IF ans.fresh THEN nonce + 1 ELSE nonce

\* The adapter sends a request of the call with header h and returns the
\* answer; c is the call that goes on with it.
Exchange(t, h, c) ==
    /\ free > 0
    /\ \E ans \in Answers, n \in 1..MaxNonce :
         /\ Offers(ans, n)
         /\ nonce' = n
         /\ call' = [call EXCEPT ![t] = [c EXCEPT !.response = Arrived(ans, n), !.carries = h]]
    /\ free' = free - 1
    /\ request' = [request EXCEPT ![c.req].at = AfterSending(c.req)]

Transmit(t) ==
    /\ call[t].at = "send"
    /\ LET r == call[t].req
       IN  Exchange(t, request[r].auth,
                    [call[t] EXCEPT !.at = "hooks", !.hook = 1, !.resent = 0,
                                    !.first = request[r].at, !.from = request[r].at])
    /\ UNCHANGED <<local, built, calls>>

Release(c) == IF c.response.held THEN 1 ELSE 0

\* An exception leaves Session.send: the response is dropped and with it its
\* connection; the thread's state stays as it is.
Fail(t) ==
    /\ call[t].at \in {"send", "401"}
    /\ call' = [call EXCEPT ![t] = Idle]
    /\ free' = free + Release(call[t])
    /\ UNCHANGED <<local, request, nonce, built, calls>>

-----------------------------------------------------------------------------
(* The hooks: handle_401, handle_redirect *)

IsHandle401(c) == c.hook % 2 = 1
HooksDone(c) == c.hook > 2 * request[c.req].hooks

\* handle_401 enters its machine for a 4xx answer; a thread that never
\* prepared a request has no state and gets an AttributeError; any other answer
\* resets the counter.
Handle401(t) ==
    LET c == call[t]
    IN  /\ c.at = "hooks" /\ ~HooksDone(c) /\ IsHandle401(c)
        /\ IF c.response.status # "unauthorized"
           THEN /\ local' = [local EXCEPT ![t].num_401_calls = 1]
                /\ call' = [call EXCEPT ![t].hook = @ + 1]
                /\ UNCHANGED free
           ELSE /\ UNCHANGED local
                /\ call' = [call EXCEPT ![t] = IF local[t].init
                                               THEN [c EXCEPT !.at = "401", !.step = 1] ELSE Idle]
                /\ free' = IF local[t].init THEN free ELSE free + Release(c)
        /\ UNCHANGED <<request, nonce, built, calls>>

HandleRedirect(t) ==
    LET c == call[t]
    IN  /\ c.at = "hooks" /\ ~HooksDone(c) /\ ~IsHandle401(c)
        /\ local' = [local EXCEPT ![t].num_401_calls =
                       IF c.response.status = "redirect" THEN 1 ELSE @]
        /\ call' = [call EXCEPT ![t].hook = @ + 1]
        /\ UNCHANGED <<request, nonce, free, built, calls>>

-----------------------------------------------------------------------------
(* Digest401Machine and digest_401_worker *)

\* Defect for the checks: the 401 is read and closed after the resend.
MachineResendFirst ==
    <<"Seek", "Challenge", "Increment", "Parse", "Copy", "ExtractCookies",
      "PrepareCookies", "PreparedParts", "Send", "Consume", "Close", "AppendHistory",
      "ReplaceRequest">>

\* The order of the steps.  PreparedParts calls build_digest_header, which does
\* the work of the four steps the worker passes over.
Machine ==
    <<"Seek", "Challenge", "Increment", "Parse", "Consume", "Close", "Copy", "ExtractCookies",
      "PrepareCookies", "PreparedParts", "Send", "AppendHistory", "ReplaceRequest">>

\* Steps that touch nothing the others look at are taken together with the
\* step before them; their failure is that of the step after them.
Quiet ==
    {"Challenge", "Copy", "ExtractCookies", "PrepareCookies", "AppendHistory", "ReplaceRequest"}

InStep(t, name) == call[t].at = "401" /\ Machine[call[t].step] = name
Advance(c) ==
    LET later == {i \in (c.step + 1)..Len(Machine) : Machine[i] \notin Quiet}
    IN  IF later = {} THEN [c EXCEPT !.at = "hooks", !.step = 0, !.hook = @ + 1]
        ELSE [c EXCEPT !.step = CHOOSE i \in later : \A j \in later : i <= j]
GoOn(t) == call' = [call EXCEPT ![t] = Advance(call[t])]

\* Defect for the checks: the body stays where the first send left it.
SeekNothing(t) ==
    InStep(t, "Seek") /\ GoOn(t) /\ UNCHANGED <<local, request, nonce, free, built, calls>>

\* The body goes back to the saved position if it has one and can seek.
Seek(t) ==
    LET r == call[t].req
        rewinds == local[t].pos # NoPos /\ BodyOf[r] = "file"
    IN  /\ InStep(t, "Seek") /\ GoOn(t)
        /\ request' = [request EXCEPT ![r].at = IF rewinds THEN local[t].pos ELSE @]
        /\ UNCHANGED <<local, nonce, free, built, calls>>

Advanced(n) == n + 1

\* Without a Digest challenge, or when this answer is already the one to an
\* authenticated resend, the counter is reset and the answer returned.
Increment(t) ==
    LET c == call[t]
        stops == ~c.response.chal.digest \/ local[t].num_401_calls >= 2
    IN  /\ InStep(t, "Increment")
        /\ local' = [local EXCEPT ![t].num_401_calls = IF stops THEN 1 ELSE Advanced(@)]
        /\ call' = [call EXCEPT ![t] = IF stops THEN [c EXCEPT !.at = "hooks", !.step = 0,
                                                              !.hook = @ + 1]
                                       ELSE Advance(c)]
        /\ UNCHANGED <<request, nonce, free, built, calls>>

Parse(t) ==
    /\ InStep(t, "Parse") /\ GoOn(t)
    /\ local' = [local EXCEPT ![t].chal = call[t].response.chal]
    /\ UNCHANGED <<request, nonce, free, built, calls>>

\* Reading the body to its end, and close(), both give the connection back.
ConsumeOrClose(t) ==
    /\ InStep(t, "Consume") \/ InStep(t, "Close")
    /\ call' = [call EXCEPT ![t] = [Advance(call[t]) EXCEPT !.response.held = FALSE]]
    /\ free' = free + Release(call[t])
    /\ UNCHANGED <<local, request, nonce, built, calls>>

BuildDigestHeader(t) ==
    /\ InStep(t, "PreparedParts") /\ local[t].chal.complete
    /\ local' = [local EXCEPT ![t] = Used(@)]
    /\ call' = [call EXCEPT ![t] = [Advance(call[t]) EXCEPT
                   !.carries = Stamped(request[call[t].req].auth, local[t])]]
    /\ Log(t, local[t])
    /\ UNCHANGED <<request, nonce, free, calls>>

\* build_digest_header raises: a KeyError, or a callback that fails after the
\* count was stored.
BuildFails(t) ==
    /\ InStep(t, "PreparedParts")
    /\ local' = [local EXCEPT ![t] = IF @.chal.complete THEN Counted(@) ELSE @]
    /\ call' = [call EXCEPT ![t] = Idle]
    /\ free' = free + Release(call[t])
    /\ UNCHANGED <<request, nonce, built, calls>>

\* r.connection.send: the adapter, not the session, so no hook runs on the
\* answer except the ones registered after this one.
Resend(t) ==
    LET c == Advance(call[t])
    IN  /\ InStep(t, "Send")
        /\ Exchange(t, call[t].carries,
                    [c EXCEPT !.resent = @ + 1, !.from = request[c.req].at])
        /\ UNCHANGED <<local, built, calls>>

-----------------------------------------------------------------------------
(* The end of Session.send *)

\* A redirect is followed: the answer is released, a body with a position is
\* rewound (one that cannot seek raises), the copy keeps its Authorization.
Follow(t) ==
    LET c == call[t]
    IN  /\ c.at = "hooks" /\ HooksDone(c) /\ c.response.status = "redirect" /\ c.hops < MaxHops
        /\ free' = free + Release(c)
        /\ call' = [call EXCEPT ![t] =
                      IF BodyOf[c.req] = "tell" THEN Idle
                      ELSE [c EXCEPT !.at = "send", !.hops = @ + 1, !.response = NoResponse]]
        /\ request' = [request EXCEPT ![c.req].at = IF BodyOf[c.req] = "file" THEN 0 ELSE @]
        /\ UNCHANGED <<local, nonce, built, calls>>

Deliver(t) ==
    LET c == call[t]
    IN  /\ c.at = "hooks" /\ HooksDone(c)
        /\ c.response.status = "redirect" => c.hops = MaxHops
        /\ free' = free + Release(c)
        /\ call' = [call EXCEPT ![t] = Idle]
        /\ UNCHANGED <<local, request, nonce, built, calls>>

Work(t) ==
    \/ Transmit(t) \/ Handle401(t) \/ HandleRedirect(t) \/ Seek(t) \/ Increment(t)
    \/ Parse(t) \/ ConsumeOrClose(t) \/ BuildDigestHeader(t) \/ BuildFails(t) \/ Resend(t)
    \/ Follow(t) \/ Deliver(t)

DigestNext ==
    \E t \in Threads :
      \/ Work(t) \/ Fail(t)
      \/ \E r \in Requests : Authenticate(t, r) \/ AuthenticateFails(t, r) \/ Start(t, r)

\* A thread inside Session.send keeps running; a wait for a connection is a
\* fair queue (the semaphore of AdapterPool).
DigestSpec == DigestInit /\ [][DigestNext]_digestVars /\ \A t \in Threads : WF_digestVars(Work(t))

-----------------------------------------------------------------------------
(* Properties *)

\* A thread never puts the same count of the same nonce into two headers, in
\* whatever order its requests are prepared, answered and fail, as long as the
\* server does not go back to an older nonce: the count is stored before the
\* callbacks that may fail, the nonce only after them.
CountNeverRepeats ==
    \A t \in Threads : \A i, j \in 1..Len(built[t]) : i # j => built[t][i] # built[t][j]

\* An answer to an authenticated resend is not authenticated again, although
\* handle_401 may be registered twice on the request (MaxHooks = 2):
\* num_401_calls ends the exchange.
OneResendPerHop ==
    \A t \in Threads : call[t].at # "idle" => call[t].resent <= 1

\* A resend starts no later in the body than the send it repeats, as long as
\* the body can seek and this request is the last one the thread prepared, with
\* its body unread (`pos` is one field of the thread, not of the request).
ResendsWholeBody ==
    \A t \in Threads :
      (call[t].at # "idle" /\ call[t].resent > 0 /\ BodyOf[call[t].req] # "tell"
         /\ local[t].owner = call[t].req)
        => call[t].from <= call[t].first

\* The answer to an authenticated resend is not authenticated again, although
\* handle_401 may be registered twice, and a resend starts no later in its body
\* than the send it repeats (if the body can seek and no other request was
\* prepared by the thread in between).
ResendIsSound == OneResendPerHop /\ ResendsWholeBody

\* A send ends even if the adapter has a single connection: the 401 gives its
\* connection back before the resend asks for one.
SendEnds == \A t \in Threads : (call[t].at # "idle") ~> (call[t].at = "idle")
=============================================================================
