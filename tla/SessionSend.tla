---------------------------- MODULE SessionSend ----------------------------
(***************************************************************************)
(* Session.request, Session.send and the redirect cursor of sessions.rs.    *)
(*                                                                          *)
(* One request is prepared and sent.  With allow_redirects the send drives  *)
(* a cursor of its own to its end; without, the response is returned with   *)
(* its _next request, and the caller may iterate resolve_redirects: then    *)
(* the cursor is shared by the threads in Users, who call next, close and   *)
(* frame on it while another one is inside an advance, which waits for the  *)
(* network in the middle.  The sends of an advance are nested: they never   *)
(* follow redirects themselves.                                             *)
(*                                                                          *)
(* The server is free: each reply picks a status, a Location, a cookie and  *)
(* how its content reads ("ok", "decode": the decoder fails and the raw     *)
(* bytes are readable, "broken").                                           *)
(***************************************************************************)
EXTENDS SessionRules

CONSTANTS
    Users,          \* threads that hold the cursor
    Targets,        \* the values of Location
    Statuses,       \* the statuses of replies
    Requests,       \* the calls of Session.request
    Limits,         \* the values of session.max_redirects
    Netrcs,         \* the hosts that .netrc may know
    Mountable,       \* the prefixes that may be mounted
    MaxMounts,      \* bound: calls of mount
    MaxCookies      \* bound: cookies set by the servers

ASSUME UsersAssumption == "send" \notin Users /\ NoValue \notin Users \cup {"send"}
ASSUME LimitsAssumption == Limits \subseteq Nat
ASSUME RequestsAssumption ==
    \A call \in Requests :
        call.url.host \in Hosts /\ call.body \in {"none", "bytes", "file", "pipe", "generator"}
ASSUME TargetsAssumption == \A target \in Targets : target.host \in Hosts

VARIABLES
    session,    \* [adapters, jar, limit, netrc, proxies, stream]
    pc,         \* where the send, or the advance, stands
    asked,      \* [allow, stream] of the outer send
    request,    \* the prepared request of the current send
    reply,      \* the last response: what the server said
    chain,      \* the responses received, in order: what becomes of them
    cursor,     \* the redirect cursor
    driver,     \* who runs the advance: "send", a user, or NoValue
    answer,     \* what the last call of a user on the cursor gave
    offset,     \* where the upload stream stands
    wire,       \* the last request that was put on the wire
    hops        \* how many were

vars == <<session, pc, asked, request, reply, chain, cursor, driver, answer,
          offset, wire, hops>>

NoCursor == [live |-> FALSE, running |-> FALSE, present |-> FALSE,
             terminal |-> "None", claimed |-> FALSE, history |-> <<>>]

EmptyJar == [h \in Hosts |-> 0]
EnvironProxies == [s \in {"http"} |-> "plain"]

\* tell() of a file returns a number, of a pipe it fails, a generator has none.
PositionOf(body) ==
    CASE body = "file" -> "known" [] body = "pipe" -> "unknown" [] OTHER -> "none"

FramingOf(body) ==
    CASE body \in {"bytes", "file"} -> "length"
      [] body \in {"pipe", "generator"} -> "chunked"
      [] OTHER -> "none"

\* construct_session: an adapter for each scheme, an empty jar.
NewSession(limit, netrc, proxies) ==
    [adapters |-> MountAdapter(MountAdapter(<<>>, <<"https">>, <<"https">>),
                               <<"http">>, <<"http">>),
     jar |-> EmptyJar, limit |-> limit, netrc |-> netrc, proxies |-> proxies,
     stream |-> FALSE, mounts |-> 0]

Init ==
    /\ \E limit \in Limits, netrc \in Netrcs :
        session = NewSession(limit, netrc, [s \in Schemes |-> "credentials"])
    /\ pc = "idle"
    /\ asked = [allow |-> FALSE, stream |-> FALSE, proxies |-> <<>>]
    /\ request = NoValue
    /\ reply = NoValue
    /\ chain = <<>>
    /\ cursor = NoCursor
    /\ driver = NoValue
    /\ answer = "none"
    /\ offset = "start"
    /\ wire = NoValue
    /\ hops = 0

-----------------------------------------------------------------------------
(* Before the send.                                                         *)

\* mount, of an adapter named after its prefix.
Mount(prefix) ==
    /\ pc = "idle"
    /\ session.mounts < MaxMounts
    /\ session' = [session EXCEPT !.adapters = MountAdapter(@, prefix, prefix),
                                  !.mounts = @ + 1]
    /\ UNCHANGED <<pc, asked, request, reply, chain, cursor, driver, answer, offset, wire, hops>>

\* Session.prepare_request, which session_request calls: the session's cookies,
\* then the request's, and its auth or, if it has none, that of .netrc.
Prepare(call) ==
    LET jar == MergeCookies(EmptyJar, session.jar)
    IN  [method    |-> call.method,
         url       |-> call.url,
         body      |-> call.body,
         framing   |-> FramingOf(call.body),
         position  |-> PositionOf(call.body),
         jar       |-> jar,
         cookie    |-> jar[call.url.host],
         auth      |-> IF call.auth \/ call.url.host \in session.netrc
                         THEN call.url.host ELSE NoHost,
         proxyAuth |-> FALSE]

\* session_request: the request is prepared, merge_environment_settings gives
\* its settings, and send is called.
Request(call) ==
    LET settings == MergeEnvironment([proxies |-> <<>>, stream |-> call.stream],
                                     session, EnvironProxies)
    IN  /\ pc = "idle"
        /\ request' = Prepare(call)
        /\ asked' = [allow |-> call.allow, stream |-> settings.stream,
                     proxies |-> settings.proxies]
        /\ pc' = "dispatch"
        /\ UNCHANGED <<session, reply, chain, cursor, driver, answer, offset, wire, hops>>

-----------------------------------------------------------------------------
(* Session.send, the outer one and those nested in an advance.              *)

Nested == driver # NoValue

\* The exception of a send goes through every send and advance around it.
FailSend ==
    /\ cursor' = IF Nested THEN [cursor EXCEPT !.running = FALSE, !.terminal = "Errored"]
                 ELSE cursor
    /\ answer' = IF driver \in Users THEN "error" ELSE answer
    /\ pc' = IF Nested /\ driver # "send" THEN "held" ELSE "failed"
    /\ driver' = NoValue

\* get_adapter, then adapter.send puts the request on the wire.
Dispatch ==
    /\ pc = "dispatch"
    /\ GetAdapter(session.adapters, request.url) # NoAdapter
    /\ wire' = [req |-> request, from |-> offset,
                by |-> GetAdapter(session.adapters, request.url)]
    /\ hops' = hops + 1
    /\ offset' = IF request.body \in {"file", "pipe", "generator"} THEN "end" ELSE offset
    /\ pc' = "wire"
    /\ UNCHANGED <<session, asked, request, reply, chain, cursor, driver, answer>>

\* InvalidSchema
NoAdapterFound ==
    /\ pc = "dispatch"
    /\ GetAdapter(session.adapters, request.url) = NoAdapter
    /\ FailSend
    /\ UNCHANGED <<session, asked, request, reply, chain, offset, wire, hops>>

\* adapter.send raises.
SendFails ==
    /\ pc = "wire"
    /\ FailSend
    /\ UNCHANGED <<session, asked, request, reply, chain, offset, wire, hops>>

CookiesSet == Cardinality({i \in DOMAIN chain : chain[i].cookies # EmptyJar})

\* adapter.send returns a response; hooks run, its cookies go to the session.
Reply(status, target, setsCookie, content) ==
    LET host    == request.url.host
        cookies == IF setsCookie THEN [EmptyJar EXCEPT ![host] = CookiesSet + 1] ELSE EmptyJar
    IN  /\ pc = "wire"
        /\ setsCookie => CookiesSet < MaxCookies
        /\ (target = NoTarget) = (status \notin RedirectStatus)
        /\ reply' = [url |-> request.url, status |-> status, target |-> target,
                     cookies |-> cookies, content |-> content]
        /\ chain' = Append(chain, [cookies |-> cookies, holds |-> TRUE, history |-> <<>>])
        /\ session' = [session EXCEPT !.jar = MergeCookies(@, cookies)]
        /\ pc' = IF asked.allow /\ ~Nested THEN "cursor" ELSE "peek"
        /\ UNCHANGED <<asked, request, cursor, driver, answer, offset, wire, hops>>

Last == Len(chain)

\* content_or_fallback: the content can be read, or the raw bytes when it does not
\* decode, or it was read before.
Reads == reply.content # "broken" \/ ~chain[Last].holds

\* Defect for the checks: content that does not decode is left unread.
ReleasedIfDecoded(c, i) ==
    IF reply.content = "decode" THEN c ELSE [c EXCEPT ![i].holds = FALSE]

\* Reading to the end, failing to, and close all give the connection back.
Released(c, i) == [c EXCEPT ![i].holds = FALSE]

\* Defect for the checks: one redirect more than max_redirects is followed.
OverLimit(history) == Len(history) > session.limit

\* len(history) >= max_redirects
AtLimit(history) == Len(history) >= session.limit

\* One step of a cursor over the last response, given the history so far: "done",
\* an exception, or the next request.
HopOutcome(history) ==
    LET next == NextRequest(request, reply, session.jar, session.netrc, asked.proxies)
    IN  IF RedirectTarget(reply) = NoTarget THEN [kind |-> "done"]
        ELSE IF ~Reads THEN [kind |-> "content_error"]
        ELSE IF AtLimit(history) THEN [kind |-> "too_many"]
        ELSE IF NeedsRewind(next) /\ ~Rewindable(next) THEN [kind |-> "unrewindable"]
        ELSE [kind |-> "next", req |-> next]

\* rewind_body of the next request.
OffsetAfter(outcome) ==
    IF outcome.kind = "next" /\ NeedsRewind(outcome.req) THEN "start" ELSE offset

\* Without allow_redirects the send computes _next with a cursor that yields
\* requests; StopIteration leaves it unset, any other exception is the send's.
PeekNext ==
    LET outcome == HopOutcome(<<>>)
    IN  /\ pc = "peek"
        /\ chain' = IF outcome.kind = "done" THEN chain ELSE Released(chain, Last)
        /\ offset' = OffsetAfter(outcome)
        /\ IF outcome.kind \in {"done", "next"}
             THEN pc' = "content" /\ UNCHANGED <<cursor, driver, answer>>
             ELSE FailSend
        /\ UNCHANGED <<session, asked, request, reply, wire, hops>>

\* if not stream: response.content
ReadContent ==
    /\ pc = "content"
    /\ asked.stream \/ reply.content = "ok" \/ ~chain[Last].holds
    /\ chain' = IF asked.stream THEN chain ELSE Released(chain, Last)
    /\ pc' = IF Nested THEN "resume" ELSE "done"
    /\ UNCHANGED <<session, asked, request, reply, cursor, driver, answer, offset, wire, hops>>

ReadContentFails ==
    /\ pc = "content"
    /\ ~asked.stream /\ reply.content # "ok" /\ chain[Last].holds
    /\ chain' = Released(chain, Last)
    /\ FailSend
    /\ UNCHANGED <<session, asked, request, reply, offset, wire, hops>>

-----------------------------------------------------------------------------
(* The cursor.                                                              *)

FreshCursor(claimed) ==
    [live |-> TRUE, running |-> FALSE, present |-> TRUE, terminal |-> "Live",
     claimed |-> claimed, history |-> <<>>]

\* send makes a cursor of its own.
OpenOwnCursor ==
    /\ pc = "cursor" /\ ~cursor.live
    /\ cursor' = FreshCursor(FALSE)
    /\ UNCHANGED <<session, pc, asked, request, reply, chain, driver, answer, offset, wire, hops>>

\* The caller iterates resolve_redirects over the returned response, and a
\* handle claims the cursor.
OpenSharedCursor ==
    /\ pc = "done" /\ ~asked.allow /\ ~cursor.live
    /\ cursor' = FreshCursor(TRUE)
    /\ pc' = "held"
    /\ UNCHANGED <<session, asked, request, reply, chain, driver, answer, offset, wire, hops>>

\* The advance of the cursor up to its nested send: the state is taken out, the
\* response is read and closed, the next request is built.
Advance(who) ==
    LET outcome == HopOutcome(cursor.history)
        opened  == Released([chain EXCEPT ![Last].history = cursor.history], Last)
    IN  /\ cursor.live /\ ~cursor.running /\ cursor.present
        /\ offset' = OffsetAfter(outcome)
        /\ chain' = IF outcome.kind = "done" THEN chain ELSE opened
        /\ IF outcome.kind = "next"
             THEN /\ cursor' = [cursor EXCEPT !.running = TRUE, !.present = FALSE,
                                              !.history = Append(@, Last)]
                  /\ request' = outcome.req
                  /\ pc' = "dispatch"
                  /\ driver' = who
                  /\ UNCHANGED answer
             ELSE /\ cursor' = [cursor EXCEPT !.present = FALSE,
                        !.terminal = IF outcome.kind = "done" THEN "Done" ELSE "Errored"]
                  /\ answer' = IF who \notin Users THEN answer
                                ELSE IF outcome.kind = "done" THEN "stop" ELSE "error"
                  /\ pc' = IF who # "send" THEN "held"
                           ELSE IF outcome.kind = "done" THEN "finish" ELSE "failed"
                  /\ UNCHANGED <<request, driver>>
        /\ UNCHANGED <<session, asked, reply, wire, hops>>

\* The nested send is back: its cookies are extracted again, the state is put
\* back and the response is yielded.
Resume ==
    /\ pc = "resume"
    /\ session' = [session EXCEPT !.jar = MergeCookies(@, reply.cookies)]
    /\ cursor' = [cursor EXCEPT !.running = FALSE, !.present = TRUE, !.terminal = "Live"]
    /\ answer' = IF driver \in Users THEN "value" ELSE answer
    /\ pc' = IF driver = "send" THEN "cursor" ELSE "held"
    /\ driver' = NoValue
    /\ UNCHANGED <<asked, request, reply, chain, offset, wire, hops>>

\* send takes the next item of its cursor.
SendAdvance == pc = "cursor" /\ Advance("send")

\* The history of the response that send returns.
Past(last) == [i \in 1..(last - 1) |-> i]

\* The cursor is exhausted: the first response goes in front, the last one is
\* returned with the others as its history, and is read unless it streams.
Finish ==
    LET whole == IF Last = 1 THEN chain ELSE [chain EXCEPT ![Last].history = Past(Last)]
    IN  /\ pc = "finish"
        /\ chain' = IF asked.stream THEN whole ELSE Released(whole, Last)
        /\ pc' = IF asked.stream \/ reply.content = "ok" \/ ~chain[Last].holds
                   THEN "done" ELSE "failed"
        /\ UNCHANGED <<session, asked, request, reply, cursor, driver, answer, offset, wire, hops>>

-----------------------------------------------------------------------------
(* Calls of the threads that hold the cursor.                               *)

Shared == cursor.live /\ cursor.claimed

Answer(a) ==
    /\ answer' = a
    /\ UNCHANGED <<session, pc, asked, request, reply, chain, driver, offset, wire, hops>>

\* next, when nobody else is inside.
UserNext(u) == pc = "held" /\ Shared /\ Advance(u)

\* next on a cursor without state.
UserNextStops(u) ==
    /\ pc = "held" /\ Shared /\ ~cursor.running /\ ~cursor.present
    /\ Answer("stop")
    /\ UNCHANGED cursor

\* next or close while an advance runs: "generator already executing".
UserBusy(u) ==
    /\ Shared /\ cursor.running /\ u # driver
    /\ Answer("busy")
    /\ UNCHANGED cursor

\* Defect for the checks: close does not look whether an advance runs.
UserCloseRunning(u) ==
    /\ Shared
    /\ cursor' = [cursor EXCEPT !.present = FALSE, !.terminal = "Closed"]
    /\ Answer("closed")

\* close, or the handle is dropped: the state is taken out and released.
UserClose(u) ==
    /\ Shared /\ ~cursor.running
    /\ cursor' = [cursor EXCEPT !.present = FALSE, !.terminal = "Closed"]
    /\ Answer("closed")

-----------------------------------------------------------------------------
SendStep ==
    \/ Dispatch \/ NoAdapterFound
    \/ SendFails
    \/ \E status \in Statuses, target \in Targets \cup {NoTarget}, c \in BOOLEAN,
          content \in {"ok", "decode", "broken"} : Reply(status, target, c, content)
    \/ PeekNext \/ ReadContent \/ ReadContentFails
    \/ OpenOwnCursor \/ SendAdvance \/ Resume \/ Finish

Next ==
    \/ \E p \in Mountable : Mount(p)
    \/ \E call \in Requests : Request(call)
    \/ SendStep
    \/ OpenSharedCursor
    \/ \E u \in Users : UserNext(u) \/ UserNextStops(u) \/ UserBusy(u) \/ UserClose(u)

Spec == Init /\ [][Next]_vars

-----------------------------------------------------------------------------
(* Properties.                                                              *)

\* No response of a redirect chain keeps its connection while the next request
\* is sent: a chain never needs a second connection, or a second permit of a
\* blocking adapter, to make progress.
ReleasedBeforeNextHop ==
    pc \in {"dispatch", "wire"} => \A i \in DOMAIN chain : ~chain[i].holds

\* When send has followed redirects, the history of each response is the chain
\* before it, in the order of the requests.
HistoryIsTheChain ==
    (pc = "done" /\ asked.allow) =>
        \A i \in DOMAIN chain : chain[i].history = [j \in 1..(i - 1) |-> j]

\* At most max_redirects redirects are followed, by send and by a shared cursor.
RedirectsBounded == hops <= session.limit + 1

\* The history of each response is the chain of requests before it, in order,
\* and no chain is longer than max_redirects, by send and by a shared cursor.
ChainIsSound == HistoryIsTheChain /\ RedirectsBounded

\* A request that carries a body which can say where it started is sent from
\* there, on every hop, and no request has framing headers without a body.
BodySentWhole ==
    pc = "wire" =>
        /\ (wire.req.body = "none") = (wire.req.framing = "none")
        /\ (wire.req.body # "none" /\ wire.req.position = "known") => wire.from = "start"

\* The Authorization header of a request was made for its host name, whatever the
\* scheme and the port (AuthStrippedAsDecided says what those add), and a redirect
\* never puts Proxy-Authorization on a request that is tunnelled.
CredentialsStayHome ==
    pc = "wire" =>
        /\ wire.req.auth \in {NoHost, wire.req.url.host}
        /\ wire.req.proxyAuth => wire.req.url.scheme # "https"

\* Credentials follow a redirect only where should_strip_auth lets them: "assert
\* "Authorization" not in r.request.headers" after a downgrade to http
\* (tests/test_requests.py:1931), and the same for a changed port (1969).  reply is
\* still the response that was redirected.  The cursor does not ask.
AuthStrippedAsDecided ==
    (pc = "wire" /\ hops > 1 /\ wire.req.url.host \notin session.netrc
       /\ ShouldStripAuth(reply.url, wire.req.url)) =>
        wire.req.auth = NoHost

\* A request to a host carries the cookie that the host set last on an earlier
\* hop of the chain.
CookieNeverForgotten ==
    pc = "wire" => \A i \in DOMAIN chain :
        wire.req.cookie >= chain[i].cookies[wire.req.url.host]

\* What a session puts on the wire belongs to its URL, on every hop of a chain: the
\* body from its start, the credentials of the host name and no proxy credentials inside
\* a tunnel, and the cookie that the host set last.
EachHopItsOwn == BodySentWhole /\ CredentialsStayHome /\ CookieNeverForgotten

\* Each request went to the adapter of the longest prefix that matches its URL,
\* whatever the order in which adapters were mounted.
LongestPrefixWins ==
    pc = "wire" => \A i \in DOMAIN session.adapters :
        LET mine == CHOOSE j \in DOMAIN session.adapters : session.adapters[j][2] = wire.by
        IN  Matches(wire.req.url, session.adapters[i][1]) =>
                Len(session.adapters[i][1]) <= Len(session.adapters[mine][1])

\* A cursor that was closed yields nothing more and sends nothing more, whoever
\* was inside it when it was closed.
ClosedStaysClosed ==
    [][cursor.terminal = "Closed" =>
        cursor'.terminal = "Closed" /\ ~cursor'.present /\ hops' = hops]_vars
=============================================================================
