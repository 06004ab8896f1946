---------------------------- MODULE SessionRules ----------------------------
(***************************************************************************)
(* The rules by which sessions.rs merges settings, selects an adapter and   *)
(* turns a redirect response into the next request.  Each is a pure         *)
(* operator; SessionSend uses them in the steps of Session.send.            *)
(*                                                                          *)
(* A URL is [scheme, host, port], with port 0 when it names none; a         *)
(* Location header is a target [kind, scheme, host, port] whose kind says   *)
(* how much of it is written out: "abs" all of it, "net" starts with //,    *)
(* "rel" is a path.  Paths, queries and fragments are not modelled: no rule *)
(* here looks at them.  A prefix of the adapter mapping is a sequence of    *)
(* URL parts, <<scheme>> or <<scheme, host>>, and its length counts parts.  *)
(* A jar gives each host the version of the one cookie that it sets, 0 for  *)
(* none: cookies and .netrc look at no port.                                *)
(***************************************************************************)
EXTENDS Naturals, Sequences, FiniteSets, TLC

CONSTANTS
    Hosts,      \* the servers
    NoHost,     \* no credentials
    NoTarget,   \* the response has no Location
    NoValue,    \* None
    NoAdapter   \* get_adapter found nothing

Schemes == {"http", "https"}
Methods == {"GET", "POST", "HEAD"}
DefaultPort == [s \in Schemes |-> IF s = "http" THEN 80 ELSE 443]

-----------------------------------------------------------------------------
(* Settings.                                                                *)

\* merge_environment_value: the request's value wins, mappings are united and
\* lose the keys whose value is None.  isMap says that both have items().
MergeSetting(request, session, isMap) ==
    IF session = NoValue THEN request
    ELSE IF request = NoValue THEN session
    ELSE IF ~isMap THEN request
    ELSE LET merged == request @@ session
         IN  [k \in {k \in DOMAIN merged : merged[k] # NoValue} |-> merged[k]]

\* merge_environment_settings: the environment's proxies fill the gaps of the
\* request's, then each setting is merged with the session's.
MergeEnvironment(supplied, session, environ) ==
    [proxies |-> MergeSetting(IF supplied.proxies = NoValue THEN NoValue
                              ELSE supplied.proxies @@ environ,
                              session.proxies, TRUE),
     stream  |-> MergeSetting(supplied.stream, session.stream, FALSE)]

\* merge_cookies(jar, other): other's cookies replace jar's.
MergeCookies(jar, other) ==
    [h \in Hosts |-> IF other[h] # 0 THEN other[h] ELSE jar[h]]

-----------------------------------------------------------------------------
(* Adapters: an ordered mapping, as a sequence of <<prefix, adapter>>.      *)

\* Defect for the checks: shorter prefixes keep their place before the new one.
MountAdapterInPlace(adapters, prefix, a) ==
    IF \E i \in DOMAIN adapters : adapters[i][1] = prefix
      THEN [i \in DOMAIN adapters |->
              IF adapters[i][1] = prefix THEN <<prefix, a>> ELSE adapters[i]]
      ELSE Append(adapters, <<prefix, a>>)

\* mount: adapters[prefix] = adapter, which keeps the place of a prefix that is
\* already there, then every shorter prefix is popped and set again.
MountAdapter(adapters, prefix, a) ==
    LET placed == IF \E i \in DOMAIN adapters : adapters[i][1] = prefix
                    THEN [i \in DOMAIN adapters |->
                            IF adapters[i][1] = prefix THEN <<prefix, a>> ELSE adapters[i]]
                    ELSE Append(adapters, <<prefix, a>>)
        Shorter(e) == Len(e[1]) < Len(prefix)
    IN  SelectSeq(placed, LAMBDA e : ~Shorter(e)) \o SelectSeq(placed, Shorter)

\* url.lower().startswith(prefix.lower())
Matches(url, prefix) ==
    prefix \in {<<>>, <<url.scheme>>, <<url.scheme, url.host>>}

\* get_adapter: the first entry that matches.
GetAdapter(adapters, url) ==
    LET hits == SelectSeq(adapters, LAMBDA e : Matches(url, e[1]))
    IN  IF hits = <<>> THEN NoAdapter ELSE Head(hits)[2]

-----------------------------------------------------------------------------
(* Redirects.                                                               *)

RedirectStatus == {301, 302, 303, 307, 308}

\* get_redirect_target: Location, of a response with is_redirect.
RedirectTarget(response) ==
    IF response.status \in RedirectStatus THEN response.target ELSE NoTarget

\* Scheme-relative and relative targets are completed from the response's URL.
ResolveTarget(target, base) ==
    [scheme |-> IF target.kind = "abs" THEN target.scheme ELSE base.scheme,
     host   |-> IF target.kind = "rel" THEN base.host ELSE target.host,
     port   |-> IF target.kind = "rel" THEN base.port ELSE target.port]

\* rebuild_method
RebuildMethod(method, status) ==
    IF \/ status \in {302, 303} /\ method # "HEAD"
       \/ status = 301 /\ method = "POST"
      THEN "GET" ELSE method

\* Content-Length, Content-Type, Transfer-Encoding and the body survive only a
\* temporary or permanent redirect that says so.
KeepsBody(status) == status \in {307, 308}

\* Defect for the checks: credentials follow a redirect anywhere.
RebuildAuthKeeping(request, base, url, netrc) ==
    IF url.host \in netrc THEN url.host ELSE request.auth

\* should_strip_auth, which Session.rebuild_auth asks and the cursor does not:
\* credentials stay with the scheme, host and port they were given for, but for
\* the upgrade from http to https on their standard ports.
ShouldStripAuth(old, new) ==
    LET Standard(url, scheme) == url.port \in {0, DefaultPort[scheme]}
    IN  \/ old.host # new.host
        \/ /\ ~(/\ old.scheme = "http" /\ Standard(old, "http")
                /\ new.scheme = "https" /\ Standard(new, "https"))
           /\ ~(/\ old.scheme = new.scheme /\ old.scheme \in Schemes
                /\ Standard(old, old.scheme) /\ Standard(new, old.scheme))
           /\ old.port # new.port \/ old.scheme # new.scheme

\* rebuild_auth_value: Authorization is dropped when the host name changes, and
\* only then; the .netrc entry of the new host replaces what is left.  netrc is
\* empty when the session does not trust the environment.
RebuildAuth(request, base, url, netrc) ==
    IF url.host \in netrc THEN url.host
    ELSE IF base.host # url.host THEN NoHost
    ELSE request.auth

\* rebuild_proxies: Proxy-Authorization is dropped, and set again when the proxy
\* of a plain scheme has credentials in its URL.
RebuildProxyAuth(url, proxies) ==
    /\ url.scheme \in DOMAIN proxies
    /\ proxies[url.scheme] = "credentials"
    /\ url.scheme # "https"

\* rewind_body: only a position that tell() returned can be sought.  A body with a
\* seek and no tell has no position of its own (Preparation, Recorded).
Rewindable(request) == request.position = "known"

\* Whether the next request's body is rewound before it is sent.
NeedsRewind(request) ==
    request.position # "none" /\ request.framing # "none"

\* The request of the next hop, before it is rewound.
NextRequest(request, response, sessionJar, netrc, proxies) ==
    LET url  == ResolveTarget(response.target, response.url)
        jar  == MergeCookies(MergeCookies(request.jar, response.cookies), sessionJar)
        keep == KeepsBody(response.status)
    IN  [method    |-> RebuildMethod(request.method, response.status),
         url       |-> url,
         body      |-> IF keep THEN request.body ELSE "none",
         framing   |-> IF keep THEN request.framing ELSE "none",
         position  |-> request.position,
         jar       |-> jar,
         cookie    |-> jar[url.host],
         auth      |-> RebuildAuth(request, response.url, url, netrc),
         proxyAuth |-> RebuildProxyAuth(url, proxies)]
=============================================================================
