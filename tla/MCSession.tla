----------------------------- MODULE MCSession -----------------------------
(***************************************************************************)
(* The two halves of Session.request for TLC: the preparation of a request  *)
(* (Preparation) and its send with redirects, cookies and a shared cursor   *)
(* (SessionSend).  They are checked side by side: a behaviour runs the half *)
(* that part names, and the other stays in one of its initial states.       *)
(***************************************************************************)
EXTENDS SessionSend

CONSTANTS Home, Other

VARIABLES
    part, stage, patched, changes, prepares, method, headers, cl, te, body, position, rows,
    start, fileOffset, ignored

preparationVars == <<stage, patched, changes, prepares, method, headers, cl, te, body,
                     position, rows, start, fileOffset, ignored>>
allVars == <<part, vars, preparationVars>>

\* One place of each kind that a stage of the preparation depends on.
Places ==
    {<<"entry", n>> : n \in {"prepare_method", "__setattr__", "to_native_string", "builtin_str",
        "url.LocationParseError", "models.InvalidURL", "MissingSchema", "utils.InvalidURL",
        "math", "_HEADER_VALIDATORS", "InvalidHeader", "OrderedDict", "_encode_params",
        "b64encode"}}
      \cup {<<"code", n>> : n \in {"prepare_url", "quote_from_bytes", "prepare_content_length"}}
      \cup {<<"instance", "prepare_headers">>}

P == INSTANCE Preparation WITH
        Patchable <- Places, MaxPatches <- 1, MaxPrepares <- 2, MaxRows <- 2,
        offset <- fileOffset

\* Where a server sends the client: its own host over http, over https on another
\* port, the other host under the same scheme, another path.
Locations ==
    {[kind |-> "abs", scheme |-> "http", host |-> Home, port |-> 0],
     [kind |-> "abs", scheme |-> "https", host |-> Home, port |-> 8443],
     [kind |-> "net", scheme |-> "http", host |-> Other, port |-> 0],
     [kind |-> "rel", scheme |-> "http", host |-> Home, port |-> 0]}

Call(verb, scheme, data, auth, allow, stream) ==
    [method |-> verb, url |-> [scheme |-> scheme, host |-> Home, port |-> 0], body |-> data,
     auth |-> auth, allow |-> allow, stream |-> stream]

\* Requests with and without a body, credentials, redirects and streaming, and
\* one for a scheme that no adapter serves.
SomeCalls ==
    {Call("GET", "http", "none", TRUE, allow, stream) : allow, stream \in BOOLEAN}
      \cup {Call("POST", "https", data, TRUE, allow, FALSE) :
              data \in {"bytes", "file", "pipe"}, allow \in BOOLEAN}
      \cup {Call("HEAD", "ftp", "none", FALSE, TRUE, FALSE),
            Call("HEAD", "http", "none", FALSE, TRUE, FALSE)}

Prefixes == {<<>>, <<"http", Home>>, <<"http", Other>>}

MCInit ==
    /\ part \in {"prepare", "send"}
    /\ P!Init
    /\ Init /\ (part # "send" => session.limit = 0)

MCNext ==
    \/ part = "prepare" /\ P!Next /\ UNCHANGED <<part, vars>>
    \/ part = "send" /\ Next /\ UNCHANGED <<part, preparationVars>>

MCSpec == MCInit /\ [][MCNext]_allVars

----------------------------------------------------------------------------
\* A stage that ran natively passed over no replacement that the Python method
\* would have used, but for the places listed as its gap (models.rs,
\* canonical_function_is and the trusted_* functions).
PatchesHonoured == P!PatchesHonoured

\* The fields of a request agree with each other and with what Python's methods
\* leave: the headers, also after a row was refused, the announced length and
\* framing, and the position a redirect goes back to.
FieldsAgree == P!FieldsAgree
=============================================================================
