---------------------------- MODULE Preparation ----------------------------
(***************************************************************************)
(* The preparation of one PreparedRequest by the native stages behind the  *)
(* model facade (crates/requests-python/src/models.rs and body.rs, with    *)
(* the pure part in crates/requests/src/models.rs).  PreparedRequest       *)
(* .prepare calls its stages in a fixed order; each stage runs natively    *)
(* only when the extension can prove that nothing the retained Python      *)
(* method would have looked up has been replaced, and otherwise calls that *)
(* method.  Between two stages user code may replace or restore any of     *)
(* these places.                                                           *)
(*                                                                         *)
(* A place is a pair: <<"entry", n>> is the binding of the name n (in the  *)
(* class for a method, in the module for a global), <<"code", n>> the code *)
(* and defaults of the function n, <<"instance", n>> an attribute of the   *)
(* request itself that hides the method n.                                 *)
(*                                                                         *)
(* Texts, names and URLs are the classes the stages tell apart; a body is  *)
(* its kind and its length, a file also has an offset.  Cookies and hooks  *)
(* have no native stage (prepare_auth calls the Python method back) and    *)
(* touch none of the state here.                                           *)
(***************************************************************************)
EXTENDS Integers, Sequences, SequencesExt

CONSTANTS
  Patchable,   \* the places user code replaces in this instance
  MaxPatches,  \* bound on replacements and restorations
  MaxPrepares, \* bound on calls of prepare on the same object
  MaxRows      \* bound on the rows of the header mapping

Methods == {"None", "GET", "POST", "x", "other"}
Urls == {"nonHttp", "huge", "odd", "plain", "noScheme", "noHost",
         "badLabel", "badParse", "object"}
UrlErrors == {"noScheme", "noHost", "badLabel", "badParse"}
Params == {"None", "text", "mapping"}
RowKinds == {"ok", "badName", "badValue", "foreign"}
Keys == {"a", "cl"}
FileEnd == 2

VARIABLES
  stage,     \* the next stage, or "done", "failed"
  patched,   \* the places that are replaced now
  changes,   \* replacements and restorations so far
  prepares,  \* calls of prepare so far
  method, headers, cl, te, body, position, \* the fields of the request
  rows,      \* the header rows given to prepare_headers, until the body stage
  start,     \* where the file stood when its position was recorded
  offset,    \* where the file stands
  ignored    \* per stage: replaced places that a native run passed over

vars == <<stage, patched, changes, prepares, method, headers, cl, te, body,
          position, rows, start, offset, ignored>>

fields == <<method, headers, cl, te, body, position, rows, start, offset>>

NativeStages == {"prepare_method", "prepare_url", "prepare_headers",
                 "prepare_body", "prepare_content_length", "_basic_auth_str"}

-----------------------------------------------------------------------------
(* What the Python methods look up.                                        *)

\* The globals each helper reads, as far as a caller can replace them.
Reads ==
  [n \in {"to_native_string", "parse_url", "_normalize_host", "_idna_encode",
          "requote_uri", "unquote_unreserved", "quote", "quote_from_bytes",
          "unicode_is_ascii", "urlunparse", "check_header_validity",
          "_validate_header_part", "CaseInsensitiveDict.__init__",
          "CaseInsensitiveDict.update", "CaseInsensitiveDict.__setitem__"} |->
     CASE n = "to_native_string" -> {"builtin_str"}
       [] n = "parse_url" -> {"_normalize_host", "url.LocationParseError"}
       [] n = "_normalize_host" -> {"_idna_encode", "url.LocationParseError"}
       [] n = "_idna_encode" -> {"url.LocationParseError"}
       [] n = "requote_uri" -> {"unquote_unreserved", "quote", "utils.InvalidURL"}
       [] n = "unquote_unreserved" -> {"UNRESERVED_SET", "utils.InvalidURL"}
       [] n = "quote" -> {"quote_from_bytes"}
       [] n = "quote_from_bytes" -> {"_byte_quoter_factory", "math"}
       [] n = "check_header_validity" -> {"_validate_header_part"}
       [] n = "_validate_header_part" -> {"_HEADER_VALIDATORS", "InvalidHeader"}
       [] n = "CaseInsensitiveDict.__init__" -> {"OrderedDict"}
       [] OTHER -> {}]

\* The globals a helper reads only on an error or for an input the native
\* stage leaves to Python, which its verification therefore skips.
IgnoredGlobals(n) ==
  CASE n = "_validate_header_part" -> {"InvalidHeader"}
    [] n \in {"requote_uri", "unquote_unreserved"} -> {"utils.InvalidURL"}
    [] n = "quote_from_bytes" -> {"math"}
    [] n \in {"parse_url", "_normalize_host", "_idna_encode"} ->
         {"url.LocationParseError"}
    [] n = "CaseInsensitiveDict.__init__" -> {"OrderedDict"}
    [] OTHER -> {}

Entry(n) == <<"entry", n>>
Code(n) == <<"code", n>>
MethodPlaces(s) ==
  {Entry(s), Code(s), <<"instance", s>>, Entry("__getattribute__"), Entry("__setattr__")}

\* What running the helper n touches; the call graph is four deep.
OneCall(ns) == ns \cup UNION {Reads[n] : n \in ns \cap DOMAIN Reads}
Closure(ns) ==
  LET reached == OneCall(OneCall(OneCall(OneCall(ns))))
  IN  {Entry(n) : n \in reached} \cup {Code(n) : n \in reached \cap DOMAIN Reads}

\* Without the classes that only an error or an oversized input brings in.
Rare == {Entry("utils.InvalidURL"), Entry("url.LocationParseError"),
         Entry("InvalidHeader"), Entry("math")}
Helpers(ns) == Closure(ns) \ Rare

MethodUses(m) ==
  MethodPlaces("prepare_method") \cup
  (IF m = "None" THEN {} ELSE Helpers({"to_native_string"}))

UrlUses(u, p) ==
  LET parse == Helpers({"parse_url"})
      failure ==
        CASE u = "badParse" -> {Entry("url.LocationParseError"), Entry("LocationParseError"),
                                Entry("models.InvalidURL")}
          [] u = "noScheme" -> {Entry("MissingSchema")}
          [] u \in {"noHost", "badLabel"} -> {Entry("models.InvalidURL")}
          [] OTHER -> {}
      params ==
        CASE p = "None" -> {}
          [] p = "text" -> Helpers({"to_native_string"}) \cup MethodPlaces("_encode_params")
          [] OTHER -> MethodPlaces("_encode_params")
  IN  MethodPlaces("prepare_url") \cup {Entry("isinstance"), Entry("str")} \cup
      CASE u = "nonHttp" -> {}
        [] u \in {"badParse", "noScheme", "noHost"} -> parse \cup failure
        [] u = "badLabel" -> parse \cup failure \cup Helpers({"unicode_is_ascii"})
        [] OTHER ->
             parse \cup params \cup Helpers({"unicode_is_ascii", "requote_uri", "urlunparse"})

HeaderUses(rs) ==
  MethodPlaces("prepare_headers") \cup {Entry("CaseInsensitiveDict")} \cup
  Helpers({"CaseInsensitiveDict.__init__", "CaseInsensitiveDict.update"}) \cup
  (IF rs = <<>> THEN {}
   ELSE Helpers({"check_header_validity", "to_native_string", "CaseInsensitiveDict.__setitem__"})) \cup
  (IF \E i \in DOMAIN rs : rs[i].kind \in {"badName", "badValue"}
   THEN {Entry("InvalidHeader")} ELSE {})

\* HTTPBasicAuth applied to the request, with text or bytes credentials.
BasicUses ==
  {Entry("HTTPBasicAuth"), Entry("HTTPBasicAuth.__call__"), Code("HTTPBasicAuth.__call__"),
   Entry("_basic_auth_str"), Code("_basic_auth_str"), Entry("auth.basestring"),
   Entry("b64encode"), Entry("auth.to_native_string"), Code("to_native_string"),
   Entry("builtin_str")}

-----------------------------------------------------------------------------
(* What the native stages verify.                                          *)

Intact(places) == places \cap patched = {}

\* A value that is no function is compared with what it must be, a builtin
\* with the interpreter's own.
KnownValueIs(n) == Intact({Entry(n)})
IntrinsicIs(n) == Intact({Entry(n)})

KnownFunctions == DOMAIN Reads

\* Defect for the checks: the functions a verified function calls are not
\* verified in their turn.
CanonicalShallow(n) ==
  Intact({Code(n)} \cup {Entry(g) : g \in Reads[n] \ IgnoredGlobals(n)})

RECURSIVE CanonicalBelow(_, _)
CanonicalBelow(n, ancestors) ==
  /\ Intact({Code(n)})
  /\ \A g \in Reads[n] \ IgnoredGlobals(n) :
       IF g \in KnownFunctions
       THEN Intact({Entry(g)}) /\ (g \notin ancestors => CanonicalBelow(g, ancestors \cup {n}))
       ELSE KnownValueIs(g)

\* canonical_function_is: code, defaults and, for every global the code
\* loads, the same binding and in turn a canonical function.
Canonical(n) == CanonicalBelow(n, {n})

Verified(n) == Intact({Entry(n)}) /\ Canonical(n)

\* The method is the class's own, the object does not hide it, and neither
\* attribute access nor the function was replaced.
TrustedMethod(s) == Intact(MethodPlaces(s))

TrustedNativeString == Verified("to_native_string")

TrustedUrlInput == IntrinsicIs("isinstance") /\ IntrinsicIs("str")

TrustedUrlParse ==
  \A n \in {"parse_url", "requote_uri", "unicode_is_ascii", "urlunparse"} : Verified(n)

TrustedUrlError(u) ==
  CASE u \in {"badLabel", "noHost"} -> Intact({Entry("models.InvalidURL")})
    [] u = "noScheme" -> Intact({Entry("MissingSchema")})
    [] u = "badParse" -> Intact({Entry("LocationParseError"), Entry("models.InvalidURL")})
    [] OTHER -> TRUE

TrustedUrlParams(p) ==
  CASE p = "None" -> TRUE
    [] p = "text" -> Intact(MethodPlaces("_encode_params"))
    [] OTHER -> FALSE

TrustedHeaders(rs) ==
  /\ Intact({Entry("CaseInsensitiveDict"), Entry("OrderedDict")})
  /\ Verified("CaseInsensitiveDict.__init__") /\ Verified("CaseInsensitiveDict.update")
  /\ rs # <<>> =>
       \A n \in {"check_header_validity", "_validate_header_part", "to_native_string",
                 "CaseInsensitiveDict.__setitem__"} : Verified(n)

\* basic_is_pristine and apply_is_pristine.
BasicIsPristine ==
  Intact({Entry("HTTPBasicAuth"), Entry("HTTPBasicAuth.__call__"), Entry("_basic_auth_str"),
          Code("_basic_auth_str"), Entry("auth.basestring"), Entry("b64encode"),
          Entry("auth.to_native_string"), Code("to_native_string")})

-----------------------------------------------------------------------------
(* The header rows.  A row has a key (names equal but for case share it),  *)
(* and is valid, invalid in one part, or of a type the native stage does   *)
(* not take.  A dictionary is the sequence of its [key, row] pairs.        *)

Put(d, key, i) ==
  IF \E j \in DOMAIN d : d[j].key = key
  THEN [j \in DOMAIN d |-> IF d[j].key = key THEN [key |-> key, row |-> i] ELSE d[j]]
  ELSE Append(d, [key |-> key, row |-> i])

NoHeaders == <<[key |-> "None", row |-> 0]>>

BadRows(rs) == {i \in DOMAIN rs : rs[i].kind \in {"badName", "badValue"}}

\* The core's prepare_headers: the rows before the first invalid one.
Prepared(rs) ==
  LET stop == IF BadRows(rs) = {} THEN Len(rs)
              ELSE (CHOOSE i \in BadRows(rs) : \A j \in BadRows(rs) : i <= j) - 1
  IN  FoldLeftDomain(LAMBDA d, i : Put(d, rs[i].key, i), <<>>, SubSeq(rs, 1, stop))

\* The dictionary the stage leaves, an invalid row or not.
Materialize(rs) == FoldLeft(LAMBDA d, h : Put(d, h.key, h.row), <<>>, Prepared(rs))

\* The Python loop: check a row, store it, take the next.
RECURSIVE HeaderLoop(_, _, _)
HeaderLoop(rs, i, d) ==
  IF i > Len(rs) \/ i \in BadRows(rs) THEN d
  ELSE HeaderLoop(rs, i + 1, Put(d, rs[i].key, i))

-----------------------------------------------------------------------------
(* The body.                                                               *)

NoBody == [kind |-> "none", len |-> 0]
Bytes(n) == [kind |-> "bytes", len |-> n]
\* A file has seek; its tell works, raises OSError, or is absent.
File(tell) == [kind |-> "file", tell |-> tell]
Tells == {"works", "raises", "absent"}
Generator == [kind |-> "generator"]

\* Defect for the checks: a file whose tell raises is taken to stand at 0.
SuperLenOfAll(b, at) ==
  CASE b.kind = "file" -> IF b.tell = "works" THEN FileEnd - at ELSE FileEnd
    [] b.kind = "generator" -> 0
    [] OTHER -> b.len

\* super_len; 0 also stands for a length that cannot be found out: that of a
\* file whose tell raises, and of one that has neither tell nor a size.
SuperLen(b, at) ==
  CASE b.kind = "file" -> IF b.tell = "works" THEN FileEnd - at ELSE 0
    [] b.kind = "generator" -> 0
    [] OTHER -> b.len

User == 10        \* a Content-Length the caller supplied
Unset == -1

\* prepare_content_length; the new value of the header.
ContentLength(b, at, m, now) ==
  CASE b.kind # "none" /\ SuperLen(b, at) # 0 -> SuperLen(b, at)
    [] b.kind = "none" /\ m \notin {"GET", "HEAD"} /\ now = Unset -> 0
    [] OTHER -> now

-----------------------------------------------------------------------------
Ran(s, native, uses) ==
  ignored' = [ignored EXCEPT ![s] = IF native THEN uses \cap patched ELSE {}]

\* A one-character or non-ASCII method, or a field that is already set, goes
\* to Python.
PrepareMethod(m) ==
  LET native == /\ TrustedMethod("prepare_method") /\ method \in {"unset", "None"}
                /\ m \in {"GET", "POST"} => TrustedNativeString
                /\ m \notin {"x", "other"}
  IN  /\ stage = "prepare_method"
      /\ method' = m
      /\ Ran("prepare_method", native, MethodUses(m))
      /\ stage' = "prepare_url"
      /\ UNCHANGED <<patched, changes, prepares, headers, cl, te, body, position,
                     rows, start, offset>>

PrepareUrl(u, p) ==
  LET native == /\ TrustedMethod("prepare_url") /\ TrustedUrlInput
                /\ u \notin {"object", "huge", "odd"}
                /\ u # "nonHttp" =>
                     /\ TrustedUrlParse
                     /\ TrustedUrlError(u)
                     /\ u = "plain" => TrustedUrlParams(p)
  IN  /\ stage = "prepare_url"
      /\ Ran("prepare_url", native, UrlUses(u, p))
      /\ stage' = IF u \in UrlErrors THEN "failed" ELSE "prepare_headers"
      /\ UNCHANGED <<patched, changes, prepares, fields>>

PrepareHeaders(rs) ==
  LET native == /\ TrustedMethod("prepare_headers") /\ headers = NoHeaders
                /\ TrustedHeaders(rs)
                /\ \A i \in DOMAIN rs : rs[i].kind # "foreign"
                /\ BadRows(rs) # {} => Intact({Entry("InvalidHeader")})
      result == IF native THEN Materialize(rs) ELSE HeaderLoop(rs, 1, <<>>)
  IN  /\ stage = "prepare_headers"
      /\ headers' = result
      /\ rows' = rs
      /\ cl' = IF \E i \in DOMAIN result : result[i].key = "cl" THEN User ELSE Unset
      /\ te' = FALSE
      /\ Ran("prepare_headers", native, HeaderUses(rs))
      /\ stage' = IF BadRows(rs) = {} THEN "prepare_body" ELSE "failed"
      /\ UNCHANGED <<patched, changes, prepares, method, body, position, start, offset>>

\* _body_position after a streamed body: where tell says it stands, a
\* sentinel (-2) when tell raises, unchanged when there is no tell.
Recorded(data, at) ==
  CASE data.kind = "file" /\ data.tell = "works" -> at
    [] data.kind = "file" /\ data.tell = "raises" -> -2
    [] OTHER -> position

\* A file or generator: streamed; with files as well it is refused after the
\* position was recorded.  The fallback and the native stage resolve every
\* global when they run, so a replaced one is called by either.
PrepareStream(data, at, files) ==
  /\ stage = "prepare_body"
  /\ position' = Recorded(data, at)
  /\ IF files
     THEN stage' = "failed" /\ UNCHANGED <<cl, te, body>>
     ELSE /\ body' = data
          /\ cl' = IF SuperLen(data, at) # 0 THEN SuperLen(data, at) ELSE cl
          /\ te' = (te \/ SuperLen(data, at) = 0)
          /\ stage' = "prepare_auth"
  /\ offset' = at /\ start' = at
  /\ Ran("prepare_body", TrustedMethod("prepare_body"), MethodPlaces("prepare_body"))
  /\ rows' = <<>>
  /\ UNCHANGED <<patched, changes, prepares, method, headers>>

\* Everything else: JSON, a form, a text or files make bytes, nothing makes
\* no body; JSON that does not serialise raises before anything is stored.
PrepareRaw(b) ==
  /\ stage = "prepare_body"
  /\ body' = b
  /\ cl' = ContentLength(b, 0, method, cl)
  /\ stage' = "prepare_auth"
  /\ ignored' = [ignored EXCEPT !["prepare_body"] =
       IF TrustedMethod("prepare_body") THEN MethodPlaces("prepare_body") \cap patched ELSE {},
                                !["prepare_content_length"] =
       IF TrustedMethod("prepare_content_length")
       THEN MethodPlaces("prepare_content_length") \cap patched ELSE {}]
  /\ rows' = <<>>
  /\ UNCHANGED <<patched, changes, prepares, method, headers, te, position, start,
                 offset>>

BadJson ==
  /\ stage = "prepare_body"
  /\ stage' = "failed"
  /\ Ran("prepare_body", TrustedMethod("prepare_body"), MethodPlaces("prepare_body"))
  /\ UNCHANGED <<patched, changes, prepares, fields>>

AuthKinds == {"none", "basic", "object", "signed", "hashed"}

\* prepare_auth, always the Python method: the authentication sets a header
\* (basic credentials natively when they are text or bytes, "object" when
\* they are not), replaces the body, or reads it; unless there is none, the
\* content length is prepared again.
PrepareAuth(auth) ==
  /\ stage = "prepare_auth"
  /\ body' = IF auth = "signed" THEN Bytes(3) ELSE body
  /\ offset' = IF auth = "hashed" THEN FileEnd ELSE offset
  /\ cl' = IF auth = "none" THEN cl ELSE ContentLength(body', offset', method, cl)
  /\ stage' = "done"
  /\ ignored' = [ignored EXCEPT
       !["prepare_content_length"] =
         IF auth # "none" /\ TrustedMethod("prepare_content_length")
         THEN MethodPlaces("prepare_content_length") \cap patched ELSE {},
       !["_basic_auth_str"] =
         IF auth = "basic" /\ BasicIsPristine THEN BasicUses \cap patched ELSE {}]
  /\ UNCHANGED <<patched, changes, prepares, method, headers, te, position, rows, start>>

\* HTTPAdapter.send hands the body to the connection, which reads a file to its
\* end.
Transmit ==
  /\ stage = "done"
  /\ stage' = "sent"
  /\ offset' = FileEnd
  /\ UNCHANGED <<patched, changes, prepares, method, headers, cl, te, body, position,
                 rows, start, ignored>>

\* _rewind_body_trial: an integer position is sought, whichever body it was
\* recorded for; seeking may fail, and a body without seek is refused.
Rewind ==
  /\ stage = "sent"
  /\ IF body.kind = "file" /\ position >= 0
     THEN \/ offset' = position /\ stage' = "rewound"
          \/ offset' = offset /\ stage' = "unrewindable"
     ELSE offset' = offset /\ stage' = "unrewindable"
  /\ UNCHANGED <<patched, changes, prepares, method, headers, cl, te, body, position,
                 rows, start, ignored>>

\* prepare on an object that was prepared before: the fields are kept.
Again ==
  /\ stage \in {"done", "failed", "sent", "rewound", "unrewindable"}
  /\ prepares < MaxPrepares
  /\ prepares' = prepares + 1
  /\ stage' = "prepare_method"
  /\ UNCHANGED <<patched, changes, fields, ignored>>

Patch(p) ==
  /\ changes < MaxPatches
  /\ patched' = IF p \in patched THEN patched \ {p} ELSE patched \cup {p}
  /\ changes' = changes + 1
  /\ UNCHANGED <<stage, prepares, fields, ignored>>

Init ==
  /\ stage = "prepare_method"
  /\ patched = {} /\ changes = 0 /\ prepares = 1
  /\ method = "unset" /\ headers = NoHeaders /\ rows = <<>>
  /\ cl = Unset /\ te = FALSE
  /\ body = NoBody /\ position = Unset
  /\ start = 0 /\ offset = 0
  /\ ignored = [s \in NativeStages |-> {}]

Rows == SeqOf([key : Keys, kind : RowKinds], MaxRows)

Next ==
  \/ \E m \in Methods : PrepareMethod(m)
  \/ \E u \in Urls, p \in Params : PrepareUrl(u, p)
  \/ \E rs \in Rows : PrepareHeaders(rs)
  \/ \E data \in {File(t) : t \in Tells} \cup {Generator}, at \in 0..FileEnd, files \in BOOLEAN :
       PrepareStream(data, at, files)
  \/ \E b \in {NoBody, Bytes(0), Bytes(1)} : PrepareRaw(b)
  \/ BadJson
  \/ \E auth \in AuthKinds : PrepareAuth(auth)
  \/ Transmit
  \/ Rewind
  \/ Again
  \/ \E p \in Patchable : Patch(p)

Spec == Init /\ [][Next]_vars

-----------------------------------------------------------------------------
\* What the URL stage does not look at: the conversion of text parameters
\* (the parameter checks of trusted_url_parameter_dependencies name only
\* _encode_params), and the class urllib3's parser raises.
UrlGap == {Entry("to_native_string"), Code("to_native_string"), Entry("builtin_str"),
           Entry("url.LocationParseError")}

\* What basic authentication does not look at: the code of __call__, and the
\* global to_native_string reads.
BasicGap == {Code("HTTPBasicAuth.__call__"), Entry("builtin_str")}

Gap(s) ==
  CASE s = "prepare_url" -> UrlGap [] s = "_basic_auth_str" -> BasicGap [] OTHER -> {}

\* A stage that ran natively passed over no replacement the Python method
\* would have used: methods replaced on the class or hidden by the object,
\* helpers, the helpers' helpers, validators and, when the stage raises, the
\* error classes (models.rs, canonical_function_is and the trusted_*
\* functions), but for the places listed as its gap.
PatchesHonoured == \A s \in NativeStages : ignored[s] \subseteq Gap(s)

\* A replaced conversion of text parameters is used by the URL stage as well:
\* "the replacement must affect behavior" (PORTING.md, of every global a
\* translated method reads).
ParamsConversionHonoured == ignored["prepare_url"] \subseteq {Entry("url.LocationParseError")}

\* Once prepare_headers ran, the request holds what the Python loop leaves:
\* all rows, or on an invalid row exactly the rows before it, a repeated name
\* in the place of its first row (_prepare_headers_trial builds the whole
\* result first and stores it before it raises).
HeadersLikeTheLoop ==
  (stage = "prepare_body" \/ (stage = "failed" /\ BadRows(rows) # {})) =>
    headers = HeaderLoop(rows, 1, <<>>)

\* How much of a body is left, and whether super_len can know.
Rest(b, at) == IF b.kind = "file" THEN FileEnd - at ELSE b.len
Known(b) == b.kind = "bytes" \/ (b.kind = "file" /\ b.tell = "works")

\* A prepared request announces exactly what is left of a body whose length is
\* known, whatever the caller's headers said and whatever the authentication did
\* to the body; a stream of unknown length is chunked, and a file that tells its
\* position is chunked only if it stood at its end.
LengthMatchesBody ==
  stage = "done" =>
    /\ Known(body) /\ Rest(body, offset) > 0 => cl = Rest(body, offset)
    /\ body.kind \in {"file", "generator"} /\ ~Known(body) => te
    /\ te /\ body.kind = "file" /\ Known(body) => start = FileEnd

\* Rewinding for a redirect either fails or brings the file back to where it
\* stood when this request was prepared.  The one exception is a request that is
\* prepared a second time with a body that has seek and no tell: it goes to the
\* position that was recorded for the body before.
RewindRestores ==
  stage = "rewound" => offset = start \/ (body.tell = "absent" /\ prepares > 1)

\* The fields of a request agree with each other and with what Python's methods
\* leave: the headers, also after a row was refused, the announced length and
\* framing, and the position a redirect goes back to.
FieldsAgree == HeadersLikeTheLoop /\ LengthMatchesBody /\ RewindRestores
=============================================================================
