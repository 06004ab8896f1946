# Verification of requests-native

`requests-native` is a Rust HTTP client (`crates/requests`) with a Python
extension (`crates/requests-python`) that stands behind the `requests` API.
This directory holds TLA+ models of the parts of it in which order, failure and
concurrency matter, the TLC runs that check them on small instances, and TLAPS
proofs that hold for every size. `PROJECT.json` lists components, runs, mutants,
hazards, theorems and, under `map`, the source lines behind each definition.

Run a check with `tlc -config MCTransport.cfg MCTransport`, a proof with
`tlapm TransportProofs.tla`.

## 1. The system

| component | state | operations | talks to |
|---|---|---|---|
| connection pool, `transport/pool.rs` | generation; by key an idle vector; leases with key, generation, terminal and cause | acquire, release, clear, complete | transport, under one mutex |
| connection driver, `transport/mod.rs` | raw socket handle, hyper's task | start, finish, shut down, abort, drop | hyper's connection task |
| transport, `transport/mod.rs` | one task per request; deadlines; upload progress | send, acquire_connection, connect_connection, clear_pool | pool, connector, proxy, TLS, hyper |
| content decoder, `transport/decode.rs` | codec, recorded beginning, replay, transport error | poll_next | hyper's body, response body |
| response body, `response.rs` | source, lease, counted bytes, deadlines, disposition | poll_next, finish_declared_length, close, drop | transport lease |
| body readers, `blocking.rs` | inner body, remainder, pending error, terminal flag | read, read_async, read_frame_async, finish_encoded_declared_length, close | response body, blocking runtime |
| adapter capacity, `adapters.rs` | semaphore, one permit per response | send_async, the reads, close | transport, body readers |
| retry policy, `retry.rs` | counters, history | increment, is_retry, backoff | adapter of the extension |
| blocking runtime, `blocking.rs` | driver registry, counters, submissions | driver_for, quiesce, submit, wait_ready_timeout, try_wait, wait, cancel, drop | tokio runtime; a forked child |
| origin bridge, `requests-python/runtime.rs`, `bridge.rs`, `callbacks.rs` | action queue and reply of a call, active submission and quarantine of the origin thread | both drives, callback, cancel, retain, reap | blocking runtime, Python, signals |
| adapter, `requests-python/adapters.rs`, `_rust_public.py`, `adapters.py` | side table of native pools by adapter with epochs, revisions and proofs; marks of threads inside an adapter; raw object of a response | register, send, close, unpickle, reap; read | bridge, adapter capacity, urllib3's managers |
| session, `requests-python/sessions.rs` | adapters by prefix, jar, redirect cursor | mount, prepare, send, next and close of a cursor | adapter, auth, cookies |
| preparation, `requests-python/models.rs`, `body.rs` | fields of a prepared request; what a native stage verified | prepare_method .. prepare_auth, rewind | Python globals |
| uploads, `requests-python/body.rs` | body adapter, worker, reply, failure | poll_next, body_action, collect, cancel | bridge |
| digest, `auth.rs` of both crates, `auth.py` | thread-local nonce, count, position, 401 count | `__call__`, handle_401, handle_redirect | session, adapter |
| response, `requests-python/response.rs` | `_content`, consumed, iterators, lines | content, iter_content, iter_lines, close, pickle | raw object |
| proxies, TLS, cookies, builders, harness | | | see section 6 |

What makes it hard:

* every `await` is a point where a deadline, the peer, hyper's driver task,
  `clear_pool` from another thread or the drop of the future may come first;
* a connection has three witnesses of its health (sender, driver task, peek on
  the raw handle), read outside the pool lock and used later;
* a response may end before its upload does, and its connection be parked with
  hyper still busy;
* a lease can be ended by end of stream, declared length, error, deadline,
  close, drop of the body and drop of the response, in any order;
* bytes travel through a decoder with a replay, a remainder, a partial output
  and a delayed error;
* a Python callback runs on the thread that waits for its worker and may make
  calls of its own; a signal can come anywhere in that, and the Python objects
  must not be dropped before the worker is done with them;
* a blocked thread, a worker and a canceller share one submission, and a fork
  copies all of it without the threads;
* Python lets a program replace any function at any time: a native path is
  admitted by proofs of identity that are taken, compared and recorded at
  different moments, some under a lock and some not;
* a redirect chain, a retry and a digest resend each send again what was sent
  before, with a connection, a body position and credentials left from last time.

## 2. Modules

| module | models | variables and actions |
|---|---|---|
| `ConnectionLifecycle` | abstract: unused, leased, idle, closed, with an epoch | the specification that the pool implements |
| `ConnectionPool` | `Pool`, `ConnectionLease`, `ConnectionDriver` | one action per critical section of the pool lock and per thing that happens to a connection outside it; `opened` and `keyOf` are history |
| `Transport` | `Transport::send` up to the return of the lease | extends `ConnectionPool` by a program counter per request; a phase is an await point; `uploading` and `responding` are hyper's view of the wire |
| `AdapterPool` | `AdapterPool` with `pool_block` | extends `Transport` by the semaphore and the permits |
| `ResponseBody` | `ResponseBody` and its readers, `AdapterResponseBody` | one body; bytes are their own positions; a read either is served from what is buffered or polls |
| `DecodedBody` | `DecodedBody`, `IncomingReader` | a stream of symbols (header, data, end, damage) of one of four formats; a poll of each state of the decoder is an action; the codecs are external operators |
| `ResponseContent` | `Response` over `NativeAdapterRaw` | the program calls content, iter_content, next, close, iter_lines, raw.read and pickle in any order; a read of the raw object is a function of it: what it fills, what it keeps back after an error, and where it says nothing because urllib3 1.26 would not; `\r` and `\n` are units of their own, so that a chunk may end between them; beside it, which of a class's methods run when some were replaced |
| `BlockingRuntime` | `DriverRegistry`, `BlockingSubmission` | variables of process memory are indexed by process, and `Fork` copies them |
| `OriginBridge` | `PythonCallContext`'s drives, `ActionSender`, the quarantine | one origin thread with a stack of calls, each at a point of its loop (`pc`); a worker, its request and its owner per call; `slot` is `handler_error`, `caught` what a nested call raised into a callback |
| `BodyStream` | `PythonBodyAdapter`, `collect_adapter`, `body_action` | worker and pump as two processes over one exchange; a chunk is a number and 0 an empty one |
| `DigestAuth` | `prepare_digest`, `Digest401Machine`, `digest_401_action`, `HTTPDigestAuth` | per thread the thread-local state and the call it is in; per request its hooks, header and body position; free connections; `built` is the history of headers |
| `BehaviorProof` | `behavior_proof` and its comparison | operators over a heap of objects with kinds and parts |
| `RetryPolicy` | `retry.rs`, `retry_snapshot` | operators: snapshot, charge, increment, is_retry, backoff |
| `AdapterSend` | `native_adapter_leaf`, `native_send_input` and the mapping of errors | one send as a sequence of stages; a second thread that rebinds an object or replaces the Retry at any of them |
| `AdapterRegistry` | `ADAPTER_POOLS` with register, send, close, drop, reap; `owner_access`, `owner_transition`, reservations of `_rust_public.py` | one adapter address; a thread's `pc` stands between two critical sections; `visible` is what the managers show, `retired` what the replaced ones show to an entry or a send that still holds them, `table` what was recorded |
| `SessionRules` | `should_strip_auth`, merging, mounting, choice of an adapter, rebuild of method, auth, proxies and body | operators |
| `SessionSend` | `session_send_with_builtins`, `SessionRedirectCursor` | one send with nested sends, the cursor and two threads that hold it |
| `Preparation` | the native stages of `PreparedRequest` | a program that patches places, then calls the stages; `ignored` collects the replaced places that a native stage passed over |
| `*Proofs` | theorems | |
| `MC*` | constants for TLC, and components side by side | |

How they fit together. `Transport` is written with the actions of
`ConnectionPool`, so that it implements the pool by the way it is composed
(`ImplementsPool`, a step of the proofs that carries the pool's theorems over and
not a property of a run). `AdapterPool`
restricts when `Transport` may start a request and adds nothing to its steps.
`ResponseBody` refines what `Transport` calls `BodyEnds` and `BodyAbandoned`:
`bodyLease = "clean"` is the one, `bodyLease = "dirty"` the other. The two meet in
`ReuseIsSafe` (part of `EndIsEarned`), which is what `Transport.BodyEnds` takes
for granted when it resets `responding`. `DecodedBody` sits below the source of
`ResponseBody`, and `ResponseContent` above its readers: a wire read gives a
frame, an end or a failure, which is what `BytesInOrder` and `EofIsHonest` say
of it. `OriginBridge` sees of a submission only whether its task runs, waits for
a reply or has ended, which is what `BlockingRuntime` promises of `try_wait`,
`wait` and `cancel`. `AdapterSend` takes of `AdapterRegistry` that a pool is
selected or refused and that an entered manager may be refused; of `AdapterPool`
that a send answers or fails. `SessionSend` and `DigestAuth` take of the adapter
that a send holds a connection from its answer to the release.

### Where the models abstract

* Pool keys, requests, connections, submissions and hosts are opaque.
* Each biased `select!` becomes a choice: what is a priority among events ready
  at one poll is a race of events in the model.
* Time is gone. A timeout that is configured may fire wherever the code waits
  for it; fairness says that one that is due fires. Backoff is an exponent.
* hyper is external: it runs a driver task, becomes ready when request and
  response of the previous exchange are done, ends a body with a
  Content-Length after exactly that many bytes and fails if the peer stops
  earlier. The codecs of async-compression and urllib3's decoders and managers
  are external too.
* `Response::drop` and `ResponseBody::drop` are the same event for the lease.
* Test hooks (`EstablishmentControl`, `SessionRuntimeHarness`, audits, phase
  probes) are left out. Most of `sessions.rs` that is not mapped is that.
* Empty frames are left out: the readers skip them in a loop.
* In `OriginBridge` a callback is any Python code: it returns, raises, makes
  calls, swallows or passes on what they raise. The origin is the main thread of
  the interpreter, the only one that is told of signals. Replies withheld by the
  session harness are left out, and so are the phases recorded for its audits:
  none that a pump records keeps an entry from being reaped.
* Submission ids and `ACTIVE_SUBMISSION_ID` are left out of `BlockingRuntime`;
  `Fork` happens once and not while the registry is locked (`PORTING.md`
  excludes the other case).
* Headers have opaque names and kinds of values, URLs a scheme, a host and a port
  (0 for none), cookies one value per host; text is not built or parsed.
* After its commitment a send reads `max_retries` once more, only to ask that
  object how long a `Retry-After` means (`adapters.rs:4071`, `4202` of the
  extension); durations are not in the model, and the counters are those of the
  policy taken before.
* `BodyStream` ends an interrupted upload with `cancel_and_wait`. The harness's
  `_body_stream_collect_trial` (`body.rs:523`) uses the owned drive instead, with
  its wait of 500 ms and its quarantine; both drives are in `OriginBridge`.
* The native stages of models, responses and auth are reached through `_trial`
  functions: the facade dispatches `session` and `adapter` always and the other
  groups within `_rust_public_trial`. They are modelled as what they do when
  they are reached.
* The session's cursor is reached by less than that. `_session_facade_trial`
  (`sessions.rs:7818`) answers `NotImplemented` to every operation but `send`, and
  `send` calls Python's own method: in this commit a program that uses the public
  API never runs `SessionRedirectCursor`. Only the differential harness does
  (`_session_runtime_trial` and the operations behind it). `SessionSend` is a model
  of that runtime, and what it shows is about the code as the facade would use it.

## 3. Runs

A run that is about several components runs them side by side: a variable
`part`, chosen at the start, says which of them a behaviour runs, and the others
keep one initial state in which all properties hold. The state space is the sum
of the parts, and each property is about its own. `MCWaits` extends
`BlockingRuntime`, `BodyStream` and `DigestAuth` and instantiates `OriginBridge`,
`MCAdapter` extends `AdapterSend` (through `MCAdapterSend`) and
`AdapterRegistry` and instantiates `ResponseContent`, and `MCResponse` extends
`ResponseBody` (through `MCResponseBody`) and `AdapterPool` and instantiates
`DecodedBody`, so that properties which are proved are checked in the form in
which they are proved. Components that do interact
are composed in modules of their own (`Transport` over `ConnectionPool`,
`AdapterPool` over `Transport`, `SessionSend` over `SessionRules`, `AdapterSend`
over `BehaviorProof` and `RetryPolicy`).

| run | instance | distinct states | shows |
|---|---|---|---|
| `transport` | 2 connections, 2 requests, 2 keys, limit 1, one clear, all timeouts | 0.28 million | `PoolPromises`, `LeasesAreSettled`, `NoOverlap`, refinement of `ConnectionLifecycle` |
| `response` | 2 connections, 2 requests, 1 permit, with a total timeout or with connect and read; bodies of up to 4 bytes, reads of 1, 2, 3 or all; streams of up to two members in four formats, right, cut, damaged or followed by more | 0.11 million | permits, deadlines and stale connections; the bytes, the end and the connection of a body; its decoding |
| `bridge` | 3 calls, either drive, one action per worker, 2 signals, destructors that call; deadlock checked | 2.0 million | `NestingIsSafe`, `NoAnonymousFailure` |
| `session` | one patch out of 18 places, 2 preparations, 2 header rows; 2 hosts, http and https with a port of its own, limits 0 and 2, one mount, 2 cookies, 2 threads with the cursor | 2.1 million | preparation and redirects |
| `adapter` | heaps of 3 objects, 3 attempts, 6 kinds of errors; 2 threads, 2 realms, 2 keys, one pool per realm, 3 operations; contents of 3 units in frames of 1 or 2, whole, incomplete, broken or damaged, two iterators, three delimiters | 2.9 million | admission, retries, exceptions; the side table; the content and the lines of a response |
| `waits` | one submission and a fork; 2 nested calls and a signal; uploads of up to 4 chunks; 2 threads, 2 requests, 1 connection, 3 digest calls | 0.20 million | everything that must eventually happen, and what may never happen meanwhile |
| `frame_read` | bodies of up to 3 bytes | | finding 1 |
| `interrupt_borrowed` | 2 borrowed calls, one signal | | finding 2 |
| `destructor` | 3 owned calls, one signal | | finding 3 |
| `registry_free_threaded` | 2 threads without a GIL, one pool | | finding 4 |
| `patched_url` | one patch | | finding 5 |
| `strip_auth` | as `session` | | finding 6 |

Several properties are conjunctions of named parts, each defined with its own
comment: `PoolPromises` (`ExclusiveOwnership`, `ClearIsABarrier`, `IdleBounded`,
`KeyIsolation`), `LifecycleKept` (`NoResurrection`, `ImplementsLifecycle`),
`LeasesAreSettled` (`LeaseMatchesPhase`, `ParkedIsDrained`), `DeadlinesHold` (one
per timeout), `AdapterPromises` (`InUseBounded`, `GoodConnectionsKept`,
`NoSocketLeak`), `EndIsEarned` (`EofIsHonest`, `ReuseIsSafe`),
`PermitFollowsLease` (`PermitCoversLease`, `PermitReturned`,
`ReleasedWithLastByte`), `NestingIsSafe` (`OwnerOutlivesWorker`,
`NestingIsRecorded`), `ResultsStayHome` (`OutputOnce`, `VerdictIsHonest`,
`AbortedAtHome`, `NoForeignWait`), `RetriesAreLegal`, `FieldsAgree`,
`ChainIsSound` (`HistoryIsTheChain`, `RedirectsBounded`), `EachHopItsOwn`
(`BodySentWhole`, `CredentialsStayHome`, `CookieNeverForgotten`), `ContentIsWhole`
(`EachByteOnce`, `TruncationReported`, `NeverAFragment`, `ClosedHoldsNothing`), and
those of the MC modules. `CredentialsStayHome` is about host names, which is what
the cursor compares; scheme and port are finding 6. `CommitIsFresh` compares what a send commits to with the program as
it is; that the comparison misses nothing which was replaced is `ProofIsExact`, a
part of `ProofIsCurrent` beside `ProofNeverGoesBack` and `ReplacedManagerRefused`.
`TableIsSound` consists of `LruSound`, `NoPoolForgotten`, `StaleEntryFenced` and
`NothingLeftBehind`. An order of keys holds a key once (`LruSound`, and the same
of urllib3's container), so that `AdapterRegistry` writes `retain` followed by
`push_back` as `RemoveFirst` and `Append`.

Some properties say where the code does less than one would hope, because Python
does too. `TruncationReported` excepts the body that ends early under urllib3 1.26,
which the extension passes for complete on purpose
(`suppresses_urllib3_126_incomplete`); all bytes that came must then have been
handed out. `LinesAreWhole` says exactly how lines depend on the cut of the body
into chunks: a cut inside `\r\n`, or right after a delimiter, adds one empty line,
as `tests_differential/test_response.py:1772` expects, and nothing else does.
`LengthMatchesBody` asks for a length only of a body whose length `super_len` can
find out: a file whose `tell` raises counts as empty and is sent in chunks
(`utils.py:204-210`). `RewindRestores` excepts a request that is prepared a second
time with a body that has `seek` and no `tell`: the position of the body before is
still there and the new one is sought to it (`body.rs:1139`, `1331`).
`StaleNeverCarries` is about a connection that went stale before the second probe;
one that ends after it cannot be told from one that ends during the exchange.

Why the bounds are enough. With limit 1 and two requests two leases can return
to a full key; a second key shows that nothing crosses. One clear puts every
other step before, during or after it. Two requests give every pairwise race
over one connection, and with one permit one of them waits. A timeout only
enables steps, so the set of all three contains the behaviours with fewer; the
run with the deadlines takes them apart, because there it matters which is missing. Four
bytes with reads of one to three give frames that are shorter than, equal to and
longer than a read, remainders that last for several reads and a declared length
reached in a frame or in a remainder. Members of a header, two bytes and an end
are cut at and damaged at every place. Three units of content hold a `\r\n` and a
byte before or after it, and a delimiter of two; frames of one cut them
everywhere. Three calls are the smallest instance in
which one is quarantined, a second reaps it and a third is made by the
destructor, and in which calls nest three deep. One action per worker lets its
callback make any number of calls. Two redirects reach a limit of two, and a
third host would behave as the second; a redirect may keep its host and change
scheme and port. A patch either is noticed or is not, so
that one at a time shows each; the places are one of each kind a stage depends
on. Three operations of two threads are the smallest instance in which a thread
is between two critical sections, another passes and a third observes;
a bound of two on optimistic attempts (`ProofAttempts`, eight in the code) has a
retry and a surrender. Counts of a nonce end far below `CountLimit`.

`CHECK_DEADLOCK FALSE` is set where a behaviour ends because its work is done or
because identities are not recycled (connections, cookies, operations); the
bridge, which must never be stuck, is checked for deadlock. Symmetry is used for
safety only.

### Fairness

`response` assumes of the sends weak fairness of what a task does when it is polled
(`OwnStep`) and of due timers (`Deadline`): tokio polls woken tasks and fires
timers. Nothing is assumed of the peer, of hyper or of the caller, so the
connection may stay silent for ever. `EveryoneGetsAPermit` assumes in its
statement that no caller keeps an unread body for ever, because the permit is
held that long by design; tokio's semaphore is first in, first out, and each
step of it is weakly fair. Of the decoder it assumes that a poll that can
make progress is made: bodies are finite and their frames arrive, which is what
the caller who waits for the end waits for. `waits` assumes that a thread whose
channel has a value or has lost its sender wakes up, and that tokio drops an
aborted task at its next await; that the origin thread is scheduled and its
timed waits end, while a worker may run for ever without an await and a callback
may never return (`EveryCallReturns` has the further assumption in its
statement, that callbacks end and workers go on: without it no caller is owed a
return); that worker and pump of an upload each go on; and that a thread inside
`Session.send` goes on when it can.

### Mutants

Every property of a passing run has a defect it must detect, defined next to the
definition it replaces and marked `Defect for the checks`: a generation read too
late, a permit dropped before the lease, an error forgotten after partial output,
one redirect too many, a prefix left in its place, a method not asked for before a
replay, a revision not compared, and so on. Each part of a conjunction was held
against a defect of its own before they were joined.

## 4. Findings

1. `read_frame_async` is documented to read at most one transport frame
   (`blocking.rs:802`). With a remainder shorter than the maximum it continues
   to poll: it returns bytes of two frames, or meets the end of the body, or
   waits with bytes in hand. The bounded decoder reads of the extension call it
   with a maximum of 8192. No byte is lost by it (`BytesInOrder` holds).
2. A call driven without an owner (`drive_with_signal_checker`: the sends of
   `HTTPAdapter`, body and response reads) answers a signal with
   `cancel_and_wait`, which has no deadline and checks no further signal.
   `LIFETIMES.tsv:102` describes the bounded wait of 500 ms for the pump as
   such. It matters for a worker that computes or blocks without an await. The
   unbounded wait is what keeps the borrowed objects safe
   (`OwnerOutlivesWorker`), so a bound would need the quarantine too.
3. `reap_origin_quarantine` drops owners while the quarantine is mutably
   borrowed. A Python destructor that makes a Requests call there meets a
   panic in its own reap, after its future was submitted, and its owner is
   dropped with the worker still running. Taking the reaped entries out of the
   cell before dropping them would avoid it.
4. `adapter_pool` decides under one lock whether it needs a candidate pool and
   uses it under the next. On a free-threaded build another thread can evict the
   pool in between; `expect` then panics with the registry locked. Making the
   candidate when the second look finds nothing would avoid it. With a GIL
   nothing in between gives it up, and the run `adapter` passes.
5. `prepare_url` in Python converts text parameters with the global
   `to_native_string`; the native stage does not look at that global.
   `PatchesHonoured` holds but for the places named in `UrlGap` (this one, and
   the class that urllib3's parser raises) and `BasicGap` (the code of
   `HTTPBasicAuth.__call__` and what `to_native_string` reads).

6. The cursor of the redirects drops `Authorization` when the host name changes
   and looks at nothing else (`sessions.rs:1268-1278`). `Session.rebuild_auth`
   asks `should_strip_auth` (`sessions.py:166-201`; its native copy at
   `sessions.rs:3486` is not called here), which also strips on a downgrade from
   https and on a changed port, and the repository's tests require both
   (`tests/test_requests.py:1931`, `1948`, `1969`). `AuthStrippedAsDecided` compares
   each redirected request with that function; the run finds a redirect to another
   port of the same host that carries the credentials along. A `should_strip_auth`
   that a subclass overrides is not asked either.

### Defects without a run

No line of the repository states these the other way, so that there is no property
to refute; the models have them, and the properties above except them by name:

* `iter_content(None)` of a response whose decoder is not bounded reaches
  `expect("frame reads always have a maximum")` (`adapters.rs:4496`, `4723` of the
  extension): the read panics and the body is lost (`ReadDecodedUnbounded`).
* After a read has failed and the program has caught the error, `content` is,
  silently, what a bounded decoder had made before the damage, or `b""` if the
  connection broke (`NeverAFragment` says that nothing else is possible).
* The position recorded for an earlier body of a prepared request is used for a
  later one that has `seek` and no `tell` (`RewindRestores`).

### Hazards without a property

Beside the self-deadlock of a caller that keeps a response with one permit,
which `PROJECT.json` lists, reading the code showed these. They are the reference
implementation's own behaviour or are promised nowhere, so that there is nothing
to check against:

* `poll_next` looks at the read deadline of the previous poll before it looks
  for data (`response.rs:484`): a consumer that pauses longer than the read
  timeout gets a timeout although bytes are there.
* The count of outstanding submissions lags behind results (`blocking.rs:96`)
  and is reset by a forked child without the registry lock (`blocking.rs:330`);
  both are modelled, only diagnostics read it.
* A fork while another thread holds the driver registry (`blocking.rs:397`) or
  the adapter registry (`adapters.rs:231` of the extension) leaves the child
  with a locked mutex. `PORTING.md` excludes the first; with a GIL `os.fork`
  cannot fall into the second.
* The cookies of a hop are extracted again after its nested send
  (`sessions.rs:1476`), over what another thread may have set in between;
  `no_proxy` is set in the environment for the length of a lookup
  (`sessions.rs:2795`); an adapter whose `close` raises keeps the later ones open
  (`sessions.rs:3567`).
* The optimistic loops of the adapter give up after eight attempts
  (`adapters.rs:2995`), and a manager put in place after the pool was selected is
  called once before the send is refused (`adapters.rs:4062`).
* `iter_content(0)` marks a response consumed, after which `close` skips
  `raw.close` (`response.rs:1162` of the extension).
* `nonce_count` is a `u32` that is added to without a check (`auth.rs:301`), and
  two threads with one auth object may both begin at 1 with one nonce.
* An auth callable that empties the body leaves its old `Content-Length`, one
  that turns a stream into bytes leaves both framing headers (`body.rs:1286`).

## 5. Proofs

All theorems hold for arbitrary sets of connections, keys, requests, calls,
submissions, hosts and users, and arbitrary limits. The assumptions are the named
`ASSUME`s of the modules:

* bounds and limits are naturals; `NoConn`, `NoKey`, `None` and `NoValue` are no
  members of the sets beside which they stand; `TimeoutChoices` consists of sets
  of timeouts; `Amounts` of positive sizes;
* `HeapsAssumption` and `RetriesAssumption` (`AdapterSend`): the objects of a heap
  have a kind and parts, a Retry has a counter for each reason and a history of
  rows. A counter may still be a value that the native code refuses;
* `RequestsAssumption`, `TargetsAssumption`, `UsersAssumption` (`SessionSend`):
  URLs name a host of `Hosts`, bodies are of one of the five kinds, and no user is
  called like the send's own driver;
* `RegistryAssumption` (`AdapterRegistry`): `Direct` is a realm and the bounds are
  naturals; `BodiesAssumption` (`BodyStream`): a body is a sequence of chunks;
  `DigestAssumption` and `AnswersAssumption` (`DigestAuth`): every request has a
  kind of body, and an answer has a status and what it says of a challenge.

Three theorems have a hypothesis of their own. `DigestCountNeverRepeats` holds
until a counter comes to its last value (`[]CountsLeft`): `nonce_count` is a
`u32` that wraps, and after the wrap the property is false. `DigestResendIsSound`
assumes `MaxHooks <= 2`, that an auth object is applied at most twice to one
request (by the preparation and by a redirect): `num_401_calls` is reset by the
hook that gives up, so that with three registrations the third hook of an answer
could send again. `RegistryCandidateIsThere` assumes a GIL (`~FreeThreaded`); the
run `registry_free_threaded` is its counterexample without one.

| module | component: inductive invariant | theorems about properties of runs |
|---|---|---|
| `TransportProofs` | `ConnectionPool`: `IInv`, `OpenIsOwned` | `PoolKeepsPromises`, `PoolLifecycleKept`; also `PoolNoSocketLeak` |
| | `Transport`: `TIInv`, `StartsQuiet`, `PoppedIsQuiet`, `Retired` | `TransportKeepsPoolPromises`, `TransportLeasesAreSettled`, `TransportNoOverlap`, `TransportStaleNeverCarries` |
| | `AdapterPool`: `AInv` | `AdapterKeepsPromises`; also `AdapterPoolImplementsTransport` |
| `ResponseBodyProofs` | `BInv`, `OrderInv` | `BodyEndIsEarned`, `BodyBytesInOrder`, `BodyPermitFollowsLease` |
| `WorkerProofs` | `BlockingRuntime`: `RInv` | `RuntimeResultsStayHome` |
| | `BodyStream`: `UploadInv` | `UploadStaysWhole`; also `UploadQuietAfterSignal` |
| `OriginBridgeProofs` | `OwnerInv`, `ErrorInv`, `NestInv` | `NestingIsSafeAlways`, `ExceptionsSurface` |
| `AdapterSendProofs` | `SInv` | `SendCommitIsFresh`, `SendRetriesAreLegal`, `SendRaisesHonestly`, `SendOneTransport` |
| `AdapterRegistryProofs` | `LedgerInv`, `CoordInv`, `CandidateInv`, `CurrentInv` | `RegistryTableIsSound`, `RegistryLiveEntryKept`; also `RegistryCandidateIsThere`, `RegistryProofIsCurrent` |
| `SessionSendProofs` | `SSInv` | `SessionReleasedBeforeNextHop`, `SessionChainIsSound`, `SessionEachHopItsOwn`, `SessionClosedStaysClosed` |
| `DigestAuthProofs` | `CountInv`, `ResendInv`, `BodyInv` | `DigestCountNeverRepeats`, `DigestResendIsSound` |

`TransportProofs`, the pool. `IInv` strengthens ownership by what makes it
inductive: every entry of a key is of the current generation
(`EntriesCurrent`), a driver that runs has an open socket
(`DriverKeepsSocket`), lease and slot agree with the history of their
connection (`LeaseFaithful`, `SlotFaithful`). The clear barrier needs both: a
lease carries the generation in which its connection was requested, and release
compares it with the pool's. From `IInv`: `PoolExclusiveOwnership`,
`PoolClearIsABarrier`, `PoolIdleBoundedAndIsolated`, together
`PoolKeepsPromises`, and `PoolNoResurrection`. For `PoolImplementsLifecycle`
`IInv` determines the status of each connection from slot, lease and socket, and
each action moves one connection or, for `Clear`, all the idle ones;
`PoolLifecycleKept` joins the two. `OpenIsOwned` is the other half of ownership:
a connection whose socket is dialled or open is in a slot or leased, since each
step that takes the last owner away also shuts the socket; `PoolNoSocketLeak`
follows.

`TransportProofs`, the transport. `PoolStep` shows that a step of the transport is a step of
the pool or leaves it alone, so that `IInv` carries over and
`TransportImplementsPool` follows; with it every theorem of the pool holds of
the transport (`TransportKeepsPoolPromises`). `TIInv` adds that a sent request
has a key, that phases and leases match (`LeaseMatchesPhase` is inductive only
together with the pool's types) and that a lease marked clean belongs to a
drained connection (`CleanIsDrained`), from which `ParkedIsDrained` follows
(`TransportLeasesAreSettled`). It needs ownership: a request that starts an
exchange must not do so on a connection in a slot or of another lease.
`TransportNoOverlap` is an action property: `StartsQuiet` says that the wire is
quiet wherever an exchange can be the next step, on a connection that is being
established or one that `ready()` has passed, and that it stays so because only
the request which owns the connection puts a body on it.
`TransportStaleNeverCarries` says of each connection that something stays: once it
is stale, quiet, past its establishment and with nobody who is past the probes
(`Retired`), every step leaves it so, because a send comes into the use of a
connection only by the probes or by establishing a fresh one (`WaysIntoUse`), and
the pool revives none (`StaysStale`). That a waiting connection which goes stale is
in that state needs `PoppedIsQuiet`: what was popped had been drained.

`TransportProofs`, the permits. `AdapterPoolImplementsTransport` is the refinement that makes
the theorems of the transport hold behind a blocking adapter. `AInv` adds a count:
for each key, the idle connections and the requests that use or establish one are
together at most the capacity (`RoomForUsers`). It is kept because a request
establishes a connection only when it found none idle, and holds a permit from
before to after it. From the count: connections in use are bounded, and a
connection that comes back always finds room, so that none is thrown away.

`ResponseBodyProofs`. `BInv` says that the lease is held exactly while there is
an inner body, that a clean lease was read to its end, that a dirty one left its
error with the caller, waiting, or with a caller that is gone, and that the
caller saw an end only of a clean one. The one arithmetical case is `Frame`: a
read that polls has room, so each frame gives it at least one byte and the
declared length is compared only when nothing remains.
`BodyReuseIsSafe` and `BodyEofIsHonest`, together `BodyEndIsEarned`,
`BodyPermitCoversLease` and `BodyDecidedOnce` follow, for bodies and reads of
every size. `OrderInv` follows the bytes: what the caller got, what a read in
progress has and what remains, joined, are the bytes received so far, numbered
from one; a read that polls found no remainder, and a declared length that is
reached leaves the lease only with an empty one. `WantedAndKept` and `NextBytes`
are the two facts about sequences it rests on. `BodyBytesInOrder` and
`BodyPermitFollowsLease` follow.

`WorkerProofs`, the runtime. `RInv` locates the output of a task: in the channel, then
in its handle, then handed out, in one place at a time and only in the process in
which the task lives. A fork copies handles and channels, so the invariant speaks
of the copy at home; of the others it needs only that they never wait, hand out
or abort, which is what the comparison of process numbers gives. The type invariant
is proved with it.

`WorkerProofs`, uploads. `UploadInv` says where the chunks are: those that were
taken from the body and are not empty are, in their order, the chunks collected
and the one in flight (`ChunksInv`). For it adapter, exchange and pump must be in
step (`ExchangeInv`: there is an exchange exactly while the adapter waits, and the
origin thread executes exactly what it has taken), an adapter that is done without
a failure must be at the end of its body (`EndInv`), and the pump must have left
with the verdict that error and failure give (`OutcomeInv`). "The chunks in order"
is stated by counting the chunks that are not empty in each prefix of the body, so
that no induction over the body is needed.

`OriginBridgeProofs`. The invariants are of three kinds. `OwnerInv`: an entry
marked terminal has a worker that ended (the waiter and the observed
cancellation are honest), and a call not made has no worker; so every return,
reap, take and teardown that gives up an owner does so after the end.
`ErrorInv`: a refusal in flight and a worker that failed on it have the exception
in the slot of their call. `NestInv`: the calls on the stack are distinct and in
progress, and the guard of each saved what `submit` recorded as the parent, so
that leaving restores the enclosing one at every depth. The theorems
`OwnerSafety`, `NestingSafety` (together `NestingIsSafeAlways`) and
`ExceptionsSurface` hold with destructors that call as well; the exception of
finding 3 is part of the property.

`AdapterSendProofs`. The admission's half of `SInv` says what the last look at the
program still vouches for: after the second comparison of identities the heap is
as it was frozen, or it was touched later than that comparison
(`IdentityVouched`), and the same of the Retry (`RetryVouched`). The loop's half is
an account: what the counter of a reason has lost is the number of rows that the
history was charged for since the loop began (`ReasonBalanced`), of the total at
least one is gone for each attempt that was repeated (`TotalBalanced`), and what
was repeated either cannot have reached the server or has a method that may be
repeated (`ReplaysAllowed`). `RetriesAreLegal` speaks of the sends, which the
policy never sees, so that it needs the account between the two. The proof does
not look into the comparison of heaps.

`SessionSendProofs`. `SSInv` has six parts. `Control` says who is inside the
cursor at each point: an advance has its driver, which is a user if the cursor was
claimed and the send otherwise, and a closed cursor is claimed, without state and
not running, hence its holders stand outside and every step but a second close
leaves it alone (`SessionClosedStaysClosed`). `OnlyLastHolds`: at most the last
response has its connection, and none while a request is sent. `Histories` and
`Bounded`: the history of the cursor is the chain before the last response, it is
compared with the limit before it grows, and there is at most one request on the
wire more than it has entries. `HopOwned`: the request carries what belongs to its
host and its body stands where it started. `CookiesOrdered`: the cookies of the
chain are numbered as they are set, so that the session's jar, which the newest
reply overwrites, is never older than any of them, and neither is the next
request, whose jar is merged with the session's last. That the second extraction of
a reply's cookies changes nothing is the last conjunct; it also holds of a reply
whose advance failed later, without which the part is not inductive.

`DigestAuthProofs`. `CountInv`: what a thread has counted is ahead of every header
it has made for the nonce it counts (`Ahead`), and its challenges come in the
order of the server's nonces (`InOrder`). A header that fails after its count was
stored has moved `nonce_count` and not `last_nonce`; the invariant therefore speaks
of the count only while the challenge repeats the nonce. `ResendInv` bounds the
resends of a call by the 401s that its thread has counted and by the hook it is
in. `BodyInv`: the saved position is the start of the body it belongs to, and
between rewind and resend the body stands there.

`AdapterRegistryProofs`. There are four invariants, each resting on those before.

* `LedgerInv` keeps the books of the native pools: an order names the pools of its
  realm, the identities in the table are distinct, were made and are exactly those
  not cleared. `RealmAdmits` computes what the second locked section of
  `adapter_pool` does to a realm for every `pool_connections`.
* `CoordInv` is the protocol between facade and extension. The marks are those of
  the threads (`MarkOf`, with `Phase` for the call each place belongs to), one
  thread at most registers (`OneHolder`), and while nothing disturbed its
  reservation it has the adapter alone (`Alone`). What a thread remembers of the
  entry is still so (`HeldBy`): nobody inserts over an entry, a registration that
  nothing disturbed finds the entry it proved, the reaper's epoch is not that of a
  live adapter. `Fenced` is the heart of it: an entry of a live adapter is for the
  managers that the adapter has and no unpickling is under way, or some thread is at
  a place from which it will take it away (`DoomedBy`). `StaleEntryFenced` alone
  says nothing of who removes the entry, and is lost when the transition ends.
  `Dead`, `Registered` and `Numbered` say that nobody is in a dead adapter, that the
  facade's entry is that of the table, and that epochs are used once; the last is
  why the reaper cannot take a later adapter's entry (`RegistryLiveEntryKept`).
* `CandidateInv`: with a GIL nobody runs while a thread is between the two sections
  of `adapter_pool`, hence the pool it found is still there.
* `CurrentInv`: the proof of an entry, and what a thread has seen and not yet
  recorded, is no newer than what the managers of that entry show now and contains
  no replaced manager; a thread whose revision is still that of the entry has seen
  something at least as new as the proof it will replace. It needs to follow each
  generation of managers past its replacement (`Observe`, `retired`), since an
  unpickling can replace them between the look and the recording. `ManagersStep`
  shows that what is observed of one generation only grows. `ProofNeverGoesBack` and
  `ReplacedManagerRefused` follow.

Only model-checked:

* the liveness properties and `DeadlinesHold`, which rest on fairness and `ENABLED`;
* `LongestPrefixWins` (`SelectSeq`), `ProofIsExact` (a recursive comparison of
  heaps), `DecodedHonestly`, `ContentIsWhole`, `LinesAreWhole`, `OwnMethodsRun`,
  `PatchesHonoured`, `FieldsAgree`: what is computed there folds or recurs over
  sequences or heaps, which for every input needs an induction over data that the
  prover does not have.

## 6. Not modelled, and the plan

Left out: proxy and SOCKS handshakes (`transport/proxy.rs`: sequential parsers,
one awaited step of the establishment that may fail or hang), TLS configuration
and certificate loading, matching of cookies by domain and path, request builders
of the core, formatting of requests and headers, multipart, text and JSON
decoding, error texts, conversions of the extension's `cookies.rs`,
`structures.rs` and `errors.rs`, the test harness with its audits, and
`urllib3`-specific fallbacks. Of the transport, validation of requests and the
observation of the response head are left out.

What could be proved next: that `ResponseBody` implements the body phase of
`Transport`, whose two modules now meet in `ReuseIsSafe` only; and
`LongestPrefixWins`, from a description of `mount` without `SelectSeq`.
