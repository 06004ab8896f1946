-------------------------- MODULE ResponseContent --------------------------
(***************************************************************************)
(* A Response of the extension (response.rs) over the raw object of a native   *)
(* send (NativeAdapterRaw and NativeAdapterStream in adapters.rs): iter_content *)
(* and its iterators, content, iter_lines, close and pickling, in any order a   *)
(* program may call them.                                                      *)
(*                                                                            *)
(* A body is a sequence of units; a unit is a byte of the wire and the byte it  *)
(* decodes to, and text says which of them are \r and \n.  The decoders of late *)
(* releases of urllib3 2 are bounded (they keep what they were not asked for),  *)
(* the earlier ones are not.  old says that urllib3 1.26 is installed, which    *)
(* has a body that ends too early pass for complete.                            *)
(***************************************************************************)
EXTENDS Naturals, Sequences, FiniteSets, SequencesExt

CONSTANTS
    Size,           \* length of the body
    Iterators,      \* handles for results of iter_content
    Amounts,        \* chunk sizes
    Unlimited,      \* chunk_size = None
    Codings,        \* of {"identity", "bounded", "unbounded", "file"}
    Frames,         \* how much the connection delivers at a time
    Delimiters      \* what iter_lines is given, <<>> for none

VARIABLES
    kind,       \* [coding, frame, ends, old, bad, text, named]: this response
    raw,        \* the NativeAdapterRaw
    content,    \* _content: Unread, or the bytes
    consumed,   \* _content_consumed
    its,        \* NativeContentIterator of every handle
    lines,      \* NativeLinesIterator
    got,        \* units handed to the program, in order
    raised,     \* a read has raised
    closed      \* the program has closed something

vars == <<kind, raw, content, consumed, its, lines, got, raised, closed>>

Body == [i \in 1..Size |-> i]
Unread == <<0>>
NoIterator == [source |-> "done", amount |-> 1]
NoLines == [is |-> FALSE, delimiter |-> <<>>, pending |-> <<>>, ready |-> <<>>, done |-> FALSE,
            out |-> <<>>, cuts |-> {}]
Least(a, b) == IF a < b THEN a ELSE b
From(s, n) == SubSeq(s, n, Len(s))

-----------------------------------------------------------------------------
(* NativeAdapterRaw.  A read gives [raw, bytes, error].                        *)

Result(r, bytes, error) == [raw |-> r, bytes |-> bytes, error |-> error]

\* finish_body_failure.
BodyFailed(r) == [r EXCEPT !.body = "none", !.closed = TRUE, !.eof = TRUE, !.buf = <<>>]

\* What is left of the frame that the last read has taken a part of.
Remainder(r) ==
    LET taken == (Size - Len(r.wire)) % kind.frame
    IN  IF taken = 0 THEN 0 ELSE Least(kind.frame - taken, Len(r.wire))

\* read_async_inner: [bytes, failed].  It fills the request, or stops after the
\* remainder and one frame more; a failure after some bytes is left for the next
\* read.
ReadBody(r, amount, fill) ==
    LET enough == Remainder(r) >= amount
        reach  == IF fill \/ enough THEN amount ELSE Least(amount, Remainder(r) + kind.frame)
        n      == Least(reach, Len(r.wire))
        ended  == IF fill THEN amount > Len(r.wire) ELSE ~enough /\ Remainder(r) = Len(r.wire)
    IN  [bytes  |-> IF r.kept THEN <<>> ELSE SubSeq(r.wire, 1, n),
         failed |-> r.kept \/ (ended /\ kind.ends # "whole")]

\* Defect for the checks: a failure ends the body quietly, as urllib3 1.26 wants
\* it, whatever the failure is.
SuppressesAll == kind.old

\* suppresses_urllib3_126_incomplete.
Suppresses == kind.old /\ kind.ends = "incomplete"

\* read_wire.  Only reads of a body without decoder ask for the suppression.
ReadWire(r, amount, fill, suppress) ==
    LET read == ReadBody(r, amount, fill)
        rest == [r EXCEPT !.wire = From(@, Len(read.bytes) + 1), !.kept = read.failed]
    IN  IF r.body = "none" THEN Result(r, <<>>, "none")
        ELSE IF read.failed /\ read.bytes = <<>>
        THEN Result(BodyFailed(r), <<>>, IF suppress /\ Suppresses THEN "none" ELSE "body")
        ELSE Result(rest, read.bytes, "none")

\* A decoder that met damage raises on every later input.
Damaged(r, in) == in # <<>> /\ (r.failed \/ \E i \in 1..Len(in) : in[i] = kind.bad)

\* What the decoder is given: the input it was not asked for before, or a frame.
Input(r) == IF r.tail # <<>> THEN Result(r, r.tail, "none") ELSE ReadWire(r, Size, FALSE, FALSE)

\* What it makes of input for the n bytes that are still missing.
Decoded(input, missing) ==
    LET n == Least(missing, Len(input.bytes))
    IN  IF input.error # "none" THEN input
        ELSE IF input.bytes = <<>>
        THEN Result([input.raw EXCEPT !.body = "none", !.eof = TRUE], <<>>, "none")
        ELSE IF Damaged(input.raw, SubSeq(input.bytes, 1, n))
        THEN Result([input.raw EXCEPT !.started = TRUE, !.failed = TRUE, !.tail = <<>>], <<>>, "decode")
        ELSE Result([input.raw EXCEPT !.started = TRUE, !.buf = @ \o SubSeq(input.bytes, 1, n),
                                      !.tail = From(input.bytes, n + 1)], <<>>, "none")

\* One round of fill_decoded_bounded.
FillOnce(acc, wanted) == Decoded(Input(acc.raw), wanted - Len(acc.raw.buf))

FillDecoded(r, wanted) ==
    FoldLeft(LAMBDA acc, i : IF acc.error # "none" \/ acc.raw.eof \/ Len(acc.raw.buf) >= wanted
                             THEN acc ELSE FillOnce(acc, wanted),
             Result(r, <<>>, "none"), [i \in 1..(2 * Size + 2) |-> i])

\* The end of read_amount for a bounded decoder.
TakeDecoded(fill, amount) ==
    LET r    == fill.raw
        n    == Least(amount, Len(r.buf))
        rest == From(r.buf, n + 1)
    IN  IF fill.error # "none" THEN fill
        ELSE Result([r EXCEPT !.buf = rest, !.closed = r.eof /\ rest = <<>>], SubSeq(r.buf, 1, n), "none")

\* The end of read_decoded_unbounded, for a decoder that keeps nothing.
DecodedUnbounded(read) ==
    IF read.error # "none" THEN read
    ELSE IF read.bytes = <<>>
    THEN Result([read.raw EXCEPT !.body = "none", !.eof = TRUE, !.closed = TRUE], <<>>, "none")
    ELSE IF Damaged(read.raw, read.bytes)
    THEN Result([read.raw EXCEPT !.failed = TRUE], <<>>, "decode")
    ELSE read

\* read_decoded_unbounded asks for one frame.  A frame read must have a maximum:
\* without one the worker panics, the body is lost and the program gets an error.
ReadDecodedUnbounded(r, amount) ==
    IF amount = Unlimited /\ r.body # "none" THEN Result(BodyFailed(r), <<>>, "panic")
    ELSE DecodedUnbounded(ReadWire(r, amount, FALSE, FALSE))

\* read_amount without a decoder.
ReadPlain(r, amount) ==
    LET read == ReadWire(r, amount, TRUE, TRUE)
    IN  IF read.error = "none" /\ read.bytes = <<>>
        THEN Result([read.raw EXCEPT !.closed = TRUE, !.body = "none"], <<>>, "none")
        ELSE read

\* read_amount.
ReadAmount(r, amount, decode) ==
    IF amount = 0 \/ r.closed THEN Result(r, <<>>, "none")
    ELSE IF decode /\ kind.coding = "unbounded" THEN ReadDecodedUnbounded(r, amount)
    ELSE IF decode /\ kind.coding = "bounded"
    THEN TakeDecoded(FillDecoded(r, amount), amount)
    ELSE IF r.started THEN Result(r, <<>>, "mixed")
    ELSE ReadPlain(r, amount)

-----------------------------------------------------------------------------
(* NativeAdapterStream and NativeContentIterator.                              *)

\* One __next__: [raw, source, bytes, outcome].  A stream is cleared by its end
\* and by an error; the iterator notices the end only.
AfterRead(read) ==
    IF read.error # "none"
    THEN [raw |-> read.raw, source |-> "cleared", bytes |-> <<>>, outcome |-> "raise"]
    ELSE IF read.bytes = <<>>
    THEN [raw |-> read.raw, source |-> "done", bytes |-> <<>>, outcome |-> "end"]
    ELSE [raw |-> read.raw, source |-> "stream", bytes |-> read.bytes, outcome |-> "chunk"]

IteratorNext(r, it) ==
    LET ends == it.source = "cleared" \/ (it.source = "unstarted" /\ it.amount = 0) \/ r.closed
    IN  IF it.source = "done" THEN [raw |-> r, source |-> "done", bytes |-> <<>>, outcome |-> "done"]
        ELSE IF kind.coding # "file" /\ ends
        THEN [raw |-> r, source |-> "done", bytes |-> <<>>, outcome |-> "end"]
        ELSE AfterRead(ReadAmount(r, it.amount, TRUE))

\* iter_content: a consumed response is iterated in slices of its content, or
\* refuses when it kept none.
IterContent(i) ==
    /\ ~lines.is /\ its[i].source = "done"
    /\ \E a \in Amounts :
          its' = IF consumed THEN its
                 ELSE [its EXCEPT ![i] = [source |-> "unstarted", amount |-> a]]
    /\ raised' = (raised \/ (consumed /\ content = Unread))
    /\ UNCHANGED <<kind, raw, content, consumed, lines, got, closed>>

NextChunk(i) ==
    /\ its[i].source # "done" /\ ~lines.is
    /\ \E n \in {IteratorNext(raw, its[i])} :
           /\ raw' = n.raw
           /\ its' = [its EXCEPT ![i].source = n.source]
           /\ consumed' = (consumed \/ n.outcome = "end")
           /\ got' = got \o n.bytes
           /\ raised' = (raised \/ n.outcome = "raise")
    /\ UNCHANGED <<kind, content, lines, closed>>

\* NativeContentIterator::close: the stream is dropped, the body stays.
CloseIterator(i) ==
    /\ its[i].source \notin {"done"} /\ ~lines.is
    /\ its' = [its EXCEPT ![i] = NoIterator]
    /\ UNCHANGED <<kind, raw, content, consumed, lines, got, raised, closed>>

-----------------------------------------------------------------------------
(* content, text, json, pickling.                                              *)

\* b"".join over an iterator: nothing of it survives an error.
Gather ==
    FoldLeft(LAMBDA acc, i :
                IF acc.outcome \in {"end", "raise"} THEN acc
                ELSE [IteratorNext(acc.raw, [source |-> acc.source, amount |-> Unlimited - 1])
                        EXCEPT !.bytes = acc.bytes \o @],
             [raw |-> raw, source |-> "unstarted", bytes |-> <<>>, outcome |-> "chunk"],
             [i \in 1..(Size + 2) |-> i])

\* content_dispatch: the rest of the body, once.
ReadContent ==
    /\ ~lines.is
    /\ IF content # Unread THEN consumed' = TRUE /\ UNCHANGED <<raw, content, got, raised>>
       ELSE IF consumed THEN raised' = TRUE /\ UNCHANGED <<raw, content, consumed, got>>
       ELSE \E all \in {Gather} :
                /\ raw' = all.raw
                /\ IF all.outcome = "raise"
                   THEN raised' = TRUE /\ UNCHANGED <<content, consumed, got>>
                   ELSE /\ content' = all.bytes /\ consumed' = TRUE
                        /\ got' = got \o all.bytes
                        /\ UNCHANGED raised
    /\ UNCHANGED <<kind, its, lines, closed>>

\* pickle_get_dispatch reads the content of a response not consumed yet.
PickleGet == ~consumed /\ ReadContent

\* raw.read(amt) by the program: refused once decoding has begun.
RawRead ==
    /\ ~lines.is
    /\ kind.coding = "identity" \/ raw.started
    /\ \E a \in Amounts :
         \E read \in {ReadAmount(raw, a, FALSE)} :
             /\ raw' = read.raw
             /\ got' = got \o read.bytes
             /\ raised' = (raised \/ read.error # "none")
    /\ UNCHANGED <<kind, content, consumed, its, lines, closed>>

\* close_dispatch: the raw object is closed unless the content was consumed;
\* its release_conn does nothing.
CloseResponse ==
    /\ raw' = IF consumed THEN raw
              ELSE IF raw.body = "none" THEN [raw EXCEPT !.closed = TRUE]
              ELSE [raw EXCEPT !.body = "none", !.closed = TRUE, !.eof = TRUE]
    /\ closed' = TRUE
    /\ UNCHANGED <<kind, content, consumed, its, lines, got, raised>>

-----------------------------------------------------------------------------
(* iter_lines.                                                                 *)

Text(u) == kind.text[u]
IsBreak(u) == Text(u) \in {"cr", "lf"}

First(n, P(_)) == CHOOSE i \in 1..n : P(i) /\ \A j \in 1..(i - 1) : ~P(j)

\* splitlines: \r, \n and \r\n end a line; no empty line at the end.
RECURSIVE SplitLines(_)
SplitLines(s) ==
    LET Breaks(i) == IsBreak(s[i])
        b    == First(Len(s), Breaks)
        pair == Text(s[b]) = "cr" /\ b < Len(s) /\ Text(s[b + 1]) = "lf"
    IN  IF s = <<>> THEN <<>>
        ELSE IF \A i \in 1..Len(s) : ~Breaks(i) THEN <<s>>
        ELSE <<SubSeq(s, 1, b - 1)>> \o SplitLines(From(s, IF pair THEN b + 2 ELSE b + 1))

\* split(delimiter): an empty line at the end too.
RECURSIVE SplitOn(_, _)
SplitOn(s, d) ==
    LET Occurs(i) == i + Len(d) <= Len(s) + 1 /\ \A j \in 1..Len(d) : Text(s[i + j - 1]) = d[j]
        b         == First(Len(s), Occurs)
    IN  IF \A i \in 1..Len(s) : ~Occurs(i) THEN <<s>>
        ELSE <<SubSeq(s, 1, b - 1)>> \o SplitOn(From(s, b + Len(d)), d)

\* An empty delimiter is none.
Split(s, d) == IF d = <<>> THEN SplitLines(s) ELSE SplitOn(s, d)

IterLines ==
    /\ lines = NoLines /\ got = <<>> /\ ~consumed /\ ~closed
    /\ \A i \in Iterators : its[i].source = "done"
    /\ \E i \in Iterators, a \in Amounts :
          its' = [its EXCEPT ![i] = [source |-> "unstarted", amount |-> a]]
    /\ \E d \in Delimiters : lines' = [lines EXCEPT !.is = TRUE, !.delimiter = d]
    /\ UNCHANGED <<kind, raw, content, consumed, got, raised, closed>>

\* Defect for the checks: a chunk that ends with \r or \n is complete, whatever
\* the delimiter is.
LoadLinesAtBreak(chunk) ==
    LET all   == lines.pending \o chunk
        split == Split(all, lines.delimiter)
        last  == split[Len(split)]
        waits == last # <<>> /\ ~IsBreak(all[Len(all)])
    IN  lines' = [lines EXCEPT !.ready = IF waits THEN SubSeq(split, 1, Len(split) - 1) ELSE split,
                               !.pending = IF waits THEN last ELSE <<>>,
                               !.cuts = @ \cup {Len(got) + Len(chunk)}]

\* load_lines: the last line waits when the chunk ends with it.  cuts records where
\* chunks ended.
LoadLines(chunk) ==
    LET all   == lines.pending \o chunk
        split == Split(all, lines.delimiter)
        last  == split[Len(split)]
        waits == last # <<>> /\ Text(last[Len(last)]) = Text(all[Len(all)])
    IN  lines' = [lines EXCEPT !.ready = IF waits THEN SubSeq(split, 1, Len(split) - 1) ELSE split,
                               !.pending = IF waits THEN last ELSE <<>>,
                               !.cuts = @ \cup {Len(got) + Len(chunk)}]

LinesSource == CHOOSE i \in Iterators : its[i].source # "done" \/ \A j \in Iterators : its[j].source = "done"

\* NativeLinesIterator::__next__, one round of its loop.
NextLine ==
    /\ lines.is
    /\ IF lines.ready # <<>>
       THEN /\ lines' = [lines EXCEPT !.ready = Tail(@), !.out = Append(@, Head(lines.ready))]
            /\ UNCHANGED <<raw, consumed, its, got, raised>>
       ELSE IF lines.done
       THEN /\ lines' = [lines EXCEPT !.pending = <<>>,
                            !.out = IF lines.pending = <<>> THEN @ ELSE Append(@, lines.pending)]
            /\ UNCHANGED <<raw, consumed, its, got, raised>>
       ELSE \E i \in {LinesSource} : \E n \in {IteratorNext(raw, its[i])} :
                /\ raw' = n.raw
                /\ its' = [its EXCEPT ![i].source = n.source]
                /\ consumed' = (consumed \/ n.outcome = "end")
                /\ got' = got \o n.bytes
                /\ raised' = (raised \/ n.outcome = "raise")
                /\ IF n.outcome = "chunk" THEN LoadLines(n.bytes)
                   ELSE IF n.outcome = "raise" THEN UNCHANGED lines
                   ELSE lines' = [lines EXCEPT !.done = TRUE]
    /\ UNCHANGED <<kind, content, closed>>

\* NativeLinesIterator::close: what was split and not handed out is dropped.
CloseLines ==
    /\ lines.is
    /\ lines' = [lines EXCEPT !.pending = <<>>, !.ready = <<>>, !.done = TRUE]
    /\ its' = [i \in Iterators |-> NoIterator]
    /\ closed' = TRUE
    /\ UNCHANGED <<kind, raw, content, consumed, got, raised>>

-----------------------------------------------------------------------------
(* Native operations and the program's own methods.  The program may replace    *)
(* methods on the class, shadow them on the instance, or use a subclass; change *)
(* is [type, instance, subclass].                                              *)

\* DESCRIPTORS: the operations of requests.models.Response that call others.
Properties == {"content", "text", "apparent_encoding", "ok"}
Functions == {"json", "iter_content", "iter_lines", "bool", "raise_for_status", "getstate", "close"}
Methods == Properties \cup Functions

\* What requests.models calls on self; text looks for an encoding only if the
\* response names none.
PythonCalls(m, named) ==
    CASE m = "content"           -> {"iter_content"}
      [] m = "text"              -> {"content"} \cup (IF named THEN {} ELSE {"apparent_encoding"})
      [] m = "json"              -> {"content", "text"}
      [] m \in {"apparent_encoding", "getstate"} -> {"content"}
      [] m = "iter_lines"        -> {"iter_content"}
      [] m = "bool"              -> {"ok"}
      [] m = "ok"                -> {"raise_for_status"}
      [] OTHER                   -> {}

\* Python's lookup: a property wins over the instance, and so does the slot of
\* __bool__.
Replaced(change) == change.type \cup (change.instance \ (Properties \cup {"bool"}))

\* INSTANCE_SHADOWABLE_METHODS.
Shadowable == {"iter_content", "iter_lines", "json", "raise_for_status", "getstate", "close"}

TypeIsCurrent(change) == ~change.subclass

\* descriptor_matches.
DescriptorMatches(m, change) == m \notin change.type

ExactOperation(m, change) ==
    /\ TypeIsCurrent(change)
    /\ ~(m \in Shadowable /\ m \in change.instance)
    /\ DescriptorMatches(m, change)

\* Defect for the checks: content looks at its own descriptor only.
RequiredSelf(m) ==
    CASE m = "json"    -> {"json", "content", "text"}
      [] m = "bool"    -> {"bool", "ok"}
      [] OTHER         -> {m}

\* The operations whose descriptors have to be the original ones.
Required(m) ==
    CASE m = "content" -> {"content", "iter_content"}
      [] m = "json"    -> {"json", "content", "text"}
      [] m = "bool"    -> {"bool", "ok"}
      [] OTHER         -> {m}

\* What a native operation calls through another dispatch; content reads the
\* body itself.
NativeCalls(m, named) == IF m = "content" THEN {} ELSE PythonCalls(m, named)

RunsNatively(m, change) == \A r \in Required(m) : ExactOperation(r, change)

\* The program's methods that end up running: reached by Python's calls, or by
\* the native ones while the descriptors allow it; no chain is longer than four.
PythonRuns(m, change, named) ==
    LET Met[n \in 0..4] ==
            IF n = 0 THEN {m}
            ELSE LET before == Met[n - 1]
                 IN  before \cup UNION {PythonCalls(c, named) : c \in before \ Replaced(change)}
    IN  Replaced(change) \cap Met[4]

NativeRuns(m, change, named) ==
    LET Met[n \in 0..4] ==
            IF n = 0 THEN {m}
            ELSE LET before == Met[n - 1]
                 IN  before \cup UNION {NativeCalls(c, named) :
                                          c \in {c \in before : RunsNatively(c, change)}}
    IN  UNION {PythonRuns(c, change, named) : c \in {c \in Met[4] : ~RunsNatively(c, change)}}

\* The cases in which the two differ: up to two methods replaced either way.
AtMost(n) == {S \in SUBSET Methods : Cardinality(S) <= n}
Divergent ==
    {d.named : d \in {d \in [type : AtMost(2), instance : AtMost(2), subclass : BOOLEAN,
                             named : BOOLEAN] :
                 \E m \in Methods : NativeRuns(m, d, d.named) # PythonRuns(m, d, d.named)}}

-----------------------------------------------------------------------------
\* The responses there are: how the body comes and ends, what is damaged in it,
\* where its lines end, and whether the response names an encoding.
PlainText == [i \in 1..Size |-> "text"]

Kinds ==
    {k \in [coding : Codings, frame : Frames, ends : {"whole", "incomplete", "broken"},
            old : BOOLEAN, bad : 0..Size, text : [1..Size -> {"text", "cr", "lf"}],
            named : BOOLEAN] :
        /\ k.coding = "file" => k.ends = "whole"
        /\ k.coding \in {"identity", "file"} => k.bad = 0
        /\ k.old => k.coding = "identity"
        /\ k.ends # "whole" \/ k.bad # 0 \/ k.old => k.named
        /\ k.text # PlainText => k.named /\ k.bad = 0 /\ ~k.old /\ k.ends = "whole"}

Init ==
    /\ kind \in Kinds
    /\ raw = [body |-> "open", wire |-> Body, closed |-> FALSE, eof |-> FALSE, buf |-> <<>>,
              tail |-> <<>>, started |-> FALSE, failed |-> FALSE, kept |-> FALSE]
    /\ content = Unread /\ consumed = FALSE
    /\ its = [i \in Iterators |-> NoIterator]
    /\ lines = NoLines /\ got = <<>> /\ raised = FALSE /\ closed = FALSE

Next ==
    \/ \E i \in Iterators : IterContent(i) \/ NextChunk(i) \/ CloseIterator(i)
    \/ ReadContent \/ PickleGet \/ RawRead \/ CloseResponse \/ IterLines \/ NextLine
    \/ CloseLines

Spec == Init /\ [][Next]_vars

-----------------------------------------------------------------------------
\* However iterators, content and raw reads are mixed, no byte is handed out
\* twice or out of order, and before the first error none is skipped.
EachByteOnce ==
    /\ \A i \in 1..(Len(got) - 1) : got[i] < got[i + 1]
    /\ ~raised => IsPrefix(got, Body)

\* A response counts as consumed only if all of its body was handed out, or a read
\* has raised, or the program has closed something: a truncation is reported, but
\* for the body that ends too early under urllib3 1.26, of which all bytes that
\* came are handed out.
TruncationReported ==
    consumed => \/ raised \/ closed
                \/ Len(got) = Size
                     /\ (kind.ends = "whole" \/ (kind.ends = "incomplete" /\ kind.old))

\* A program that caught an error of the connection, or closed something, and then
\* asks for content gets the rest of the body or, silently, nothing: never a
\* fragment of it.  A fragment is possible after a decoding error only: what the
\* decoder had made before the damage is content, without an error, the next time.
NeverAFragment ==
    content \notin {Unread, <<>>} =>
        content[Len(content)] = Size \/ (raw.failed /\ raised)

\* A raw object that is closed holds neither its body nor, unless the program
\* closed it, any decoded byte: the connection went back with the last of them.
ClosedHoldsNothing ==
    raw.closed /\ kind.coding # "file" => raw.body = "none" /\ (closed \/ raw.buf = <<>>)

\* Where the cut into chunks separates lines: in the middle of \r\n, or, with a
\* delimiter, right after one.
Separating ==
    {c \in lines.cuts : c < Size /\
        IF lines.delimiter = <<>> THEN Text(c) = "cr" /\ Text(c + 1) = "lf"
        ELSE Last(SplitOn(SubSeq(Body, 1, c), lines.delimiter)) = <<>>}

RECURSIVE LinesAfter(_)
LinesAfter(n) ==
    LET later == {c \in Separating : c > n}
        c     == Min(later)
    IN  IF later = {} THEN Split(From(Body, n + 1), lines.delimiter)
        ELSE Split(SubSeq(Body, n + 1, c), lines.delimiter) \o LinesAfter(c)

\* The lines are those of the whole body, and depend on its cut into chunks in one
\* way only: a chunk that ends inside \r\n, or right after the delimiter, is
\* followed by one empty line.
LinesAreWhole ==
    lines.done /\ lines.ready = <<>> /\ lines.pending = <<>> /\ ~raised /\ ~closed =>
        lines.out = LinesAfter(0)
=============================================================================
