---------------------------- MODULE ResponseBody ----------------------------
(***************************************************************************)
(* One response body on its way to the caller: ResponseBody of response.rs, *)
(* the buffering readers of blocking.rs around it (Read::read, read_async   *)
(* and read_frame_async) and the capacity permit of adapters.rs.            *)
(*                                                                         *)
(* Bytes are numbered in wire order, so that a frame, the remainder kept    *)
(* between two reads and what the caller got are sequences of numbers.      *)
(* Between two polls of one read the peer, a deadline or the cancellation   *)
(* of the read may come first.  Empty frames change nothing and are left    *)
(* out.  What the lease does with the decision is in module Transport.      *)
(***************************************************************************)
EXTENDS Integers, Sequences

CONSTANTS
    MaxBody,   \* bound of the model on the bytes of a body
    Amounts    \* the sizes asked for by a read, also Everything

Everything == -1     \* read_async(None)
Undeclared == -1     \* no Content-Length, or a chunked response

ASSUME MaxBodyAssumption == MaxBody \in Nat
ASSUME AmountsAssumption == Amounts \subseteq (Nat \ {0}) \cup {Everything}

VARIABLES
    response,     \* what the peer will do: fixed, unknown to the reader
    received,     \* ResponseBody.received_body_bytes
    bodyLease,    \* the ResponseBody.driver: held, or how it was given back
    inner,        \* blocking::ResponseBody.inner is Some, or a read has it
    remainder,    \* blocking::ResponseBody.remainder
    pendingError, \* blocking::ResponseBody.pending_error is Some
    terminal,     \* blocking::ResponseBody.terminal
    permit,       \* AdapterResponseBody.permit is Some
    read,         \* the read that waits for a frame, or Idle
    open,         \* the caller still owns the body
    got,          \* history: the bytes the caller was given
    told          \* history: the first end the caller was told of

bodyVars == <<response, received, bodyLease, inner, remainder, pendingError, terminal,
          permit, read, open, got, told>>

Modes == {"read", "fill", "frame"}   \* Read::read, read_async, read_frame_async
Idle == [mode |-> "none", amount |-> 0, allow |-> FALSE, output |-> <<>>]
Bytes(n) == [i \in 1..n |-> i]

\* The bodies there are.  hyper ends a body with a Content-Length after exactly
\* that many bytes, and fails when the peer closes earlier.  A decoded body has
\* as many bytes as the decoder makes of it.
Responses ==
    {w \in [coding : {"plain", "raw", "decoded"}, declared : 0..MaxBody \cup {Undeclared},
            total : 0..MaxBody, ending : {"eof", "error"}] :
        w.declared # Undeclared /\ w.coding # "decoded" =>
            IF w.ending = "eof" THEN w.total = w.declared ELSE w.total < w.declared}

----------------------------------------------------------------------------
BodyInit ==
    /\ response \in Responses
    /\ received = 0 /\ bodyLease = "held" /\ inner = TRUE
    /\ remainder = <<>> /\ pendingError = FALSE /\ terminal = FALSE
    /\ permit = TRUE /\ read = Idle /\ open = TRUE
    /\ got = <<>> /\ told = "none"

\* Defect for the checks: the length of an encoded body is taken at its word.
DeclaredReachedEncoded(count, allow) ==
    /\ bodyLease = "held"
    /\ response.declared # Undeclared
    /\ count = response.declared

\* The test of ResponseBody::finish_declared_length.
DeclaredReached(count, allow) ==
    /\ bodyLease = "held"
    /\ response.coding = "plain" \/ allow
    /\ response.declared # Undeclared
    /\ count = response.declared

\* Bytes the caller asked for, and the ones that stay behind.
Wanted(bytes, amount) ==
    IF amount = Everything \/ amount >= Len(bytes) THEN bytes ELSE SubSeq(bytes, 1, amount)
Kept(bytes, amount) == SubSeq(bytes, Len(Wanted(bytes, amount)) + 1, Len(bytes))

\* The caller gets bytes, or none, which means the end of the body.  The permit
\* goes with the end of the body: AdapterResponseBody::read and read_async.
Return(mode, bytes, end, rest, error) ==
    /\ got' = got \o bytes
    /\ told' = IF told = "none" /\ bytes = <<>> THEN "eof" ELSE told
    /\ permit' = (permit /\ IF mode = "read" THEN bytes # <<>>
                            ELSE ~end \/ rest # <<>> \/ error)

\* The caller gets an error.  read_async consumed the body and its permit.
ReturnError(mode) ==
    /\ told' = IF told = "none" THEN "error" ELSE told
    /\ open' = (mode = "read")
    /\ permit' = (permit /\ mode = "read")
    /\ UNCHANGED got

\* Defect for the checks: the end of a read is not looked at after the
\* remainder, so that the lease waits for a read that finds the end.
BufferedWithoutFinish(mode, amount, allow) ==
    [bytes |-> Wanted(remainder, amount), rest |-> Kept(remainder, amount), finished |-> FALSE]

\* What a read finds before it polls: the remainder of the last frame, and
\* whether its last byte completes the declared length.
Buffered(mode, amount, allow) ==
    LET rest == Kept(remainder, amount)
    IN  [bytes |-> Wanted(remainder, amount), rest |-> rest,
         finished |-> /\ remainder # <<>> /\ rest = <<>> /\ inner
                      /\ DeclaredReached(received, allow /\ mode # "read")]

\* finish_declared_length_if_buffer_empty after the remainder was taken.
TakeBuffered(b) ==
    /\ remainder' = b.rest
    /\ terminal' = (terminal \/ b.finished)
    /\ inner' = (inner /\ ~b.finished)
    /\ bodyLease' = IF b.finished THEN "clean" ELSE bodyLease

MayRead == open /\ read = Idle

\* The remainder is enough: Read::read stops at it, read_async when it is full.
Suffices(b, mode, amount) ==
    remainder # <<>> /\ (mode = "read" \/ Len(b.bytes) = amount)

ServeBuffered(mode, amount, allow) ==
    LET b == Buffered(mode, amount, allow)
    IN  /\ MayRead
        /\ Suffices(b, mode, amount)
        /\ TakeBuffered(b)
        /\ Return(mode, b.bytes, terminal', b.rest, pendingError)
        /\ UNCHANGED <<response, received, pendingError, read, open>>

\* An error that was held back is due.
ReportPending(mode, amount, allow) ==
    LET b == Buffered(mode, amount, allow)
    IN  /\ MayRead
        /\ ~Suffices(b, mode, amount)
        /\ pendingError
        /\ pendingError' = FALSE
        /\ TakeBuffered(b)
        /\ ReturnError(mode)
        /\ UNCHANGED <<response, received, read>>

\* The body has ended before: the rest of the remainder, or nothing.
ReportEnd(mode, amount, allow) ==
    LET b == Buffered(mode, amount, allow)
    IN  /\ MayRead
        /\ ~Suffices(b, mode, amount)
        /\ ~pendingError
        /\ terminal \/ b.finished \/ ~inner
        /\ remainder' = b.rest
        /\ terminal' = TRUE
        /\ inner' = (inner /\ ~b.finished)
        /\ bodyLease' = IF b.finished THEN "clean" ELSE bodyLease
        /\ Return(mode, b.bytes, TRUE, b.rest, FALSE)
        /\ UNCHANGED <<response, received, pendingError, read, open>>

\* The read takes the inner body and polls it.  read_async and
\* read_frame_async may already hold the bytes of the remainder.
BeginPoll(mode, amount, allow) ==
    LET b == Buffered(mode, amount, allow)
    IN  /\ MayRead
        /\ ~Suffices(b, mode, amount)
        /\ ~pendingError /\ ~terminal /\ ~b.finished /\ inner
        /\ TakeBuffered(b)
        /\ read' = [mode |-> mode, amount |-> amount, allow |-> allow /\ mode # "read",
                    output |-> b.bytes]
        /\ UNCHANGED <<response, received, pendingError, permit, open, got, told>>

StartRead(mode, amount, allow) ==
    \/ ServeBuffered(mode, amount, allow)
    \/ ReportPending(mode, amount, allow)
    \/ ReportEnd(mode, amount, allow)
    \/ BeginPoll(mode, amount, allow)

----------------------------------------------------------------------------
(* The polls of a read that waits.                                          *)

Reading == read # Idle

\* Defect for the checks: what does not fit the read is dropped.
FrameTruncated(n) ==
    LET frame == [i \in 1..n |-> received + i]
        room  == IF read.amount = Everything THEN Everything
                 ELSE read.amount - Len(read.output)
        bytes == read.output \o Wanted(frame, room)
    IN  /\ Reading
        /\ received + n <= response.total
        /\ received' = received + n
        /\ read' = Idle
        /\ Return(read.mode, bytes, FALSE, <<>>, FALSE)
        /\ UNCHANGED <<response, bodyLease, inner, remainder, pendingError, terminal, open>>

\* A frame: the read takes what it still wants and keeps the rest.  It goes on
\* only if read_async wants more.
Frame(n) ==
    LET frame == [i \in 1..n |-> received + i]
        room  == IF read.amount = Everything THEN Everything
                 ELSE read.amount - Len(read.output)
        bytes == read.output \o Wanted(frame, room)
        rest  == Kept(frame, room)
        ends  == rest = <<>> /\ DeclaredReached(received + n, read.allow)
        goOn  == ~ends /\ read.mode = "fill" /\ Len(bytes) # read.amount
    IN  /\ Reading
        /\ received + n <= response.total
        /\ received' = received + n
        /\ remainder' = rest
        /\ terminal' = ends
        /\ inner' = ~ends
        /\ bodyLease' = IF ends THEN "clean" ELSE bodyLease
        /\ IF goOn
           THEN read' = [read EXCEPT !.output = bytes] /\ UNCHANGED <<permit, got, told>>
           ELSE read' = Idle /\ Return(read.mode, bytes, ends, rest, FALSE)
        /\ UNCHANGED <<response, pendingError, open>>

\* The end of the body: ResponseEvent::CleanEof.
Eof ==
    /\ Reading
    /\ received = response.total /\ response.ending = "eof"
    /\ bodyLease' = "clean" /\ terminal' = TRUE /\ inner' = FALSE
    /\ read' = Idle
    /\ Return(read.mode, read.output, TRUE, <<>>, FALSE)
    /\ UNCHANGED <<response, received, remainder, pendingError, open>>

\* A read, decode or protocol error of the source, of the connection driver or
\* of a deadline, which may come although bytes are on their way.  An error
\* after bytes waits for the next read.
Fail ==
    /\ Reading
    /\ bodyLease' = "dirty" /\ terminal' = TRUE /\ inner' = FALSE
    /\ read' = Idle
    /\ IF read.output = <<>>
       THEN ReturnError(read.mode) /\ UNCHANGED pendingError
       ELSE /\ pendingError' = TRUE
            /\ Return(read.mode, read.output, TRUE, <<>>, TRUE)
            /\ UNCHANGED open
    /\ UNCHANGED <<response, received, remainder>>

\* The future of read_async is dropped with the body and its permit; the task
\* of Read::read is lost, which is an error for its caller.
Cancel ==
    /\ Reading
    /\ bodyLease' = "dirty" /\ inner' = FALSE
    /\ read' = Idle
    /\ IF read.mode = "read"
       THEN terminal' = TRUE /\ ReturnError("read")
       ELSE open' = FALSE /\ permit' = FALSE /\ UNCHANGED <<terminal, got, told>>
    /\ UNCHANGED <<response, received, remainder, pendingError>>

----------------------------------------------------------------------------
\* close, close_async and the drop of the body: the lease first, if it is still
\* there, then the permit.
Close ==
    /\ MayRead
    /\ open' = FALSE /\ permit' = FALSE /\ inner' = FALSE
    /\ bodyLease' = IF bodyLease = "held" THEN "dirty" ELSE bodyLease
    /\ UNCHANGED <<response, received, remainder, pendingError, terminal, read, got, told>>

\* finish_encoded_declared_length, after the decoder of the caller has seen the
\* end of the encoded representation.
FinishEncoded ==
    /\ MayRead
    /\ response.coding = "raw"
    /\ remainder = <<>> /\ inner
    /\ DeclaredReached(received, TRUE)
    /\ bodyLease' = "clean" /\ terminal' = TRUE /\ inner' = FALSE
    /\ permit' = (permit /\ pendingError)
    /\ UNCHANGED <<response, received, remainder, pendingError, read, open, got, told>>

\* The reads of the caller.  Only a raw body lets its declared length end it.
Read ==
    \E mode \in Modes, amount \in Amounts, allow \in BOOLEAN :
        /\ amount = Everything => mode = "fill"
        /\ allow => response.coding = "raw"
        /\ StartRead(mode, amount, allow)

BodyNext ==
    \/ Read \/ (\E n \in 1..MaxBody : Frame(n)) \/ Eof \/ Fail \/ Cancel
    \/ Close \/ FinishEncoded

BodySpec == BodyInit /\ [][BodyNext]_bodyVars

----------------------------------------------------------------------------
\* The shapes of a body and of its readers; a body never has more bytes than the
\* peer sent.
BodyTypeOK ==
    /\ response \in Responses
    /\ received \in 0..MaxBody
    /\ bodyLease \in {"held", "clean", "dirty"}
    /\ remainder \in Seq(1..MaxBody) /\ got \in Seq(1..MaxBody)
    /\ read = Idle \/ read \in [mode : Modes, amount : Amounts, allow : BOOLEAN,
                                output : Seq(1..MaxBody)]
    /\ told \in {"none", "eof", "error"}
    /\ {inner, pendingError, terminal, permit, open} \subseteq BOOLEAN

\* No byte is lost, duplicated or reordered between the wire and the caller,
\* for any mix of the three kinds of read and any sizes; an error never takes
\* bytes with it that arrived before it.
BytesInOrder ==
    open \/ told # "none" => got \o read.output \o remainder = Bytes(received)

\* A body that was cut short is never taken for a complete one: the caller is
\* told of the end only when the peer really ended the body, whether it was
\* found by an end of stream or by the declared length.
EofIsHonest == told = "eof" => received = response.total /\ response.ending = "eof"

\* A connection goes back as reusable only when the whole body was read off it:
\* never by a length that counts other bytes than the wire, and never for a
\* body that ends in an error.
ReuseIsSafe == bodyLease = "clean" => received = response.total /\ response.ending = "eof"

\* The connection is given back by the read that hands over the last declared
\* byte; nobody has to read on to the end of the body for it.
ReleasedWithLastByte ==
    open /\ read = Idle /\ bodyLease = "held" /\ response.coding = "plain" =>
        response.declared \in {0, Undeclared} \/ Len(got) < response.declared

\* The capacity permit outlives the use of the connection: the adapter drops it
\* after the body, so that no request is let in before the socket is free.
PermitCoversLease == bodyLease = "held" => permit

\* The permit is back once the caller saw the end of the body, or gave it up:
\* adapters.rs drops it on every path out of a read.
PermitReturned == told = "eof" \/ ~open => ~permit

\* What the caller is told of the end and what the pool is told of the
\* connection are both true of the wire, whichever read found the end.
EndIsEarned == EofIsHonest /\ ReuseIsSafe

\* The connection and its permit go back together and in time: with the last
\* declared byte or with the end, the connection first, and nothing is kept
\* after the caller saw the end or gave the body up.
PermitFollowsLease == PermitCoversLease /\ PermitReturned /\ ReleasedWithLastByte

\* The fate of a connection is decided once.
DecidedOnce == [][bodyLease # "held" => bodyLease' = bodyLease]_bodyVars

\* What the documentation of read_frame_async says: a read takes bytes of one
\* frame at most, so that one which has some does not wait for another.
FrameReadTouchesOneFrame == read.mode = "frame" => read.output = <<>>
=============================================================================
