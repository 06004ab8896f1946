---------------------------- MODULE DecodedBody ----------------------------
(***************************************************************************)
(* Incremental content decoding of the core crate (transport/decode.rs): a     *)
(* DecodedBody pulls the frames of a response through a streaming decoder.     *)
(*                                                                            *)
(* An encoded stream is a sequence of symbols: a header of one of the formats, *)
(* others, each of which decodes to itself, "E" at the end of a member, and   *)
(* "x" for damage.  The frames of a response cut it anywhere, the connection   *)
(* may fail after any frame, and a decoder may be given any part of the bytes  *)
(* that are there.                                                            *)
(***************************************************************************)
EXTENDS Naturals, Sequences, SequencesExt

CONSTANTS
    Encodings,      \* of {"gzip", "deflate", "br", "zstd"}
    Streams         \* encoded streams: [encoding, symbols]

VARIABLES
    encoding,
    wire,           \* what hyper has not delivered yet
    fault,          \* the connection fails after it
    sent,           \* the symbols of the whole response
    state,          \* DecoderState
    codec,          \* what the decoder has seen of its member
    buffered,       \* the frame being consumed
    replay,         \* the bytes of the zlib attempt, consumed before buffered
    tentative,      \* bytes recorded for a replay
    recording,
    limited,        \* input_limit: one byte at a time
    transportError, \* an error of hyper not reported yet
    cleanEof,
    pendingError,   \* the decoder's error that came with its last output
    outputSeen,
    out,            \* what poll_next has returned
    result          \* "open", "end", or the kind of error

vars == <<encoding, wire, fault, sent, state, codec, buffered, replay, tentative,
          recording, limited, transportError, cleanEof, pendingError, outputSeen,
          out, result>>
reader == <<buffered, replay, tentative, recording, transportError, cleanEof>>
response == <<encoding, fault, sent>>

Decoders == {"gzip", "zlib", "deflate", "br", "zstd"}
Header(d) == CASE d = "gzip" -> "G" [] d = "zlib" -> "Z" [] d = "deflate" -> "R"
               [] d = "br" -> "B" [] d = "zstd" -> "S"
Symbols == {"G", "Z", "R", "B", "S", "E", "x"}
Data(s) == s \notin Symbols
MultiMember(d) == d \in {"gzip", "zstd"}

-----------------------------------------------------------------------------
(* The decoders of async_compression.                                          *)

\* What a decoder makes of one symbol: the place it has reached, or an error.
Consume(d, c, s) ==
    CASE c = "start" /\ s = Header(d)                  -> "body"
      [] c = "body" /\ Data(s)                         -> "body"
      [] c = "body" /\ s = "E"                         -> "done"
      [] c = "done" /\ MultiMember(d) /\ s = Header(d) -> "body"
      [] OTHER                                         -> "corrupt"

\* A decoder stops at the end of its only member and at damage.
Stops(d, c) == c = "corrupt" \/ (c = "done" /\ ~MultiMember(d))
After(d, c, in) == FoldLeft(LAMBDA acc, s : IF Stops(d, acc) THEN acc ELSE Consume(d, acc, s), c, in)

\* How many symbols of the input a decoder consumes.
Taken(d, c, in) ==
    LET stops == {i \in 1..Len(in) : Stops(d, After(d, c, SubSeq(in, 1, i)))}
    IN  IF stops = {} THEN Len(in) ELSE CHOOSE i \in stops : \A j \in stops : i <= j

Output(d, c, in) ==
    LET valid == IF After(d, c, in) = "corrupt" THEN Taken(d, c, in) - 1 ELSE Taken(d, c, in)
    IN  SelectSeq(SubSeq(in, 1, valid), Data)

\* Brotli forgets what it wrote in the call that fails.
Written(d, c, in) ==
    IF d = "br" /\ After(d, c, in) = "corrupt" THEN <<>> ELSE Output(d, c, in)

\* The reference: what the whole stream decodes to and how it ends.
DecoderOf(e, symbols) ==
    IF e # "deflate" THEN e
    ELSE IF After("zlib", "start", symbols) = "corrupt" /\ Output("zlib", "start", symbols) = <<>>
    THEN "deflate" ELSE "zlib"
Plain(e, symbols) == Output(DecoderOf(e, symbols), "start", symbols)
Verdict(e, symbols) == After(DecoderOf(e, symbols), "start", symbols)

-----------------------------------------------------------------------------
(* IncomingReader.                                                             *)

\* poll_fill_buf: the replay, then the frame, and at most one byte of either
\* until Brotli has written something.
Available ==
    LET all == IF replay # <<>> THEN replay ELSE buffered
    IN  IF limited /\ all # <<>> THEN <<Head(all)>> ELSE all

AtEnd == replay = <<>> /\ buffered = <<>> /\ (transportError \/ cleanEof)

\* A frame of hyper, its error, or its end.
Arrives ==
    /\ result = "open" /\ replay = <<>> /\ buffered = <<>>
    /\ ~transportError /\ ~cleanEof
    /\ \/ /\ wire # <<>>
          /\ \E n \in 1..Len(wire) : /\ buffered' = SubSeq(wire, 1, n)
                                     /\ wire' = SubSeq(wire, n + 1, Len(wire))
          /\ UNCHANGED <<transportError, cleanEof>>
       \/ /\ wire = <<>>
          /\ transportError' = fault /\ cleanEof' = ~fault
          /\ UNCHANGED <<buffered, wire>>
    /\ UNCHANGED <<response, state, codec, replay, tentative, recording, limited,
                   pendingError, outputSeen, out, result>>

Drop(n) ==
    /\ replay' = IF replay # <<>> THEN SubSeq(replay, n + 1, Len(replay)) ELSE replay
    /\ buffered' = IF replay # <<>> THEN buffered ELSE SubSeq(buffered, n + 1, Len(buffered))
    /\ UNCHANGED <<transportError, cleanEof>>

-----------------------------------------------------------------------------
(* poll_next.                                                                  *)

Finish(r) == result' = r /\ state' = "none"

\* is_accepted_truncation and is_accepted_flate_truncation.
AcceptedTruncation(error) == error = "incomplete" /\ cleanEof /\ ~transportError

\* install_tentative_replay and the raw decoder.
FallBackToRaw ==
    /\ state' = "deflate" /\ codec' = "start"
    /\ replay' = tentative
    /\ tentative' = <<>> /\ recording' = FALSE
    /\ UNCHANGED <<buffered, result, transportError, cleanEof>>

\* A decoder that failed without output, or with output returned earlier: the
\* transport's error first, a clean truncation accepted, a zlib stream without
\* output tried again as raw deflate.
DecoderFailed(error) ==
    IF transportError THEN Finish("transport") /\ UNCHANGED <<codec, reader>>
    ELSE IF AcceptedTruncation(error)
    THEN /\ state' = "drain"
         /\ recording' = FALSE /\ tentative' = <<>>
         /\ UNCHANGED <<codec, result, buffered, replay, transportError, cleanEof>>
    ELSE IF state = "zlib" /\ ~outputSeen THEN FallBackToRaw
    ELSE Finish("decoding") /\ UNCHANGED <<codec, reader>>

PollPendingError ==
    /\ result = "open" /\ state \in Decoders /\ pendingError # "none"
    /\ DecoderFailed(pendingError)
    /\ pendingError' = "none"
    /\ UNCHANGED <<response, wire, limited, outputSeen, out>>

Ready == result = "open" /\ state \in Decoders /\ pendingError = "none" /\ ~Stops(state, codec)

\* Defect for the checks: the error that came with output is dropped.
PollInputForgettingError ==
    /\ Ready /\ Available # <<>>
    /\ \E n \in 1..Len(Available) :
         LET in   == SubSeq(Available, 1, n)
             used == Taken(state, codec, in)
             next == After(state, codec, in)
             new  == Written(state, codec, in)
         IN  /\ codec' = IF next = "corrupt" THEN codec ELSE next
             /\ Drop(used)
             /\ tentative' = IF recording /\ new = <<>> THEN tentative \o SubSeq(in, 1, used) ELSE <<>>
             /\ recording' = (recording /\ new = <<>>)
             /\ out' = out \o new
             /\ outputSeen' = (outputSeen \/ new # <<>>)
             /\ limited' = (limited /\ new = <<>>)
             /\ pendingError' = "none"
    /\ UNCHANGED <<response, wire, state, result>>

\* poll_decoder on some of the bytes that are there.  Output goes to the caller
\* at once and an error in the same call is kept for the next poll.
PollInput ==
    /\ Ready /\ Available # <<>>
    /\ \E n \in 1..Len(Available) :
         LET in   == SubSeq(Available, 1, n)
             used == Taken(state, codec, in)
             next == After(state, codec, in)
             new  == Written(state, codec, in)
         IN  /\ codec' = next
             /\ Drop(used)
             /\ tentative' = IF recording /\ new = <<>> THEN tentative \o SubSeq(in, 1, used) ELSE <<>>
             /\ recording' = (recording /\ new = <<>>)
             /\ out' = out \o new
             /\ outputSeen' = (outputSeen \/ new # <<>>)
             /\ limited' = (limited /\ new = <<>>)
             /\ pendingError' = IF next = "corrupt" THEN "damaged" ELSE "none"
    /\ UNCHANGED <<response, wire, state, result>>

\* The decoder meets the end of its input: inside a member that is an error.
PollEnd ==
    /\ Ready /\ AtEnd
    /\ IF codec = "done"
       THEN /\ IF transportError THEN Finish("transport")
               ELSE state' = "drain" /\ UNCHANGED result
            /\ UNCHANGED <<codec, reader>>
       ELSE DecoderFailed("incomplete")
    /\ UNCHANGED <<response, wire, limited, pendingError, outputSeen, out>>

\* The only member has ended.
PollDone ==
    /\ result = "open" /\ state \in Decoders /\ pendingError = "none"
    /\ codec = "done" /\ ~MultiMember(state)
    /\ IF transportError THEN Finish("transport")
       ELSE state' = (IF state = "br" THEN "reject" ELSE "drain") /\ UNCHANGED result
    /\ recording' = FALSE /\ tentative' = <<>>
    /\ UNCHANGED <<response, wire, codec, buffered, replay, limited, transportError,
                   cleanEof, pendingError, outputSeen, out>>

\* Defect for the checks: a connection that fails while the rest is drained is
\* waited for.
PollDrainWaiting ==
    /\ result = "open" /\ state = "drain"
    /\ \/ /\ Available # <<>>
          /\ Drop(Len(Available))
          /\ UNCHANGED <<state, result>>
       \/ /\ AtEnd /\ cleanEof
          /\ Finish("end")
          /\ UNCHANGED <<replay, buffered, transportError, cleanEof>>
    /\ UNCHANGED <<response, wire, codec, tentative, recording, limited, pendingError,
                   outputSeen, out>>

\* poll_drain: what follows the last member is read and ignored.
PollDrain ==
    /\ result = "open" /\ state = "drain"
    /\ \/ /\ Available # <<>>
          /\ Drop(Len(Available))
          /\ UNCHANGED <<state, result>>
       \/ /\ AtEnd
          /\ Finish(IF transportError THEN "transport" ELSE "end")
          /\ UNCHANGED <<replay, buffered, transportError, cleanEof>>
    /\ UNCHANGED <<response, wire, codec, tentative, recording, limited, pendingError,
                   outputSeen, out>>

\* poll_reject_trailing: Brotli allows nothing after its stream.
PollRejectTrailing ==
    /\ result = "open" /\ state = "reject"
    /\ Available # <<>> \/ AtEnd
    /\ Finish(IF Available # <<>> THEN "decoding"
              ELSE IF transportError THEN "transport" ELSE "end")
    /\ UNCHANGED <<response, wire, codec, reader, limited, pendingError, outputSeen, out>>

Next ==
    \/ Arrives \/ PollPendingError \/ PollInput \/ PollEnd \/ PollDone
    \/ PollDrain \/ PollRejectTrailing

\* DecodedBody::new.
Init ==
    /\ \E s \in Streams : encoding = s.encoding /\ sent = s.symbols /\ wire = s.symbols
    /\ fault \in BOOLEAN
    /\ state = IF encoding = "deflate" THEN "zlib" ELSE encoding
    /\ codec = "start" /\ buffered = <<>> /\ replay = <<>> /\ tentative = <<>>
    /\ recording = (encoding = "deflate") /\ limited = (encoding = "br")
    /\ transportError = FALSE /\ cleanEof = FALSE /\ pendingError = "none"
    /\ outputSeen = FALSE /\ out = <<>> /\ result = "open"

Spec == Init /\ [][Next]_vars /\ WF_vars(Next)

-----------------------------------------------------------------------------
\* Whatever the frames and the format, what has been returned is a prefix of the
\* decoded stream: trying zlib first loses and repeats nothing.
DecodedInOrder == IsPrefix(out, Plain(encoding, sent))

\* A response ends normally only when the connection delivered all of it, all of
\* it was consumed, nothing in it is damaged and everything decoded was
\* returned; a stream cut short by a clean end is accepted.
EndIsHonest ==
    result = "end" => /\ ~fault /\ wire = <<>> /\ buffered = <<>> /\ replay = <<>>
                      /\ out = Plain(encoding, sent)
                      /\ Verdict(encoding, sent) # "corrupt"

\* A response is refused for what is wrong with it: a transport error only when
\* the connection failed, a decoding error only for damage, or for bytes after a
\* Brotli stream; what preceded the damage was returned, except by Brotli.
FailureIsHonest ==
    /\ result = "transport" => fault
    /\ result = "decoding" =>
         \/ Verdict(encoding, sent) = "corrupt" /\ (encoding # "br" => out = Plain(encoding, sent))
         \/ encoding = "br" /\ Taken("br", "start", sent) < Len(sent)

\* Every response ends or fails: the reader never waits for bytes that the
\* replay or the frame still holds.
DecodingEnds == <>(result # "open")
=============================================================================
