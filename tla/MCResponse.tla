----------------------------- MODULE MCResponse -----------------------------
(***************************************************************************)
(* The way of a response through the core crate for TLC, from the permit of *)
(* its send to its decoded end: AdapterPool (two sends for the one          *)
(* connection of a blocking adapter, each with a total timeout or with the  *)
(* other two), ResponseBody (the reader) and DecodedBody (its content       *)
(* decoder).  They are checked side by side: a behaviour runs the layer     *)
(* that part names, and the others stay in one of their initial states, in  *)
(* which every property holds.                                              *)
(***************************************************************************)
EXTENDS MCResponseBody, AdapterPool

VARIABLES
    part,
    encoding, wire, fault, sent, decoder, codec, buffered, replay, tentative, recording,
    limited, transportError, cleanEof, decoderError, outputSeen, out, result

decoderVars == <<encoding, wire, fault, sent, decoder, codec, buffered, replay, tentative,
                 recording, limited, transportError, cleanEof, decoderError, outputSeen, out,
                 result>>
allVars == <<part, avars, bodyVars, decoderVars>>

LiveTimeouts == {{"total"}, {"connect", "read"}}

\* Members of up to two bytes, alone, twice, cut, damaged and followed by more,
\* in the right format or in another.
Formats == {"gzip", "deflate", "br", "zstd"}
Members == {<<h, "a", "b", "E">> : h \in {"G", "Z", "R", "B", "S"}}
Again(m) == {m, m \o m, m \o <<"x">>}
Cut(m) == {SubSeq(m, 1, n) : n \in 0..Len(m)}
Damaged(m) == {SubSeq(m, 1, n) \o <<"x">> \o SubSeq(m, n + 1, Len(m)) : n \in 0..(Len(m) - 1)}
Variants == UNION {Again(m) \cup Cut(m) \cup Damaged(m) : m \in Members}
AllStreams == {[encoding |-> e, symbols |-> v] : e \in Formats, v \in Variants}

D == INSTANCE DecodedBody WITH
        Encodings <- Formats, Streams <- AllStreams,
        encoding <- encoding, wire <- wire, fault <- fault, sent <- sent, state <- decoder,
        codec <- codec, buffered <- buffered, replay <- replay, tentative <- tentative,
        recording <- recording, limited <- limited, transportError <- transportError,
        cleanEof <- cleanEof, pendingError <- decoderError, outputSeen <- outputSeen,
        out <- out, result <- result

MCInit ==
    /\ part \in {"pool", "body", "decoder"}
    /\ AInit
    /\ BodyInit /\ (part # "body" => response = CHOOSE w \in Responses : TRUE)
    /\ D!Init /\ (part # "decoder" => encoding = "br" /\ sent = <<>> /\ ~fault)

PoolStep == part = "pool" /\ ANext /\ UNCHANGED <<part, bodyVars, decoderVars>>
BodyStep == part = "body" /\ BodyNext /\ UNCHANGED <<part, avars, decoderVars>>
DecoderStep == part = "decoder" /\ D!Next /\ UNCHANGED <<part, avars, bodyVars>>

MCNext == PoolStep \/ BodyStep \/ DecoderStep

\* Whoever polls the decoder polls again until the end, and the executor is fair to
\* the sends (nothing of AFairness can happen outside of the part "pool").
MCSpec == MCInit /\ [][MCNext]_allVars /\ WF_allVars(DecoderStep) /\ AFairness

----------------------------------------------------------------------------
\* The end of a decoded body and its failures are what the encoded stream says:
\* what poll_next returned is a prefix of the decoded stream, also when zlib was
\* tried and given up; a normal end means that everything arrived, was consumed
\* and was intact; and no error is reported for another, or instead of output.
DecodedHonestly == D!DecodedInOrder /\ D!EndIsHonest /\ D!FailureIsHonest

\* Every decoded body ends or fails: the reader never waits for bytes that the
\* replay or the frame still holds.
DecodingEnds == part = "decoder" => D!DecodingEnds
=============================================================================
