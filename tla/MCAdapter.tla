----------------------------- MODULE MCAdapter -----------------------------
(***************************************************************************)
(* The extension's HTTPAdapter for TLC: one send (AdapterSend), the registry *)
(* of native pools behind all adapters (AdapterRegistry: two threads, one   *)
(* pool per realm and two realms) and the Response that a send returns      *)
(* (ResponseContent: two iterators over three units).  They are checked     *)
(* side by side: a behaviour runs the part that part names, and the others  *)
(* stay in one of their initial states.                                     *)
(***************************************************************************)
EXTENDS MCAdapterSend, AdapterRegistry

VARIABLES
    part,
    kind, raw, content, consumed, its, lines, units, raised, closed

contentVars == <<kind, raw, content, consumed, its, lines, units, raised, closed>>
allVars == <<part, vars, registryVars, contentVars>>

C == INSTANCE ResponseContent WITH
        Size <- 3, Iterators <- {"i1", "i2"}, Amounts <- {1, 2, 9}, Unlimited <- 9,
        Codings <- {"identity", "bounded", "unbounded", "file"}, Frames <- {1, 2},
        Delimiters <- {<<>>, <<"cr", "lf">>, <<"lf", "lf">>},
        kind <- kind, raw <- raw, content <- content, consumed <- consumed, its <- its,
        lines <- lines, got <- units, raised <- raised, closed <- closed

FixedKind == CHOOSE k \in C!Kinds : k.coding = "identity" /\ k.ends = "whole"

\* The replaced methods that a native operation would pass over.
Diverging == C!Divergent

MCInit ==
    /\ part \in {"send", "registry", "content"}
    /\ Init
    /\ part # "send" => /\ world = CHOOSE h \in Heaps : TRUE
                        /\ input = Plain /\ maxRetries = Base
    /\ RegistryInit
    /\ C!Init /\ (part # "content" => kind = FixedKind)

MCNext ==
    \/ part = "send" /\ Next /\ UNCHANGED <<part, registryVars, contentVars>>
    \/ part = "registry" /\ RegistryNext /\ UNCHANGED <<part, vars, contentVars>>
    \/ part = "content" /\ C!Next /\ UNCHANGED <<part, vars, registryVars>>

MCSpec == MCInit /\ [][MCNext]_allVars

----------------------------------------------------------------------------
\* Concurrent sends never replace the recorded proof of the visible pools by an
\* older observation, and no sequence of recordings makes a replaced manager part
\* of the proof: a send is admitted only past managers that the extension stands
\* in for.  The proof of an object is exact: no replaced part is missed, and
\* nothing that does not matter is taken for one.
ProofIsCurrent == ProofNeverGoesBack /\ ReplacedManagerRefused /\ []ProofIsExact

\* However iter_content, content and raw reads of one Response are mixed, no byte
\* is handed out twice or out of order and before the first error none is skipped;
\* a response counts as consumed with bytes missing only after an error, a close,
\* or the end of an incomplete body that urllib3 1.26 would not report either;
\* content after an error is the rest, nothing, or what was decoded before damaged
\* bytes, never a fragment of a body whose connection broke; and a raw object that
\* is closed has given its connection back.
ContentIsWhole ==
    C!EachByteOnce /\ C!TruncationReported /\ C!NeverAFragment /\ C!ClosedHoldsNothing

\* What iter_lines gives depends on the chunks only where Python's does: a cut inside
\* \r\n, or right after a delimiter, adds one empty line there and changes nothing
\* else.
LinesAreWhole == C!LinesAreWhole

\* A method of Response that the program replaced runs whenever it would in the
\* Python implementation, whichever native operation reaches it.
OwnMethodsRun == kind.named \notin Diverging
=============================================================================
