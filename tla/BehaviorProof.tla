---------------------------- MODULE BehaviorProof ----------------------------
(***************************************************************************)
(* The snapshots by which adapters.rs knows that the Python objects it       *)
(* stands in for have not been replaced: behavior_proof follows a function,   *)
(* a class, a partial or a descriptor into the objects it is made of and      *)
(* remembers the identity of every part; behavior_proof_is_pristine looks at  *)
(* the parts again.                                                           *)
(*                                                                            *)
(* A heap gives every object its kind, the sequence of its parts and whether  *)
(* Python has memoised an empty cache (__slotnames__, __annotations__) in it. *)
(* What the parts are (code, defaults, closure cells and attributes of a      *)
(* function; bases and dictionary of a class; the accessors of a descriptor)  *)
(* does not matter to the walk: each is an object that is compared by         *)
(* identity and followed.                                                     *)
(***************************************************************************)
EXTENDS Naturals, Sequences, FiniteSets, SequencesExt, Relation

CONSTANTS
    Objects     \* the Python objects

Kinds == {"function", "class", "partial", "descriptor", "mapping", "plain"}
Entries == [kind : Kinds, parts : BoundedSeq(Objects, 2), cached : BOOLEAN]

\* callable_proof, ClassProof, the Partial and Descriptor details: the kinds
\* that behavior_proof_inner looks into wherever it meets them.  A mapping is
\* looked into only as a value of a mapping.
Followed == {"function", "class", "partial", "descriptor"}

\* The parts of a function that mapping_proof_inner walks (its attributes,
\* annotations and keyword defaults) and the values of a mapping; a class
\* dictionary and the items of a sequence go to behavior_proof_inner.  In the
\* model the second part of a function stands for the mapping-held ones.
AsValue(kind, i) == kind = "mapping" \/ (kind = "function" /\ i = 2)

\* callable_proof, sequence_proof_inner, dict_proof_inner: what is walked next.
Parts(entry) ==
    [i \in 1 .. Len(entry.parts) |-> <<entry.parts[i], AsValue(entry.kind, i)>>]

AnyHeap == [Objects -> Entries]

\* behavior_proof_inner and mapping_proof_inner: depth first, each object once.
\* The first visit decides: a mapping first met outside a mapping stays opaque.
Freeze[work \in Seq(Objects \X BOOLEAN), visited \in SUBSET Objects, h \in AnyHeap] ==
    IF work = <<>> THEN {}
    ELSE LET o    == work[1][1]
             in   == work[1][2]
             kind == h[o].kind
             deep == kind \in Followed \/ (kind = "mapping" /\ in)
         IN  IF o \in visited THEN Freeze[Tail(work), visited, h]
             ELSE IF ~deep
                  THEN Freeze[Tail(work), visited \cup {o}, h]
             ELSE {o} \cup
                  Freeze[Parts(h[o]) \o Tail(work), visited \cup {o}, h]

\* behavior_proof: the objects whose parts the proof of root remembers.
ProofOf(h, root) == Freeze[<< <<root, FALSE>> >>, {}, h]

\* callable_proof_is_pristine, sequence_contents_are_pristine and
\* mapping_proof_is_pristine: the same objects in the same places.
SameParts(then, now) == then.parts = now.parts

\* class_dict_proof_is_pristine: a class may have gained one empty cache.
\* exact_dict_snapshot and the mappings of a function admit no new entry.
SameEntries(then, now) ==
    now.cached => then.cached \/ then.kind = "class"

\* behavior_proof_is_pristine: every remembered object is as it was.
Pristine(then, now, root) ==
    \A o \in ProofOf(then, root) :
        SameParts(then[o], now[o]) /\ SameEntries(then[o], now[o])

-----------------------------------------------------------------------------
(* The reference: what a replaced part of would change the root's behaviour. *)

\* Everything that calling root can reach through functions, classes, partials
\* and descriptors, as a transitive closure.
Reaches(h, root) ==
    LET step == {p \in Objects \X Objects :
                    h[p[1]].kind \in Followed
                    /\ p[2] \in ToSet(h[p[1]].parts)}
        closure == TransitiveClosure([p \in Objects \X Objects |-> p \in step],
                                     Objects)
    IN  {o \in Objects : h[o].kind \in Followed /\ (o = root \/ closure[root, o])}

=============================================================================
