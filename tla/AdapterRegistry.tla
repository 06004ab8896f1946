-------------------------- MODULE AdapterRegistry --------------------------
(***************************************************************************)
(* How an HTTPAdapter comes to have native pools, and loses them.  Three      *)
(* records of one adapter have to agree while threads send, close and         *)
(* unpickle it: the side table of the extension (ADAPTER_POOLS in             *)
(* adapters.rs), the facade's registry with its access, transition and        *)
(* registration marks (_rust_public.py), and urllib3's visible pools, of      *)
(* which the side table keeps a proof.                                        *)
(*                                                                            *)
(* One address is modelled, at which an adapter dies and another is           *)
(* allocated.  A thread may stop between any two locked sections; where a GIL *)
(* runs them (FreeThreaded = FALSE) the two sections of adapter_pool are one, *)
(* for nothing between them gives the GIL up.                                 *)
(***************************************************************************)
EXTENDS Naturals, Sequences, FiniteSets, SequencesExt

CONSTANTS
    Threads,
    Keys,               \* pool keys
    Realms,             \* direct, and the proxies
    Direct,             \* the realm of requests without a proxy
    PoolConnections,    \* pool_connections of the adapter
    Operations,         \* what the threads may call
    MaxOps,             \* bound on the calls
    ProofAttempts,      \* MANAGER_PROOF_ATTEMPTS
    FreeThreaded        \* no GIL

ASSUME RegistryAssumption ==
    /\ Direct \in Realms
    /\ PoolConnections \in Nat /\ ProofAttempts \in Nat /\ MaxOps \in Nat
    /\ FreeThreaded \in BOOLEAN

VARIABLES
    table,        \* the SideEntry of the address, or NoEntry
    registry,     \* the weakref of the facade's entry, or 0
    accesses,     \* _OWNER_ACCESSES: depth per thread
    transitions,  \* _OWNER_TRANSITIONS: depth per thread
    reservation,  \* _OWNER_REGISTRATIONS with its activity epoch
    visible,      \* urllib3's pools per realm, least recently used first
    manager,      \* generation of the adapter's pool managers
    retired,      \* the managers of the earlier generations, as they were left
    life,         \* "live", or how far the finalisation of the adapter is
    at,           \* the threads
    made,         \* native pools inserted so far
    cleared,      \* native pools cleared
    nextEpoch,    \* NEXT_ADAPTER_LIFECYCLE_EPOCH
    ops           \* calls so far

facade == <<registry, accesses, transitions, reservation>>
python == <<visible, manager, retired, life>>
native == <<table, made, cleared, nextEpoch>>
registryVars == <<table, registry, accesses, transitions, reservation, visible,
          manager, retired, life, at, made, cleared, nextEpoch, ops>>

NoEntry == [epoch |-> 0]
NoReservation == [by |-> {}, depth |-> 0, disturbed |-> FALSE]
\* A manager: whether there is one, whether it is what init_poolmanager or
\* proxy_manager_for makes, its pools, and a count of the changes to it.
Fresh == [r \in Realms |-> [is |-> r = Direct, plain |-> TRUE, keys |-> <<>>, ver |-> 0]]
NoPools == [pools |-> {}, order |-> <<>>]
Idle == [pc |-> "idle", op |-> "none", realm |-> Direct, key |-> 0, epoch |-> 0,
         rev |-> 0, adm |-> 0, ref |-> 0, mgr |-> 0, has |-> FALSE,
         then |-> "none", seen |-> Fresh, left |-> 0]

Active(depth) == {t \in Threads : depth[t] > 0}
Reserved == reservation.by # {}
Allowed == Active(transitions) = {} /\ ~Reserved
Disturb == IF Reserved THEN [reservation EXCEPT !.disturbed = TRUE] ELSE reservation

PoolIds(entry) ==
    IF entry = NoEntry THEN {}
    ELSE UNION {{p.id : p \in entry.realm[r].pools} : r \in Realms}

\* A thread moves on; the locals it does not name keep their values.
Go(t, pc) == at' = [at EXCEPT ![t].pc = pc]
Leave(t) == at' = [at EXCEPT ![t] = Idle]

-----------------------------------------------------------------------------
(* Proofs of the visible managers.                                             *)

\* manager_proof and stable_manager_pools_proof: the pools that a manager holds
\* now, in the order of its container.  An entry, and a send that has its manager,
\* still observe that one when the adapter has got another.
Observe(mgr) == IF mgr \in DOMAIN retired THEN retired[mgr] ELSE visible

\* manager_proof_is_pristine over the direct manager and every proxy manager.
ManagersPristine(proof) ==
    \A r \in Realms : /\ visible[r].is = proof[r].is
                       /\ visible[r].plain = proof[r].plain
                       /\ visible[r].keys = proof[r].keys

\* manager_identity_is_pristine and manager_configuration_is_pristine.
DirectIsPlain == visible[Direct].plain

\* canonical_proxy_manager_is_pristine for the managers that have no proof yet,
\* manager_immutable_proof_is_pristine for the others.
ProxiesAreCanonical ==
    \A r \in Realms \ {Direct} : visible[r].is =>
        IF table.proof[r].is THEN visible[r].plain = table.proof[r].plain ELSE visible[r].plain

\* urllib3's connection_from_url: the pool becomes the most recently used one,
\* the least recently used one goes.
Touch(r, k) ==
    LET all  == Append(RemoveFirst(visible[r].keys, k), k)
        new  == SubSeq(all, IF Len(all) > PoolConnections THEN 2 ELSE 1, Len(all))
    IN  visible' = [visible EXCEPT ![r].is = TRUE, ![r].keys = new, ![r].ver = @ + 1]

-----------------------------------------------------------------------------
(* The side table.                                                             *)

\* table.insert of _adapter_register_trial; the entry it replaces is cleared.
Insert(mgr, seen) ==
    /\ table' = [epoch |-> nextEpoch, adm |-> 0, rev |-> 0, ref |-> nextEpoch,
                 mgr |-> mgr, proof |-> seen, realm |-> [r \in Realms |-> NoPools]]
    /\ nextEpoch' = nextEpoch + 1
    /\ cleared' = cleared \cup PoolIds(table)
    /\ UNCHANGED made

\* Defect for the checks: the pools of a dropped entry keep their connections.
RemoveEntryUncleared ==
    /\ table' = NoEntry
    /\ UNCHANGED <<cleared, made, nextEpoch>>

\* table.remove followed by clear_realms.
RemoveEntry ==
    /\ table' = NoEntry
    /\ cleared' = cleared \cup PoolIds(table)
    /\ UNCHANGED <<made, nextEpoch>>

RemoveReference(ref) ==
    IF table # NoEntry /\ table.ref = ref THEN RemoveEntry ELSE UNCHANGED native

\* realm.order.retain and push_back; an order holds a key once (LruSound).
TouchOrder(order, k) ==
    LET kept == RemoveFirst(order, k)
    IN  IF PoolConnections > 0 THEN Append(kept, k) ELSE kept

\* How many of the oldest pools have to go before one is inserted.
Excess(realm) ==
    IF PoolConnections = 0 \/ Cardinality(realm.pools) < PoolConnections THEN 0
    ELSE Cardinality(realm.pools) - PoolConnections + 1

\* The second locked section of adapter_pool: the realm's pool for the key, or
\* the candidate in the place of the least recently used ones.
AdmitPool(r, k) ==
    LET realm   == table.realm[r]
        known   == \E p \in realm.pools : p.key = k
        n       == IF known THEN 0 ELSE Excess(realm)
        gone    == {realm.order[i] : i \in 1..n}
        stay    == {p \in realm.pools : p.key \notin gone}
        order   == SubSeq(realm.order, n + 1, Len(realm.order))
        new     == IF known \/ PoolConnections = 0 THEN {} ELSE {[key |-> k, id |-> made + 1]}
    IN  /\ table' = [table EXCEPT !.adm = @ + 1,
                         !.realm[r] = [pools |-> stay \cup new, order |-> TouchOrder(order, k)]]
        /\ made' = made + Cardinality(new)
        /\ cleared' = cleared \cup {p.id : p \in realm.pools \ stay}
        /\ UNCHANGED nextEpoch

-----------------------------------------------------------------------------
(* Entry of an operation.                                                      *)

\* HTTPAdapter.send and close: the outer owner_access.
EnterAccess(t, op) ==
    /\ ops < MaxOps /\ life = "live" /\ at[t].pc = "idle"
    /\ \E r \in IF op = "send" THEN Realms ELSE {Direct}, k \in IF op = "send" THEN Keys ELSE {0} :
          at' = [at EXCEPT ![t] = [Idle EXCEPT !.pc = IF Allowed THEN "admit" ELSE "compat",
                                               !.op = op, !.realm = r, !.key = k]]
    /\ accesses' = [accesses EXCEPT ![t] = @ + 1]
    /\ reservation' = Disturb
    /\ ops' = ops + 1
    /\ UNCHANGED <<native, python, registry, transitions>>

StartSend(t) == "send" \in Operations /\ EnterAccess(t, "send")
StartClose(t) == "close" \in Operations /\ EnterAccess(t, "close")

\* _admit: nothing while a registration is under way, nothing to do when the
\* registry has this adapter.
AdmitOwner(t) ==
    /\ at[t].pc = "admit"
    /\ reservation' = Disturb
    /\ Go(t, IF Reserved \/ registry # 0 THEN "inner" ELSE "begin")
    /\ UNCHANGED <<native, python, ops, registry, accesses, transitions>>

Purpose(t) == IF at[t].op = "setstate" THEN "register" ELSE "admit"
Resume(t) == at' = [at EXCEPT ![t] = IF Purpose(t) = "admit" THEN [@ EXCEPT !.pc = "inner"]
                                     ELSE Idle]

\* _begin_adapter_registration: refused during another registration or a
\* transition, and while another thread has the adapter in use.
BeginRegistration(t) ==
    /\ at[t].pc = "begin"
    /\ LET free == ~Reserved /\ Active(transitions) = {} /\ Active(accesses) \subseteq {t}
       IN  /\ reservation' = IF free THEN [by |-> {t}, depth |-> accesses[t], disturbed |-> FALSE]
                             ELSE Disturb
           /\ IF free THEN Go(t, "native") ELSE Resume(t)
    /\ UNCHANGED <<native, python, ops, registry, accesses, transitions>>

\* _adapter_register_trial up to the insertion: an existing entry is proved
\* again, a new one is only made of an adapter without proxy managers.
RegisterNative(t) ==
    /\ at[t].pc = "native"
    /\ at' = [at EXCEPT ![t] =
         IF table # NoEntry
         THEN [@ EXCEPT !.pc = "proof", !.then = "registration", !.left = ProofAttempts]
         ELSE [@ EXCEPT !.pc = IF ~DirectIsPlain \/ \E r \in Realms \ {Direct} : visible[r].is
                               THEN "unreserve" ELSE "insert",
                        !.mgr = manager, !.seen = visible]]
    /\ UNCHANGED <<native, facade, python, ops>>

InsertEntry(t) ==
    /\ at[t].pc = "insert"
    /\ Insert(at[t].mgr, at[t].seen)
    /\ at' = [at EXCEPT ![t].pc = "commit", ![t].ref = nextEpoch]
    /\ UNCHANGED <<facade, python, ops>>

\* The reservation is this thread's, nothing happened to the adapter since, and
\* the accesses are those it began with.
RegistrationValid(t) ==
    /\ reservation.by = {t} /\ ~reservation.disturbed
    /\ Active(transitions) = {}
    /\ accesses[t] = reservation.depth /\ Active(accesses) \subseteq {t}

CommitRegistration(t) ==
    /\ at[t].pc = "commit"
    /\ IF RegistrationValid(t)
       THEN /\ registry' = IF Purpose(t) = "admit" THEN at[t].ref ELSE registry
            /\ reservation' = NoReservation
            /\ Resume(t)
       ELSE /\ registry' = IF registry = at[t].ref THEN 0 ELSE registry
            /\ Go(t, "drop")
            /\ UNCHANGED reservation
    /\ UNCHANGED <<native, python, ops, accesses, transitions>>

\* _drop_adapter_reference after a registration that came to nothing.
DropRegistration(t) ==
    /\ at[t].pc = "drop"
    /\ RemoveReference(at[t].ref)
    /\ Go(t, "unreserve")
    /\ UNCHANGED <<facade, python, ops>>

ClearRegistration(t) ==
    /\ at[t].pc = "unreserve"
    /\ reservation' = IF reservation.by = {t} THEN NoReservation ELSE reservation
    /\ Resume(t)
    /\ UNCHANGED <<native, python, ops, registry, accesses, transitions>>

\* The inner owner_access of dispatch; the facade's close is not native.
EnterInner(t) ==
    /\ at[t].pc = "inner"
    /\ reservation' = Disturb
    /\ at' = [at EXCEPT ![t].pc = IF Allowed /\ at[t].op = "send" THEN "proof" ELSE "compat",
                        ![t].then = "send", ![t].left = ProofAttempts]
    /\ UNCHANGED <<native, python, ops, registry, accesses, transitions>>

-----------------------------------------------------------------------------
(* A native send.                                                              *)

\* registered_adapter_pristine and _adapter_reference_trial: copy the proof.
ProofFallback(t) == IF at[t].then = "registration" THEN "unreserve" ELSE "compat"

CopyProof(t) ==
    /\ at[t].pc = "proof"
    /\ at' = [at EXCEPT ![t] =
         IF table = NoEntry \/ at[t].left = 0 THEN [@ EXCEPT !.pc = ProofFallback(t)]
         ELSE [@ EXCEPT !.pc = "verify", !.epoch = table.epoch, !.rev = table.rev,
                        !.mgr = table.mgr, !.ref = table.ref, !.seen = table.proof]]
    /\ UNCHANGED <<native, facade, python, ops>>

\* Compare it with the managers; start again when the proof was renewed.
VerifyProof(t) ==
    /\ at[t].pc = "verify"
    /\ at' = [at EXCEPT ![t] =
         IF table = NoEntry \/ table.epoch # @.epoch THEN [@ EXCEPT !.pc = ProofFallback(t)]
         ELSE IF table.rev # @.rev THEN [@ EXCEPT !.pc = "proof", !.left = at[t].left - 1]
         ELSE [@ EXCEPT !.pc = IF at[t].mgr # manager \/ ~ManagersPristine(at[t].seen)
                               THEN ProofFallback(t)
                               ELSE IF at[t].then = "send" THEN "lookup" ELSE "commit"]]
    /\ UNCHANGED <<native, facade, python, ops>>

\* The first locked section of adapter_pool.
LookupPool(t) ==
    /\ at[t].pc = "lookup"
    /\ at' = [at EXCEPT ![t] =
         IF table = NoEntry \/ table.mgr # manager THEN [@ EXCEPT !.pc = "compat"]
         ELSE [@ EXCEPT !.pc = "select", !.epoch = table.epoch, !.mgr = table.mgr,
                        !.has = \E p \in table.realm[at[t].realm].pools : p.key = at[t].key]]
    /\ UNCHANGED <<native, facade, python, ops>>

\* The candidate that adapter_pool expects: it was made when the first section
\* had found no pool.
CandidateMissing(t) ==
    at[t].has /\ ~\E p \in table.realm[at[t].realm].pools : p.key = at[t].key

\* The second locked section.
TakePool(t) ==
    /\ at[t].pc = "select"
    /\ IF table = NoEntry \/ table.epoch # at[t].epoch \/ table.mgr # at[t].mgr
       THEN Go(t, "compat") /\ UNCHANGED native
       ELSE IF CandidateMissing(t)
       THEN Go(t, "panic") /\ UNCHANGED native
       ELSE AdmitPool(at[t].realm, at[t].key) /\ Go(t, "connect")
    /\ UNCHANGED <<facade, python, ops>>

\* proxy_manager_for and connection_from_url: from here on the send is native.
ConnectManager(t) ==
    /\ at[t].pc = "connect"
    /\ Touch(at[t].realm, at[t].key)
    /\ at' = [at EXCEPT ![t].pc = "observe", ![t].mgr = manager, ![t].left = ProofAttempts]
    /\ UNCHANGED <<native, facade, manager, retired, life, ops>>

\* record_visible_direct_manager observes the manager that the send has,
\* record_visible_proxy_manager the mapping that the adapter has now; either has to
\* be that of the entry.
ObserveManagers(t) ==
    /\ at[t].pc = "observe"
    /\ IF \/ table = NoEntry \/ table.epoch # at[t].epoch \/ at[t].left = 0
          \/ at[t].realm = Direct /\ table.mgr # at[t].mgr
          \/ at[t].realm # Direct /\ (table.mgr # manager \/ ~ProxiesAreCanonical)
       THEN Go(t, "raise")
       ELSE at' = [at EXCEPT ![t].pc = "record", ![t].rev = table.rev,
                             ![t].seen = Observe(table.mgr)]
    /\ UNCHANGED <<native, facade, python, ops>>

\* The direct recorder renews the direct pools, the other one all the proxies.
\* What is proved of a manager besides its pools is not renewed.
Renewed(old, new) == IF old.is THEN [new EXCEPT !.plain = old.plain] ELSE new
Recorded(t) == [r \in Realms |-> IF (r = Direct) <=> (at[t].realm = Direct)
                                 THEN Renewed(table.proof[r], at[t].seen[r]) ELSE table.proof[r]]

\* Defect for the checks: the proof revision is not compared.
RecordProofBlindly(t) ==
    /\ at[t].pc = "record"
    /\ IF table = NoEntry \/ table.epoch # at[t].epoch
       THEN Go(t, "raise") /\ UNCHANGED native
       ELSE /\ table' = [table EXCEPT !.proof = Recorded(t), !.rev = @ + 1]
            /\ Go(t, "sent")
            /\ UNCHANGED <<made, cleared, nextEpoch>>
    /\ UNCHANGED <<facade, python, ops>>

RecordProof(t) ==
    /\ at[t].pc = "record"
    /\ IF table = NoEntry \/ table.epoch # at[t].epoch
       THEN Go(t, "raise") /\ UNCHANGED native
       ELSE IF table.rev # at[t].rev
       THEN at' = [at EXCEPT ![t].pc = "observe", ![t].left = @ - 1] /\ UNCHANGED native
       ELSE /\ table' = [table EXCEPT !.proof = Recorded(t), !.rev = @ + 1]
            /\ Go(t, "sent")
            /\ UNCHANGED <<made, cleared, nextEpoch>>
    /\ UNCHANGED <<facade, python, ops>>

\* The response, or the RuntimeError of a state that changed after commitment.
ExitSend(t) ==
    /\ at[t].pc \in {"sent", "raise"} /\ at[t].op = "send"
    /\ accesses' = [accesses EXCEPT ![t] = @ - 1]
    /\ Leave(t)
    /\ UNCHANGED <<native, python, ops, registry, transitions, reservation>>

\* The Python implementation of send: urllib3's pools change, no proof does.
CompatSend(t) ==
    /\ at[t].pc = "compat" /\ at[t].op = "send"
    /\ Touch(at[t].realm, at[t].key)
    /\ accesses' = [accesses EXCEPT ![t] = @ - 1]
    /\ Leave(t)
    /\ UNCHANGED <<native, manager, retired, life, ops, registry, transitions, reservation>>

-----------------------------------------------------------------------------
(* close.                                                                      *)

CompatClose(t) ==
    /\ at[t].pc = "compat" /\ at[t].op = "close"
    /\ visible' = [r \in Realms |-> [visible[r] EXCEPT !.keys = <<>>, !.ver = @ + 1]]
    /\ Go(t, "dropTable")
    /\ UNCHANGED <<native, facade, manager, retired, life, ops>>

\* _adapter_drop_trial.
CloseTable(t) ==
    /\ at[t].pc = "dropTable"
    /\ IF table = NoEntry THEN UNCHANGED native ELSE RemoveEntry
    /\ Go(t, "closeOwner")
    /\ UNCHANGED <<facade, python, ops>>

CloseOwner(t) ==
    /\ at[t].pc = "closeOwner"
    /\ registry' = 0
    /\ accesses' = [accesses EXCEPT ![t] = @ - 1]
    /\ Leave(t)
    /\ UNCHANGED <<native, python, ops, transitions, reservation>>

\* _adapter_close_trial, which keeps the entry: read it and the managers.
StartNativeClose(t) ==
    /\ "nativeClose" \in Operations /\ ops < MaxOps /\ life = "live" /\ at[t].pc = "idle"
    /\ at' = [at EXCEPT ![t] = [Idle EXCEPT !.pc = "closeRead", !.op = "nativeClose",
                                            !.left = ProofAttempts]]
    /\ ops' = ops + 1
    /\ UNCHANGED <<native, facade, python>>

NativeCloseRead(t) ==
    /\ at[t].pc = "closeRead"
    /\ IF table = NoEntry \/ at[t].left = 0 THEN Leave(t)
       ELSE at' = [at EXCEPT ![t] = [@ EXCEPT !.pc = "closeTake", !.epoch = table.epoch,
                                !.adm = table.adm, !.rev = table.rev,
                                !.seen = Observe(table.mgr)]]
    /\ UNCHANGED <<native, facade, python, ops>>

\* A proof for every manager that the entry knows.
Known(seen) == [r \in Realms |-> IF table.proof[r].is THEN Renewed(table.proof[r], seen[r]) ELSE table.proof[r]]

NativeCloseTake(t) ==
    /\ at[t].pc = "closeTake"
    /\ IF table = NoEntry \/ table.epoch # at[t].epoch \/ table.adm # at[t].adm
       THEN Leave(t) /\ UNCHANGED native
       ELSE IF table.rev # at[t].rev
       THEN at' = [at EXCEPT ![t].pc = "closeRead", ![t].left = @ - 1] /\ UNCHANGED native
       ELSE /\ cleared' = cleared \cup PoolIds(table)
            /\ table' = [table EXCEPT !.realm = [r \in Realms |-> NoPools],
                              !.proof = Known(at[t].seen), !.epoch = nextEpoch, !.rev = @ + 1]
            /\ nextEpoch' = nextEpoch + 1
            /\ Leave(t)
            /\ UNCHANGED made
    /\ UNCHANGED <<facade, python, ops>>

-----------------------------------------------------------------------------
(* __setstate__.                                                               *)

\* owner_transition: the first one detaches the native state.
StartSetstate(t) ==
    /\ "setstate" \in Operations /\ ops < MaxOps /\ life = "live" /\ at[t].pc = "idle"
    /\ reservation' = Disturb
    /\ transitions' = [transitions EXCEPT ![t] = @ + 1]
    /\ at' = [at EXCEPT ![t] = [Idle EXCEPT !.op = "setstate",
                          !.pc = IF Active(transitions) = {} THEN "detach" ELSE "replace"]]
    /\ ops' = ops + 1
    /\ UNCHANGED <<native, python, registry, accesses>>

\* _adapter_reference_trial; without an entry close_owner is all there is to do.
DetachReference(t) ==
    /\ at[t].pc = "detach"
    /\ IF table = NoEntry THEN registry' = 0 /\ Go(t, "replace")
       ELSE /\ registry' = IF registry = table.ref THEN 0 ELSE registry
            /\ at' = [at EXCEPT ![t].pc = "detachDrop", ![t].ref = table.ref]
    /\ UNCHANGED <<native, python, ops, accesses, transitions, reservation>>

DetachDrop(t) ==
    /\ at[t].pc = "detachDrop"
    /\ RemoveReference(at[t].ref)
    /\ Go(t, "replace")
    /\ UNCHANGED <<facade, python, ops>>

\* init_poolmanager and the new proxy_manager mapping.
NewManagers ==
    /\ manager' = manager + 1
    /\ visible' = Fresh
    /\ retired' = Append(retired, visible)

ReplaceManagers(t) ==
    /\ at[t].pc = "replace"
    /\ NewManagers
    /\ Go(t, "exit")
    /\ UNCHANGED <<native, facade, life, ops>>

\* The last transition registers again, unless the adapter is in use.
ExitTransition(t) ==
    /\ at[t].pc = "exit"
    /\ transitions' = [transitions EXCEPT ![t] = @ - 1]
    /\ IF Active(transitions) = {t} /\ Active(accesses) = {} THEN Go(t, "begin") ELSE Leave(t)
    /\ UNCHANGED <<native, python, ops, registry, accesses, reservation>>

-----------------------------------------------------------------------------
(* The end of the adapter, and reap_adapter_pools, which any send on any       *)
(* adapter begins with.                                                        *)

AllIdle == \A t \in Threads : at[t].pc = "idle" \/ at[t].op = "elsewhere"

Die ==
    /\ life = "live" /\ AllIdle /\ ops < MaxOps
    /\ life' = "dead"
    /\ ops' = ops + 1
    /\ UNCHANGED <<native, facade, visible, manager, retired, at>>

\* The weakref's callback: close_reference, then _adapter_drop_reference_trial.
Finalize ==
    \/ /\ life = "dead"
       /\ life' = "closed"
       /\ registry' = IF table # NoEntry /\ registry = table.ref THEN 0 ELSE registry
       /\ UNCHANGED <<native, visible, manager, retired, at, ops, accesses, transitions, reservation>>
    \/ /\ life = "closed"
       /\ life' = "freed"
       /\ IF table = NoEntry THEN UNCHANGED native ELSE RemoveEntry
       /\ UNCHANGED <<facade, visible, manager, retired, at, ops>>

\* Another adapter is constructed at the address; nobody else has it yet.
Construct ==
    /\ life = "freed"
    /\ life' = "live"
    /\ NewManagers
    /\ Insert(manager + 1, Fresh)
    /\ registry' = nextEpoch
    /\ UNCHANGED <<at, ops, accesses, transitions, reservation>>

\* The program replaces a manager, or part of one, by something of its own.
Tamper ==
    /\ "tamper" \in Operations /\ ops < MaxOps /\ life = "live"
    /\ \E r \in Realms : visible' = [visible EXCEPT ![r].is = TRUE, ![r].plain = FALSE,
                                                   ![r].ver = @ + 1]
    /\ ops' = ops + 1
    /\ UNCHANGED <<native, facade, manager, retired, life, at>>

StartReap(t) ==
    /\ "elsewhere" \in Operations /\ ops < MaxOps /\ at[t].pc = "idle"
    /\ IF table # NoEntry /\ life # "live"
       THEN at' = [at EXCEPT ![t] = [Idle EXCEPT !.op = "elsewhere", !.pc = "reap",
                                                 !.epoch = table.epoch]]
       ELSE UNCHANGED at
    /\ ops' = ops + 1
    /\ UNCHANGED <<native, facade, python>>

\* Defect for the checks: the dead entry is removed by its address alone.
ReapByAddress(t) ==
    /\ at[t].pc = "reap"
    /\ IF table # NoEntry THEN RemoveEntry ELSE UNCHANGED native
    /\ Leave(t)
    /\ UNCHANGED <<facade, python, ops>>

ReapDead(t) ==
    /\ at[t].pc = "reap"
    /\ IF table # NoEntry /\ table.epoch = at[t].epoch THEN RemoveEntry ELSE UNCHANGED native
    /\ Leave(t)
    /\ UNCHANGED <<facade, python, ops>>

-----------------------------------------------------------------------------
\* Without a GIL any thread may run; with one, nobody else does between the two
\* sections of adapter_pool.
Scheduled(t) == FreeThreaded \/ \A u \in Threads \ {t} : at[u].pc # "select"

Step(t) ==
    \/ StartSend(t) \/ StartClose(t) \/ AdmitOwner(t) \/ BeginRegistration(t)
    \/ RegisterNative(t) \/ InsertEntry(t) \/ CommitRegistration(t)
    \/ DropRegistration(t) \/ ClearRegistration(t) \/ EnterInner(t)
    \/ CopyProof(t) \/ VerifyProof(t) \/ LookupPool(t) \/ TakePool(t)
    \/ ConnectManager(t) \/ ObserveManagers(t) \/ RecordProof(t) \/ ExitSend(t)
    \/ CompatSend(t) \/ CompatClose(t) \/ CloseTable(t) \/ CloseOwner(t)
    \/ StartNativeClose(t) \/ NativeCloseRead(t) \/ NativeCloseTake(t)
    \/ StartSetstate(t) \/ DetachReference(t) \/ DetachDrop(t)
    \/ ReplaceManagers(t) \/ ExitTransition(t)
    \/ StartReap(t) \/ ReapDead(t)

RegistryNext == (\E t \in Threads : Scheduled(t) /\ Step(t)) \/ Tamper \/ Die \/ Finalize \/ Construct

\* A constructed adapter: __init__ has admitted and registered it.
RegistryInit ==
    /\ table = [epoch |-> 1, adm |-> 0, rev |-> 0, ref |-> 1, mgr |-> 1,
                proof |-> Fresh, realm |-> [r \in Realms |-> NoPools]]
    /\ registry = 1
    /\ accesses = [t \in Threads |-> 0] /\ transitions = [t \in Threads |-> 0]
    /\ reservation = NoReservation
    /\ visible = Fresh /\ manager = 1 /\ retired = <<>> /\ life = "live"
    /\ at = [t \in Threads |-> Idle]
    /\ made = 0 /\ cleared = {} /\ nextEpoch = 2 /\ ops = 0

RegistrySpec == RegistryInit /\ [][RegistryNext]_registryVars

-----------------------------------------------------------------------------
\* The eviction order of every realm names each of its pools once, and no realm
\* has more than pool_connections.
LruSound ==
    table # NoEntry => \A r \in Realms :
        /\ ToSet(table.realm[r].order) = {p.key : p \in table.realm[r].pools}
        /\ Len(table.realm[r].order) = Cardinality(table.realm[r].pools)
        /\ Cardinality(table.realm[r].pools) <= PoolConnections

\* A pool that left the table, by eviction, close, unpickling, a failed
\* registration or the end of its adapter, has been cleared.
NoPoolForgotten == \A p \in 1..made : p \in PoolIds(table) <=> p \notin cleared

\* An entry for managers that the adapter no longer has can be there only while
\* a transition is under way or a registration that will be refused; no send
\* can be admitted by it.
StaleEntryFenced ==
    table # NoEntry /\ life = "live" /\ table.mgr # manager =>
        Active(transitions) # {} \/ (Reserved /\ reservation.disturbed)

\* When the threads have left, their marks are gone too and the facade's entry
\* is that of the side table.
NothingLeftBehind ==
    (\A t \in Threads : at[t] = Idle) =>
        /\ Active(accesses) = {} /\ Active(transitions) = {} /\ ~Reserved
        /\ registry # 0 /\ life = "live" => table # NoEntry /\ table.ref = registry

\* Whatever the threads do with an adapter, the table of native pools is right:
\* the eviction order names each pool of a realm once and not more than
\* pool_connections, a pool that left the table has been cleared, an entry for
\* managers that the adapter no longer has admits no send, and the threads leave
\* no mark behind.
TableIsSound == LruSound /\ NoPoolForgotten /\ StaleEntryFenced /\ NothingLeftBehind

\* Concurrent sends never replace the recorded proof of the visible pools by an
\* older observation.
ProofNeverGoesBack ==
    [][table # NoEntry /\ table' # NoEntry /\ table'.epoch = table.epoch =>
         \A r \in Realms : table'.proof[r].ver >= table.proof[r].ver]_registryVars

\* A live adapter loses its entry to its own close, unpickling or refused
\* registration, never to the reaper or to the end of an earlier adapter.
LiveEntryKept ==
    [][life = "live" /\ table # NoEntry /\ table' = NoEntry =>
         \E t \in Threads : at[t].pc \in {"dropTable", "detachDrop", "drop"} /\ at'[t] # at[t]]_registryVars

\* A send is admitted only past managers that are what the extension stands in
\* for: no sequence of recordings makes a replaced one part of the proof.
ReplacedManagerRefused ==
    [][\A t \in Threads : at[t].pc = "verify" /\ at'[t].pc = "lookup" =>
         \A r \in Realms : visible[r].plain]_registryVars

\* The `expect` of adapter_pool: the pool that the first locked section found is
\* there in the second, or a candidate has been made.
CandidateIsThere == \A t \in Threads : at[t].pc # "panic"
=============================================================================
