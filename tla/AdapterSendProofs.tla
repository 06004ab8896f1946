-------------------------- MODULE AdapterSendProofs --------------------------
(***************************************************************************)
(* One send of HTTPAdapter, for every heap, set of arguments, Retry object  *)
(* and sequence of outcomes.  The admission's part of the invariant says    *)
(* what the last look at the world still vouches for; the retry loop's part *)
(* keeps the accounts of the policy that admission read: what a counter has *)
(* lost is what the history of the loop was charged for.                    *)
(***************************************************************************)
EXTENDS AdapterSend, FiniteSetTheorems, TLAPS

World == [Objects -> [kind : Kinds, parts : Seq(Objects), cached : BOOLEAN]]

TypesOK ==
    /\ stage \in Admission \cup {"committed", "attempt", "answered", "done"}
    /\ world \in World /\ frozen \in World
    /\ maxRetries \in Retries
    /\ sends \in Seq(Outcomes)
    /\ touched \in Admission \cup {"never", "committed"}

\* What is final, and where the send may be when it is.
ResultMatchesStage ==
    /\ stage # "done" => result = Pending
    /\ result = "compat" => stage = "done" /\ sends = <<>>
    /\ stage \in Admission \cup {"committed"} => sends = <<>>
    /\ stage = "answered" => sends # <<>> /\ LastSend.is = "answer"
    /\ stage \in Admission \cup {"committed", "attempt"} => ~held

\* Only the other thread's Rebind makes a proof fail, and it leaves its mark.
IdentityVouched ==
    /\ \A o \in Objects : world[o].kind = frozen[o].kind
    /\ (Committed \/ stage \in {"reretry", "select"}) =>
          \/ Pristine(frozen, world, Root)
          \/ touched \notin {"enter", "identity", "input", "reidentity"}

RetryVouched ==
    (Committed \/ stage = "select") =>
        \/ RetrySnapshot(maxRetries) = taken
        \/ touched \notin {"enter", "identity", "input", "reidentity", "reretry"}

-----------------------------------------------------------------------------
(* The accounts of a policy p and the state st of its loop.                  *)

\* The policy with other counters.
Spent(p, counts) ==
    [counts |-> counts, allowed |-> p.allowed, force |-> p.force,
     respect |-> p.respect, raises |-> p.raises, history |-> p.history]

PolicyOK(p) ==
    /\ p = Spent(p, p.counts)
    /\ p.counts \in [Counters -> CounterValues]
    /\ p.history \in Seq(Rows)

\* The charges of a reason since the loop began with a history of n rows.
Charges(n, history, reason) == {i \in n + 1 .. Len(history) : history[i] = reason}

StateOK(p, st) ==
    /\ st = [remaining |-> Spent(p, st.remaining.counts), history |-> st.history]
    /\ st.remaining.counts \in [Counters -> CounterValues]
    /\ st.history \in Seq(Reasons) /\ Len(st.history) >= Len(p.history)
    /\ \A c \in Counters : st.remaining.counts[c].is = "none" <=> p.counts[c].is = "none"

\* What a reason's counter has lost is what the reason was charged for.
ReasonBalanced(p, st, r) ==
    p.counts[r].is # "none" =>
        st.remaining.counts[r].n + Cardinality(Charges(Len(p.history), st.history, r))
            = p.counts[r].n

\* Of the total at least one is gone for each of the attempts before the last.
TotalBalanced(p, st, attempts) ==
    p.counts["total"].is # "none" =>
        st.remaining.counts["total"].n + attempts <= p.counts["total"].n

Running == stage \in {"attempt", "answered"} \/ sends # <<>>
Repeated == IF stage = "attempt" THEN Len(sends) ELSE Len(sends) - 1

PolicyKnown ==
    (Committed \/ stage \in {"reidentity", "reretry", "select"}) => PolicyOK(taken)

AccountsKept ==
    Running =>
        /\ StateOK(taken, retry)
        /\ \A r \in Reasons : ReasonBalanced(taken, retry, r)
        /\ TotalBalanced(taken, retry, Repeated)

\* What was repeated may be repeated.
ReplaysAllowed ==
    (Running /\ ~AllowsMethod(taken, input.method)) =>
        \A i \in 1 .. Repeated : ~MayHaveReached(sends[i])

SInv ==
    /\ TypesOK /\ ResultMatchesStage /\ IdentityVouched /\ RetryVouched
    /\ PolicyKnown /\ AccountsKept /\ ReplaysAllowed /\ RaisedIsHonest

-----------------------------------------------------------------------------
\* The reasons that the loop charges are reasons of the policy.
LEMMA ReasonsKnown ==
  /\ \A kind : RetryReason(kind) \in Reasons
  /\ \A status, location : Charged("status", status, location) \in {"status", "redirect"}
  BY DEF RetryReason, Reasons, Charged

\* What increment does to the counters and to the history.
LEMMA IncrementStep ==
  ASSUME NEW p, NEW st, PolicyOK(p), StateOK(p, st), NEW reason \in Reasons,
         NEW next \in Increment(st, reason)
  PROVE  /\ StateOK(p, next)
         /\ next.history = Append(st.history, reason)
         /\ \A c \in Counters : p.counts[c].is # "none" =>
               next.remaining.counts[c].n =
                   IF c \in {"total", reason} THEN st.remaining.counts[c].n - 1
                   ELSE st.remaining.counts[c].n
  <1>1. PICK t \in Decrement(st.remaining.counts["total"]),
             c \in Decrement(st.remaining.counts[reason]) :
           next = [remaining |-> [st.remaining EXCEPT !.counts = [@ EXCEPT !["total"] = t,
                                                                           ![reason]  = c]],
                   history   |-> Append(st.history, reason)]
    BY DEF Increment
  <1> DEFINE old == st.remaining.counts
             new == [old EXCEPT !["total"] = t, ![reason] = c]
  <1>2. /\ old \in [Counters -> CounterValues] /\ reason \in Counters /\ "total" \in Counters
        /\ reason # "total"
    BY DEF StateOK, Counters, Reasons
  <1>3. ASSUME NEW v \in CounterValues, NEW w \in Decrement(v)
        PROVE  /\ w \in CounterValues /\ (w.is = "none" <=> v.is = "none")
               /\ v.is # "none" => w.n = v.n - 1
    BY <1>3 DEF Decrement, CounterValues, Count
  <1>4. /\ t \in CounterValues /\ (t.is = "none" <=> old["total"].is = "none")
        /\ old["total"].is # "none" => t.n = old["total"].n - 1
    BY <1>2, <1>3
  <1>5. /\ c \in CounterValues /\ (c.is = "none" <=> old[reason].is = "none")
        /\ old[reason].is # "none" => c.n = old[reason].n - 1
    BY <1>2, <1>3
  <1>6. /\ new \in [Counters -> CounterValues] /\ new["total"] = t /\ new[reason] = c
        /\ \A d \in Counters \ {"total", reason} : new[d] = old[d]
    BY <1>2, <1>4, <1>5
  <1> HIDE DEF new
  <1>7. next = [remaining |-> Spent(p, new), history |-> Append(st.history, reason)]
    <2>1. st.remaining = Spent(p, old)
      BY DEF StateOK
    <2>2. [st.remaining EXCEPT !.counts = [@ EXCEPT !["total"] = t, ![reason] = c]]
          = Spent(p, new)
      BY <2>1 DEF Spent, new
    <2> QED
      BY <1>1, <2>2
  <1>8. next.remaining.counts = new /\ next.history = Append(st.history, reason)
    BY <1>7 DEF Spent
  <1>9. Append(st.history, reason) \in Seq(Reasons)
        /\ Len(Append(st.history, reason)) = Len(st.history) + 1
        /\ Len(st.history) \in Nat /\ Len(p.history) \in Nat
    BY DEF StateOK, PolicyOK
  <1>10. \A d \in Counters : old[d].is = "none" <=> p.counts[d].is = "none"
    BY DEF StateOK
  <1>11. StateOK(p, next)
    <2>1. \A d \in Counters : new[d].is = "none" <=> p.counts[d].is = "none"
      BY <1>4, <1>5, <1>6, <1>10
    <2>2. Len(Append(st.history, reason)) >= Len(p.history)
      BY <1>9 DEF StateOK
    <2> QED
      BY <1>6, <1>7, <1>8, <1>9, <2>1, <2>2 DEF StateOK
  <1>12. ASSUME NEW d \in Counters, p.counts[d].is # "none"
         PROVE  new[d].n = IF d \in {"total", reason} THEN old[d].n - 1 ELSE old[d].n
    BY <1>4, <1>5, <1>6, <1>10, <1>12
  <1> QED
    BY <1>8, <1>11, <1>12

\* A charge adds one index to its own reason's charges and none to another's.
LEMMA ChargesStep ==
  ASSUME NEW n \in Nat, NEW h \in Seq(Reasons), Len(h) >= n, NEW reason \in Reasons,
         NEW r \in Reasons
  PROVE  /\ Cardinality(Charges(n, h, r)) \in Nat
         /\ Cardinality(Charges(n, Append(h, reason), r)) =
               IF r = reason THEN Cardinality(Charges(n, h, r)) + 1
               ELSE Cardinality(Charges(n, h, r))
  <1> DEFINE C == Charges(n, h, r)
             m == Len(h) + 1
  <1>1. Len(h) \in Nat /\ m \in Nat /\ n + 1 \in Int /\ Len(h) \in Int
    OBVIOUS
  <1>2. C \in SUBSET (n + 1 .. Len(h)) /\ m \notin C
    BY <1>1 DEF Charges
  <1>3. IsFiniteSet(n + 1 .. Len(h))
    BY <1>1, FS_Interval, Zenon
  <1>4. IsFiniteSet(C)
    BY <1>2, <1>3, FS_Subset, Zenon
  <1>5. Cardinality(C) \in Nat
    BY <1>4, FS_CardinalityType, Zenon
  <1>6. Charges(n, Append(h, reason), r) = IF r = reason THEN C \cup {m} ELSE C
    <2>1. /\ Len(Append(h, reason)) = m /\ Append(h, reason)[m] = reason
          /\ \A i \in 1 .. Len(h) : Append(h, reason)[i] = h[i]
      OBVIOUS
    <2>2. n + 1 .. m = (n + 1 .. Len(h)) \cup {m}
      BY <1>1
    <2> QED
      BY <1>1, <2>1, <2>2 DEF Charges
  <1>7. Cardinality(C \cup {m}) = IF m \in C THEN Cardinality(C) ELSE Cardinality(C) + 1
    BY <1>4, FS_AddElement, Zenon
  <1> HIDE DEF C, m
  <1>8. Cardinality(C \cup {m}) = Cardinality(C) + 1
    BY <1>2, <1>7
  <1>9. CASE r = reason
    BY <1>5, <1>6, <1>8, <1>9 DEF C
  <1>10. CASE r # reason
    BY <1>5, <1>6, <1>10 DEF C
  <1> QED
    BY <1>9, <1>10

\* The accounts stay balanced when an attempt is charged.
LEMMA BalanceStep ==
  ASSUME NEW p, NEW st, PolicyOK(p), StateOK(p, st), NEW reason \in Reasons,
         NEW next \in Increment(st, reason), NEW k \in Nat,
         \A r \in Reasons : ReasonBalanced(p, st, r), TotalBalanced(p, st, k)
  PROVE  /\ StateOK(p, next)
         /\ \A r \in Reasons : ReasonBalanced(p, next, r)
         /\ TotalBalanced(p, next, k + 1)
         /\ next.remaining.allowed = p.allowed
  <1>1. /\ StateOK(p, next)
        /\ next.history = Append(st.history, reason)
        /\ \A c \in Counters : p.counts[c].is # "none" =>
              next.remaining.counts[c].n =
                  IF c \in {"total", reason} THEN st.remaining.counts[c].n - 1
                  ELSE st.remaining.counts[c].n
    BY IncrementStep
  <1>2. /\ \A c \in Counters : /\ st.remaining.counts[c].n \in Nat
                               /\ next.remaining.counts[c].n \in Nat
                               /\ p.counts[c].n \in Nat
        /\ "total" \in Counters /\ Reasons \subseteq Counters /\ "total" \notin Reasons
    BY <1>1 DEF StateOK, PolicyOK, CounterValues, Counters, Reasons
  <1>3. ASSUME NEW r \in Reasons, p.counts[r].is # "none"
        PROVE  next.remaining.counts[r].n + Cardinality(Charges(Len(p.history), next.history, r))
                  = p.counts[r].n
    <2>1. /\ Len(p.history) \in Nat /\ st.history \in Seq(Reasons)
          /\ Len(st.history) >= Len(p.history)
      BY DEF PolicyOK, StateOK
    <2>2. /\ Cardinality(Charges(Len(p.history), st.history, r)) \in Nat
          /\ Cardinality(Charges(Len(p.history), next.history, r)) =
               IF r = reason THEN Cardinality(Charges(Len(p.history), st.history, r)) + 1
               ELSE Cardinality(Charges(Len(p.history), st.history, r))
      BY <1>1, <2>1, ChargesStep
    <2>3. st.remaining.counts[r].n + Cardinality(Charges(Len(p.history), st.history, r))
             = p.counts[r].n
      BY <1>3 DEF ReasonBalanced
    <2>4. next.remaining.counts[r].n =
             IF r = reason THEN st.remaining.counts[r].n - 1 ELSE st.remaining.counts[r].n
      BY <1>1, <1>2, <1>3
    <2>5. /\ st.remaining.counts[r].n \in Nat /\ next.remaining.counts[r].n \in Nat
          /\ p.counts[r].n \in Nat
      BY <1>2
    <2>6. CASE r = reason
      <3> DEFINE before == Cardinality(Charges(Len(p.history), st.history, r))
                 after == Cardinality(Charges(Len(p.history), next.history, r))
      <3>1. /\ before \in Nat /\ after = before + 1
            /\ st.remaining.counts[r].n + before = p.counts[r].n
            /\ next.remaining.counts[r].n = st.remaining.counts[r].n - 1
        BY <2>2, <2>3, <2>4, <2>6
      <3> HIDE DEF before, after
      <3>2. next.remaining.counts[r].n + after = p.counts[r].n
        BY <2>5, <3>1
      <3> QED
        BY <3>2 DEF after
    <2>7. CASE r # reason
      BY <2>2, <2>3, <2>4, <2>5, <2>7
    <2> QED
      BY <2>6, <2>7
  <1>4. TotalBalanced(p, next, k + 1)
    <2>1. /\ st.remaining.counts["total"].n \in Nat /\ p.counts["total"].n \in Nat
      BY <1>2
    <2>2. p.counts["total"].is # "none" =>
             next.remaining.counts["total"].n = st.remaining.counts["total"].n - 1
      BY <1>1, <1>2
    <2>3. p.counts["total"].is # "none" =>
             st.remaining.counts["total"].n + k <= p.counts["total"].n
      BY DEF TotalBalanced
    <2> QED
      BY <2>1, <2>2, <2>3 DEF TotalBalanced
  <1>5. next.remaining.allowed = p.allowed
    BY <1>1 DEF StateOK, Spent
  <1> QED
    BY <1>1, <1>3, <1>4, <1>5 DEF ReasonBalanced

-----------------------------------------------------------------------------
(* The admission.                                                           *)

\* A policy that retry_snapshot takes has counters and a history.
LEMMA SnapshotOK ==
  ASSUME NEW r \in Retries, RetrySnapshot(r) # Unsupported
  PROVE  PolicyOK(RetrySnapshot(r))
  <1>1. RetrySnapshot(r) =
           [counts |-> r.counts, allowed |-> r.allowed, force |-> r.force,
            respect |-> r.respect, raises |-> r.raises, history |-> r.history]
    BY DEF RetrySnapshot
  <1>2. r.counts \in [Counters -> CounterValues] /\ r.history \in Seq(Rows)
    BY RetriesAssumption
  <1> QED
    BY <1>1, <1>2 DEF PolicyOK, Spent

\* A send begins with nothing read and nothing sent.
LEMMA SInvInit == Init => SInv
  <1> SUFFICES ASSUME Init PROVE SInv
    OBVIOUS
  <1>1. TypesOK
    BY HeapsAssumption DEF Init, TypesOK, World, Admission
  <1>2. ResultMatchesStage
    BY DEF Init, ResultMatchesStage, Pending
  <1>3. ~Committed /\ ~Running /\ sends = <<>> /\ world = frozen /\ stage = "enter"
    BY DEF Init, Committed, Running
  <1> QED
    BY <1>1, <1>2, <1>3
    DEF SInv, IdentityVouched, RetryVouched, PolicyKnown, AccountsKept, ReplaysAllowed, RaisedIsHonest

\* A step before the commitment changes neither the loop nor the world.
LEMMA AdmissionStep ==
  ASSUME SInv, Enter \/ CheckIdentity \/ ReadInput \/ RecheckIdentity \/ RecheckRetry \/ SelectPool
  PROVE  SInv'
  <1>i. TypesOK /\ ResultMatchesStage /\ IdentityVouched /\ RetryVouched /\ PolicyKnown
    BY DEF SInv
  <1>1. /\ stage \in Admission /\ sends = <<>> /\ sends' = <<>> /\ ~held /\ held' = held
        /\ UNCHANGED <<world, frozen, input, maxRetries, retry, touched>>
        /\ stage' \in Admission \cup {"committed", "done"}
        /\ stage' # "done" => result' = result
        /\ result' \in {result, "compat"} /\ (result' = "compat" => stage' = "done" \/ result = "compat")
    BY <1>i DEF Enter, CheckIdentity, ReadInput, RecheckIdentity, RecheckRetry, SelectPool,
       Admit, Fallback, Admission, ResultMatchesStage
  <1>2. ~Running'
    BY <1>1 DEF Running, Admission
  <1>3. AccountsKept' /\ ReplaysAllowed' /\ RaisedIsHonest'
    BY <1>1, <1>2 DEF AccountsKept, ReplaysAllowed, RaisedIsHonest
  <1>4. TypesOK'
    BY <1>i, <1>1 DEF TypesOK
  <1>5. ResultMatchesStage'
    BY <1>i, <1>1 DEF ResultMatchesStage, Admission
  <1>6. /\ stage' = "reretry" => Pristine(frozen, world, Root)
        /\ stage' \in {"select", "committed"} => stage \in {"reretry", "select"}
    BY <1>1 DEF Enter, CheckIdentity, ReadInput, RecheckIdentity, RecheckRetry, SelectPool,
       Admit, Fallback, Admission
  <1>7. IdentityVouched'
    <2>1. Pristine(frozen, world, Root)' <=> Pristine(frozen, world, Root)
      BY <1>1
    <2> QED
      BY <1>i, <1>1, <1>6, <2>1 DEF IdentityVouched, Committed, Admission
  <1>8. RetryVouched'
    <2>1. CASE RecheckRetry
      BY <1>1, <2>1 DEF RecheckRetry, Admit, Fallback, RetryVouched, Committed, Admission
    <2>2. CASE SelectPool
      BY <1>i, <1>1, <2>2 DEF SelectPool, Admit, Fallback, RetryVouched, Committed, Admission
    <2>3. CASE Enter \/ CheckIdentity \/ ReadInput \/ RecheckIdentity
      BY <1>1, <2>3 DEF Enter, CheckIdentity, ReadInput, RecheckIdentity, Admit, Fallback,
         RetryVouched, Committed, Admission
    <2> QED
      BY <2>1, <2>2, <2>3
  <1>9. PolicyKnown'
    <2>1. CASE ReadInput
      <3>1. CASE Fallback
        BY <1>1, <3>1 DEF Fallback, PolicyKnown, Committed, Admission
      <3>2. CASE ~Fallback
        BY <1>i, <2>1, <3>2, SnapshotOK DEF ReadInput, PolicyKnown, TypesOK
      <3> QED
        BY <3>1, <3>2
    <2>2. CASE ~ReadInput
      BY <1>i, <1>1, <2>2 DEF Enter, CheckIdentity, RecheckIdentity, RecheckRetry, SelectPool,
         Admit, Fallback, PolicyKnown, Committed, Admission
    <2> QED
      BY <2>1, <2>2
  <1> QED
    BY <1>3, <1>4, <1>5, <1>7, <1>8, <1>9 DEF SInv

\* A class that gains an empty cache passes the proof it passed before.
LEMMA MemoiseKeepsPristine ==
  ASSUME world \in World, frozen \in World, \A o \in Objects : world[o].kind = frozen[o].kind,
         Memoise
  PROVE  /\ world' \in World /\ \A o \in Objects : world'[o].kind = frozen[o].kind
         /\ Pristine(frozen, world, Root) => Pristine(frozen, world', Root)
  <1>1. PICK o \in Objects : /\ world[o].kind = "class"
                             /\ world' = [world EXCEPT ![o].cached = TRUE]
    BY DEF Memoise
  <1>2. /\ world' \in World
        /\ \A q \in Objects : /\ world'[q].kind = world[q].kind
                              /\ world'[q].parts = world[q].parts
        /\ \A q \in Objects \ {o} : world'[q] = world[q]
    BY <1>1 DEF World
  <1>3. ASSUME NEW q, SameParts(frozen[q], world[q]), SameEntries(frozen[q], world[q])
        PROVE  SameParts(frozen[q], world'[q]) /\ SameEntries(frozen[q], world'[q])
    <2>1. CASE q = o
      BY <1>1, <1>2, <1>3, <2>1 DEF SameParts, SameEntries
    <2>2. CASE q # o
      <3>1. world'[q] = world[q]
        BY <1>1, <2>2 DEF World
      <3> QED
        BY <1>3, <3>1
    <2> QED
      BY <2>1, <2>2
  <1> QED
    BY <1>2, <1>3 DEF Pristine

\* The other thread leaves its mark, or changes nothing that is looked at.
LEMMA WorldStep ==
  ASSUME SInv, Rebind \/ ReplaceRetry \/ Memoise
  PROVE  SInv'
  <1>i. TypesOK /\ ResultMatchesStage /\ IdentityVouched /\ RetryVouched /\ PolicyKnown
    BY DEF SInv
  <1>1. /\ stage \in Admission \cup {"committed"} /\ sends = <<>>
        /\ UNCHANGED <<stage, sends, held, frozen, input, taken, retry, result>>
    BY <1>i DEF Rebind, ReplaceRetry, Memoise, Quiet, ResultMatchesStage
  <1>2. ~Running' /\ (Committed' <=> stage = "committed") /\ (Committed <=> stage = "committed")
    BY <1>1 DEF Running, Committed, Admission
  <1>3. AccountsKept' /\ ReplaysAllowed' /\ RaisedIsHonest' /\ ResultMatchesStage'
    BY <1>i, <1>1, <1>2
    DEF AccountsKept, ReplaysAllowed, RaisedIsHonest, ResultMatchesStage, LastSend
  <1>4. PolicyKnown'
    BY <1>i, <1>1, <1>2 DEF PolicyKnown
  <1>5. CASE Rebind
    <2>1. PICK o \in Objects, p \in Objects :
             world[o].parts # <<>> /\ world' = [world EXCEPT ![o].parts[1] = p]
      <3>1. Reaches(world, Root) \subseteq Objects
        BY Zenon DEF Reaches
      <3> QED
        BY <1>5, <3>1 DEF Rebind
    <2>2. touched' = stage /\ maxRetries' = maxRetries
      BY <1>5 DEF Rebind
    <2>3. /\ world' \in World
          /\ \A q \in Objects : world'[q].kind = world[q].kind
      <3> DEFINE e == [world[o] EXCEPT !.parts = [@ EXCEPT ![1] = p]]
      <3>1. world[o] \in [kind : Kinds, parts : Seq(Objects), cached : BOOLEAN]
        BY <1>i DEF TypesOK, World
      <3>2. [world[o].parts EXCEPT ![1] = p] \in Seq(Objects)
        BY <2>1, <3>1
      <3>3. e \in [kind : Kinds, parts : Seq(Objects), cached : BOOLEAN] /\ e.kind = world[o].kind
        BY <3>1, <3>2
      <3>4. world' = [world EXCEPT ![o] = e]
        BY <2>1
      <3> HIDE DEF e
      <3> QED
        BY <1>i, <3>3, <3>4 DEF TypesOK, World
    <2>4. TypesOK'
      BY <1>i, <1>1, <2>2, <2>3 DEF TypesOK
    <2>5. IdentityVouched'
      BY <1>i, <1>1, <1>2, <2>2, <2>3 DEF IdentityVouched, Admission
    <2>6. RetryVouched'
      <3>1. RetrySnapshot(maxRetries)' = RetrySnapshot(maxRetries)
        BY <2>2
      <3> QED
        BY <1>i, <1>1, <1>2, <2>2, <3>1 DEF RetryVouched, Admission
    <2> QED
      BY <1>3, <1>4, <2>4, <2>5, <2>6 DEF SInv
  <1>6. CASE ReplaceRetry
    <2>1. touched' = stage /\ world' = world /\ maxRetries' \in Retries
      BY <1>6 DEF ReplaceRetry
    <2>2. TypesOK'
      BY <1>i, <1>1, <2>1 DEF TypesOK
    <2>3. IdentityVouched'
      BY <1>i, <1>1, <1>2, <2>1 DEF IdentityVouched, Admission
    <2>4. RetryVouched'
      BY <1>i, <1>1, <1>2, <2>1 DEF RetryVouched, Admission
    <2> QED
      BY <1>3, <1>4, <2>2, <2>3, <2>4 DEF SInv
  <1>7. CASE Memoise
    <2>1. touched' = touched /\ maxRetries' = maxRetries
      BY <1>7 DEF Memoise
    <2>2. /\ world' \in World /\ \A o \in Objects : world'[o].kind = frozen[o].kind
          /\ Pristine(frozen, world, Root) => Pristine(frozen, world', Root)
      BY <1>i, <1>7, MemoiseKeepsPristine DEF TypesOK, IdentityVouched
    <2>3. TypesOK'
      BY <1>i, <1>1, <2>1, <2>2 DEF TypesOK
    <2>4. IdentityVouched'
      BY <1>i, <1>1, <1>2, <2>1, <2>2 DEF IdentityVouched
    <2>5. RetryVouched'
      <3>1. RetrySnapshot(maxRetries)' = RetrySnapshot(maxRetries)
        BY <2>1
      <3> QED
        BY <1>i, <1>1, <1>2, <2>1, <3>1 DEF RetryVouched
    <2> QED
      BY <1>3, <1>4, <2>3, <2>4, <2>5 DEF SInv
  <1> QED
    BY <1>5, <1>6, <1>7

-----------------------------------------------------------------------------
(* The retry loop.                                                          *)

\* What a step after the commitment has in common with the others: what was
\* looked at stays vouched for.
LEMMA CommittedStep ==
  ASSUME SInv, Committed,
         UNCHANGED <<world, frozen, input, maxRetries, taken, touched>>
  PROVE  IdentityVouched' /\ RetryVouched' /\ PolicyKnown'
  <1>1. /\ Pristine(frozen, world, Root)' <=> Pristine(frozen, world, Root)
        /\ RetrySnapshot(maxRetries)' = RetrySnapshot(maxRetries)
    OBVIOUS
  <1> QED
    BY <1>1 DEF SInv, IdentityVouched, RetryVouched, PolicyKnown

\* The loop begins with the counters that admission read.
LEMMA EnterManagerStep ==
  ASSUME SInv, EnterManager
  PROVE  SInv'
  <1>i. TypesOK /\ ResultMatchesStage /\ PolicyKnown /\ stage = "committed"
    BY DEF SInv, EnterManager
  <1>1. /\ sends = <<>> /\ sends' = <<>> /\ ~held /\ held' = held /\ Committed
        /\ UNCHANGED <<world, frozen, input, maxRetries, taken, touched>>
    BY <1>i DEF ResultMatchesStage, EnterManager, Committed
  <1>2. IdentityVouched' /\ RetryVouched' /\ PolicyKnown'
    BY <1>1, CommittedStep
  <1>3. TypesOK' /\ ResultMatchesStage' /\ RaisedIsHonest'
    BY <1>i, <1>1 DEF EnterManager, TypesOK, ResultMatchesStage, RaisedIsHonest, Admission, Pending
  <1>4. PolicyOK(taken)
    BY <1>i, <1>1 DEF PolicyKnown
  <1>5. AccountsKept' /\ ReplaysAllowed'
    <2>1. CASE stage' = "done"
      BY <1>1, <2>1 DEF Running, AccountsKept, ReplaysAllowed
    <2>2. CASE stage' # "done"
      <3>1. /\ retry' = [remaining |-> taken, history |-> CoreHistory(taken.history)]
            /\ stage' = "attempt" /\ Repeated' = 0
        BY <1>1, <2>2 DEF EnterManager, Repeated
      <3>2. /\ CoreHistory(taken.history) \in Seq(Reasons)
            /\ Len(CoreHistory(taken.history)) = Len(taken.history)
            /\ Len(taken.history) \in Nat
        BY <1>4 DEF PolicyOK, CoreHistory, Reasons
      <3>3. StateOK(taken, retry')
        BY <1>4, <3>1, <3>2 DEF StateOK, PolicyOK, Spent
      <3>4. ASSUME NEW r \in Reasons PROVE ReasonBalanced(taken, retry', r)
        <4>1. Charges(Len(taken.history), retry'.history, r) = {}
          BY <3>1, <3>2 DEF Charges
        <4>2. Cardinality(Charges(Len(taken.history), retry'.history, r)) = 0
          BY <4>1, FS_EmptySet, Zenon
        <4>3. taken.counts[r].n \in Nat
          BY <1>4 DEF PolicyOK, CounterValues, Counters
        <4> QED
          BY <3>1, <4>2, <4>3 DEF ReasonBalanced
      <3>5. TotalBalanced(taken, retry', 0)
        BY <1>4, <3>1 DEF TotalBalanced, PolicyOK, CounterValues, Counters
      <3> QED
        BY <1>1, <3>1, <3>3, <3>4, <3>5 DEF AccountsKept, ReplaysAllowed
    <2> QED
      BY <2>1, <2>2
  <1> QED
    BY <1>2, <1>3, <1>5 DEF SInv

\* The last outcome of a sequence that grew is the one that was added.
LEMMA Appended ==
  ASSUME NEW s \in Seq(Outcomes), NEW o \in Outcomes
  PROVE  /\ Append(s, o) \in Seq(Outcomes) /\ Append(s, o) # <<>>
         /\ Len(Append(s, o)) = Len(s) + 1 /\ Len(s) \in Nat
         /\ Append(s, o)[Len(Append(s, o))] = o
         /\ \A i \in 1 .. Len(s) : Append(s, o)[i] = s[i]
  OBVIOUS

\* The except clauses keep the classes of failures apart.
LEMMA MappingIsHonest ==
  ASSUME NEW k
  PROVE  LET e == MappedTransportError(k)
         IN  /\ e \notin {"RetryError", "compat", Pending}
             /\ e = "ReadTimeout" <=> k = "ReadTimeout"
             /\ e = "ConnectTimeout" <=> k = "ConnectTimeout" /\ input.proxy = "none"
             /\ e = "ProxyError" <=>
                   k = "Proxy" \/ (input.proxy # "none" /\ k \in {"Connect", "ConnectTimeout", "Dns"})
             /\ e = "SSLError" <=> k \in {"Tls", "Handshake"}
  BY DEF MappedTransportError, MapSurrogate, Surrogate, Pending

\* An attempt that fails is charged and repeated, or raised.
LEMMA AttemptFailsStep ==
  ASSUME SInv, NEW kind \in ErrorKinds, AttemptFails(kind)
  PROVE  SInv'
  <1> DEFINE o == [is |-> "error", kind |-> kind]
  <1>i. /\ TypesOK /\ ResultMatchesStage /\ PolicyKnown /\ AccountsKept /\ ReplaysAllowed
        /\ stage = "attempt" /\ Running /\ Committed /\ ~held
    BY DEF SInv, AttemptFails, Running, Committed, ResultMatchesStage
  <1>1. /\ sends' = Append(sends, o) /\ held' = held
        /\ UNCHANGED <<world, frozen, input, maxRetries, taken, touched>>
    BY DEF AttemptFails
  <1>2. IdentityVouched' /\ RetryVouched' /\ PolicyKnown'
    BY <1>i, <1>1, CommittedStep
  <1>3. o \in Outcomes /\ sends \in Seq(Outcomes)
    BY <1>i DEF Outcomes, TypesOK
  <1>4. /\ sends' \in Seq(Outcomes) /\ sends' # <<>> /\ Len(sends') = Len(sends) + 1
        /\ Len(sends) \in Nat /\ sends'[Len(sends')] = o
        /\ \A i \in 1 .. Len(sends) : sends'[i] = sends[i]
    BY <1>1, <1>3, Appended
  <1>5. Repeated = Len(sends) /\ PolicyOK(taken)
    BY <1>i DEF Repeated, PolicyKnown
  <1>6. CASE stage' = "done"
    <2>1. result' = MappedTransportError(kind) /\ retry' = retry
      BY <1>i, <1>6 DEF AttemptFails, Raise
    <2>2. Repeated' = Len(sends)
      BY <1>4, <1>6 DEF Repeated
    <2>3. AccountsKept' /\ ReplaysAllowed'
      BY <1>i, <1>1, <1>4, <1>5, <2>1, <2>2 DEF AccountsKept, ReplaysAllowed, MayHaveReached
    <2>4. RaisedIsHonest'
      <3>1. LastSend'.kind = kind /\ LastSend'.is = "error" /\ input' = input
        BY <1>1, <1>4 DEF LastSend
      <3> QED
        BY <2>1, <3>1, MappingIsHonest DEF RaisedIsHonest
    <2>5. TypesOK' /\ ResultMatchesStage'
      BY <1>i, <1>1, <1>4, <1>6, <2>1, MappingIsHonest DEF TypesOK, ResultMatchesStage, Admission
    <2> QED
      BY <1>2, <2>3, <2>4, <2>5 DEF SInv
  <1>7. CASE stage' # "done"
    <2>1. /\ MayReplay(RetryReason(kind)) /\ retry' \in Increment(retry, RetryReason(kind))
          /\ stage' = stage /\ result' = result
      BY <1>i, <1>7 DEF AttemptFails, Raise
    <2>2. RetryReason(kind) \in Reasons /\ Repeated' = Len(sends) + 1
      BY <1>i, <1>4, <2>1, ReasonsKnown DEF Repeated
    <2>3. /\ StateOK(taken, retry) /\ TotalBalanced(taken, retry, Len(sends))
          /\ \A r \in Reasons : ReasonBalanced(taken, retry, r)
      BY <1>i, <1>5 DEF AccountsKept
    <2>4. /\ StateOK(taken, retry') /\ TotalBalanced(taken, retry', Len(sends) + 1)
          /\ \A r \in Reasons : ReasonBalanced(taken, retry', r)
      BY <1>4, <1>5, <2>1, <2>2, <2>3, BalanceStep
    <2>5. AccountsKept'
      BY <1>1, <2>2, <2>4 DEF AccountsKept
    <2>6. ReplaysAllowed'
      <3>1. retry.remaining.allowed = taken.allowed
        BY <2>3 DEF StateOK, Spent
      <3>2. ~AllowsMethod(taken, input.method) => ~MayHaveReached(o)
        BY <2>1, <3>1 DEF MayReplay, AllowsMethod, MayHaveReached
      <3>3. ~AllowsMethod(taken, input.method) =>
               \A i \in 1 .. Len(sends) : ~MayHaveReached(sends[i])
        BY <1>i, <1>5 DEF ReplaysAllowed
      <3>4. ~AllowsMethod(taken, input.method) =>
               \A i \in 1 .. Len(sends) + 1 : ~MayHaveReached(sends'[i])
        BY <1>4, <3>2, <3>3
      <3> QED
        BY <1>1, <2>2, <3>4 DEF ReplaysAllowed
    <2>7. TypesOK' /\ ResultMatchesStage' /\ RaisedIsHonest'
      BY <1>i, <1>1, <1>4, <2>1 DEF TypesOK, ResultMatchesStage, Admission, RaisedIsHonest, Pending
    <2> QED
      BY <1>2, <2>5, <2>6, <2>7 DEF SInv
  <1> QED
    BY <1>6, <1>7

\* An answer is judged by its status before anything else is sent.
LEMMA AttemptAnswersStep ==
  ASSUME SInv, NEW a \in Answers, AttemptAnswers(a)
  PROVE  SInv'
  <1> DEFINE o == [is |-> "answer", kind |-> a]
  <1>i. /\ TypesOK /\ ResultMatchesStage /\ PolicyKnown /\ AccountsKept /\ ReplaysAllowed
        /\ stage = "attempt" /\ Running /\ Committed
    BY DEF SInv, AttemptAnswers, Running, Committed
  <1>1. /\ sends' = Append(sends, o) /\ stage' = "answered" /\ retry' = retry /\ result' = result
        /\ UNCHANGED <<world, frozen, input, maxRetries, taken, touched>>
    BY DEF AttemptAnswers
  <1>2. IdentityVouched' /\ RetryVouched' /\ PolicyKnown'
    BY <1>i, <1>1, CommittedStep
  <1>3. o \in Outcomes /\ sends \in Seq(Outcomes)
    BY <1>i DEF Outcomes, TypesOK
  <1>4. /\ sends' \in Seq(Outcomes) /\ sends' # <<>> /\ Len(sends') = Len(sends) + 1
        /\ Len(sends) \in Nat /\ sends'[Len(sends')] = o
        /\ \A i \in 1 .. Len(sends) : sends'[i] = sends[i]
    BY <1>1, <1>3, Appended
  <1>5. Repeated = Len(sends) /\ Repeated' = Len(sends)
    BY <1>i, <1>1, <1>4 DEF Repeated
  <1>6. AccountsKept' /\ ReplaysAllowed'
    BY <1>i, <1>1, <1>4, <1>5 DEF AccountsKept, ReplaysAllowed, MayHaveReached
  <1>7. TypesOK' /\ ResultMatchesStage' /\ RaisedIsHonest'
    BY <1>i, <1>1, <1>4
    DEF TypesOK, ResultMatchesStage, Admission, RaisedIsHonest, Pending, LastSend
  <1> QED
    BY <1>2, <1>6, <1>7 DEF SInv

\* A send that ends without another attempt keeps its accounts.
LEMMA EndStep ==
  ASSUME SInv, stage \in {"attempt", "answered"}, stage' = "done", UNCHANGED <<sends, retry>>,
         UNCHANGED <<world, frozen, input, maxRetries, taken, touched>>,
         \/ result' \in {"response", "KeyboardInterrupt"}
         \/ result' = "RetryError" /\ stage = "answered"
  PROVE  SInv'
  <1>i. /\ TypesOK /\ ResultMatchesStage /\ AccountsKept /\ ReplaysAllowed /\ Running /\ Committed
    BY DEF SInv, Running, Committed
  <1>1. IdentityVouched' /\ RetryVouched' /\ PolicyKnown'
    BY <1>i, CommittedStep
  <1>2. Len(sends) \in Nat /\ Repeated' = Len(sends) - 1 /\ Repeated \in {Len(sends), Len(sends) - 1}
    BY <1>i DEF Repeated, TypesOK
  <1>3. AccountsKept'
    <2>1. TotalBalanced(taken, retry, Repeated) => TotalBalanced(taken, retry, Repeated')
      <3>1. StateOK(taken, retry) => retry.remaining.counts["total"].n \in Nat
        BY DEF StateOK, CounterValues, Counters
      <3>2. PolicyOK(taken) => taken.counts["total"].n \in Nat
        BY DEF PolicyOK, CounterValues, Counters
      <3> QED
        BY <1>i, <1>2, <3>1, <3>2 DEF TotalBalanced, AccountsKept, SInv, PolicyKnown
    <2> QED
      BY <1>i, <2>1 DEF AccountsKept
  <1>4. ReplaysAllowed'
    BY <1>i, <1>2 DEF ReplaysAllowed, MayHaveReached
  <1>5. RaisedIsHonest'
    <2>1. CASE result' \in {"response", "KeyboardInterrupt"}
      BY <2>1 DEF RaisedIsHonest, Raised
    <2>2. CASE result' = "RetryError" /\ stage = "answered"
      <3>1. LastSend'.is = "answer"
        BY <1>i, <2>2 DEF ResultMatchesStage, LastSend
      <3> QED
        BY <2>2, <3>1 DEF RaisedIsHonest
    <2> QED
      BY <2>1, <2>2
  <1>6. TypesOK' /\ ResultMatchesStage'
    BY <1>i DEF TypesOK, ResultMatchesStage, Admission
  <1> QED
    BY <1>1, <1>3, <1>4, <1>5, <1>6 DEF SInv

\* A status that is retried is charged and its connection given back.
LEMMA RetryStatusStep ==
  ASSUME SInv, RetryStatus
  PROVE  SInv'
  <1>i. /\ TypesOK /\ ResultMatchesStage /\ PolicyKnown /\ AccountsKept
        /\ stage = "answered" /\ Running /\ Committed /\ sends # <<>>
    BY DEF SInv, RetryStatus, Running, Committed, ResultMatchesStage
  <1>1. /\ sends' = sends /\ stage' = "attempt" /\ result' = result /\ ~held'
        /\ retry' \in Increment(retry, AnswerReason) /\ AllowsMethod(retry.remaining, input.method)
        /\ UNCHANGED <<world, frozen, input, maxRetries, taken, touched>>
    BY DEF RetryStatus, IsRetry
  <1>2. IdentityVouched' /\ RetryVouched' /\ PolicyKnown'
    BY <1>i, <1>1, CommittedStep
  <1>3. /\ Len(sends) \in Nat /\ Len(sends) - 1 \in Nat /\ Repeated = Len(sends) - 1
        /\ Repeated' = (Len(sends) - 1) + 1
    BY <1>i, <1>1 DEF Repeated, TypesOK
  <1>4. AnswerReason \in Reasons /\ PolicyOK(taken)
    BY <1>i, ReasonsKnown DEF AnswerReason, Reasons, PolicyKnown
  <1>5. /\ StateOK(taken, retry) /\ TotalBalanced(taken, retry, Len(sends) - 1)
        /\ \A r \in Reasons : ReasonBalanced(taken, retry, r)
    BY <1>i, <1>3 DEF AccountsKept
  <1>6. /\ StateOK(taken, retry') /\ TotalBalanced(taken, retry', (Len(sends) - 1) + 1)
        /\ \A r \in Reasons : ReasonBalanced(taken, retry', r)
    BY <1>1, <1>3, <1>4, <1>5, BalanceStep
  <1>7. AccountsKept'
    BY <1>1, <1>3, <1>6 DEF AccountsKept
  <1>8. ReplaysAllowed'
    <2>1. retry.remaining.allowed = taken.allowed
      BY <1>5 DEF StateOK, Spent
    <2>2. AllowsMethod(taken, input.method)
      BY <1>1, <2>1 DEF AllowsMethod
    <2> QED
      BY <1>1, <2>2 DEF ReplaysAllowed
  <1>9. TypesOK' /\ ResultMatchesStage' /\ RaisedIsHonest'
    BY <1>i, <1>1 DEF TypesOK, ResultMatchesStage, Admission, RaisedIsHonest, Pending
  <1> QED
    BY <1>2, <1>7, <1>8, <1>9 DEF SInv

\* Every step of the send and of the other thread keeps the invariant.
LEMMA SInvStep == SInv /\ [Next]_vars => SInv'
  <1> SUFFICES ASSUME SInv, [Next]_vars PROVE SInv'
    OBVIOUS
  <1>1. CASE BuildResponse \/ RaiseOnStatus \/ Interrupt
    <2>1. RaiseOnStatus => result' = "RetryError"
      BY DEF RaiseOnStatus, Raise, MapSurrogate, RetrySurrogate
    <2> QED
      BY <1>1, <2>1, EndStep DEF BuildResponse, RaiseOnStatus, Interrupt, Raise
  <1>2. CASE UNCHANGED vars
    <2>1. UNCHANGED <<stage, world, frozen, input, maxRetries, taken, retry, sends, held,
                      result, touched>>
      BY <1>2 DEF vars
    <2>2. /\ Pristine(frozen, world, Root)' <=> Pristine(frozen, world, Root)
          /\ RetrySnapshot(maxRetries)' = RetrySnapshot(maxRetries)
      BY <2>1
    <2>3. TypesOK' /\ ResultMatchesStage' /\ RaisedIsHonest'
      BY <2>1 DEF SInv, TypesOK, ResultMatchesStage, RaisedIsHonest, LastSend
    <2>4. IdentityVouched' /\ RetryVouched' /\ PolicyKnown'
      BY <2>1, <2>2 DEF SInv, IdentityVouched, RetryVouched, PolicyKnown, Committed
    <2>5. AccountsKept' /\ ReplaysAllowed'
      BY <2>1 DEF SInv, AccountsKept, ReplaysAllowed, Running, Repeated, MayHaveReached
    <2> QED
      BY <2>3, <2>4, <2>5 DEF SInv
  <1> QED
    BY <1>1, <1>2, AdmissionStep, WorldStep, EnterManagerStep, AttemptFailsStep,
       AttemptAnswersStep, RetryStatusStep DEF Next

-----------------------------------------------------------------------------
\* The inductive invariant of one send.
THEOREM SendInvariant == Spec => []SInv
  BY SInvInit, SInvStep, PTL DEF Spec

\* No send is committed on an identity or a Retry object that was replaced
\* before the last look at it, whatever the heap and the Retry objects are.
THEOREM SendCommitIsFresh == Spec => []CommitIsFresh
  <1>1. SInv => CommitIsFresh
    BY DEF SInv, IdentityVouched, RetryVouched, CommitIsFresh
  <1> QED
    BY <1>1, SendInvariant, PTL

\* Retries are legal for every policy and every sequence of outcomes: never more
\* than each counter allows, never a blind replay, never one that waits for a
\* connection of its own.
THEOREM SendRetriesAreLegal == Spec => []RetriesAreLegal
  <1>1. SInv => AttemptsBounded
    <2> SUFFICES ASSUME SInv, sends # <<>> PROVE AttemptsBounded
      BY DEF AttemptsBounded
    <2>1. /\ Running /\ PolicyOK(taken) /\ StateOK(taken, retry)
          /\ TotalBalanced(taken, retry, Repeated)
          /\ \A r \in Reasons : ReasonBalanced(taken, retry, r)
          /\ Len(sends) \in Nat /\ Repeated \in {Len(sends), Len(sends) - 1}
      BY DEF SInv, PolicyKnown, Committed, AccountsKept, Running, Repeated, TypesOK
    <2>2. \A c \in Counters : retry.remaining.counts[c].n \in Nat /\ taken.counts[c].n \in Nat
      BY <2>1 DEF StateOK, PolicyOK, CounterValues
    <2>3. taken.counts["total"].is # "none" => Len(sends) <= taken.counts["total"].n + 1
      BY <2>1, <2>2 DEF TotalBalanced, Counters
    <2>4. ASSUME NEW r \in Reasons, taken.counts[r].is # "none"
          PROVE  Cardinality(Charges(Len(taken.history), retry.history, r)) <= taken.counts[r].n
      <3>1. Cardinality(Charges(Len(taken.history), retry.history, r)) \in Nat
        <4>1. /\ Len(taken.history) \in Nat /\ retry.history \in Seq(Reasons)
              /\ Len(retry.history) >= Len(taken.history)
          BY <2>1 DEF StateOK, PolicyOK
        <4> QED
          BY <4>1, ChargesStep
      <3>2. retry.remaining.counts[r].n \in Nat /\ taken.counts[r].n \in Nat
        BY <2>2 DEF Counters
      <3>3. retry.remaining.counts[r].n
               + Cardinality(Charges(Len(taken.history), retry.history, r)) = taken.counts[r].n
        BY <2>1, <2>4 DEF ReasonBalanced
      <3> QED
        BY <3>1, <3>2, <3>3
    <2> QED
      BY <2>3, <2>4 DEF AttemptsBounded, Charges
  <1>2. SInv => NoBlindReplay
    <2> SUFFICES ASSUME SInv, ~AllowsMethod(taken, input.method), NEW i \in 1 .. Len(sends) - 1
                 PROVE  ~MayHaveReached(sends[i])
      BY DEF NoBlindReplay
    <2>1. Running /\ i \in 1 .. Repeated
      BY DEF SInv, Running, Repeated, TypesOK
    <2> QED
      BY <2>1 DEF SInv, ReplaysAllowed
  <1>3. SInv => NoConnectionHeldByRetry
    BY DEF SInv, ResultMatchesStage, NoConnectionHeldByRetry
  <1> QED
    BY <1>1, <1>2, <1>3, SendInvariant, PTL DEF RetriesAreLegal

\* The class of the exception names the failure that ended the send.
THEOREM SendRaisesHonestly == Spec => []RaisedIsHonest
  <1>1. SInv => RaisedIsHonest
    BY DEF SInv
  <1> QED
    BY <1>1, SendInvariant, PTL

\* A committed send is never handed to the Python implementation.
THEOREM SendOneTransport == Spec => OneTransport
  <1>1. SInv /\ [Next]_vars => [Committed => result' # "compat"]_vars
    <2> SUFFICES ASSUME SInv, Next, Committed PROVE result' # "compat"
      OBVIOUS
    <2>1. /\ result # "compat" /\ stage \notin Admission
      BY DEF SInv, ResultMatchesStage, Committed, Admission
    <2>2. ASSUME NEW k \in ErrorKinds, AttemptFails(k) PROVE result' # "compat"
      BY <2>1, <2>2, MappingIsHonest DEF AttemptFails, Raise
    <2>3. ~(Enter \/ CheckIdentity \/ ReadInput \/ RecheckIdentity \/ RecheckRetry \/ SelectPool)
      BY <2>1 DEF Enter, CheckIdentity, ReadInput, RecheckIdentity, RecheckRetry, SelectPool,
         Admission
    <2>4. RaiseOnStatus => result' = "RetryError"
      BY DEF RaiseOnStatus, Raise, MapSurrogate, RetrySurrogate
    <2> QED
      BY <2>1, <2>2, <2>3, <2>4 DEF Next, EnterManager, AttemptAnswers, BuildResponse,
         RetryStatus, Interrupt, Raise, Rebind, ReplaceRetry, Memoise
  <1> QED
    BY <1>1, SendInvariant, PTL DEF Spec, OneTransport
=============================================================================
