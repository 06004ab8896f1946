------------------------- MODULE ResponseBodyProofs -------------------------
(* A body is never taken for complete when it is not, for bodies and reads   *)
(* of any size: neither by the pool nor by the caller.                       *)
EXTENDS ResponseBody, SequenceTheorems, TLAPS

ReadOK ==
    /\ read.mode \in Modes
    /\ read.amount \in (Nat \ {0}) \cup {Everything}
    /\ read.amount # Everything => Len(read.output) < read.amount
    /\ read.allow \in BOOLEAN /\ (read.allow => response.coding = "raw")
    /\ read.output \in Seq(Nat)
    /\ inner /\ ~terminal /\ open

Shape ==
    /\ response \in Responses
    /\ received \in Nat /\ received <= response.total
    /\ bodyLease \in {"held", "clean", "dirty"}
    /\ inner \in BOOLEAN /\ pendingError \in BOOLEAN /\ terminal \in BOOLEAN
    /\ permit \in BOOLEAN /\ open \in BOOLEAN
    /\ told \in {"none", "eof", "error"}
    /\ remainder \in Seq(Nat)
    /\ read # Idle => ReadOK

\* The inductive invariant: the lease is held exactly while there is an inner
\* body, a clean lease was read to the end, a dirty one left its error with the
\* caller or the caller left, and the caller saw an end only of a clean one.
BInv ==
    /\ Shape
    /\ bodyLease = "held" <=> inner
    /\ inner => ~terminal
    /\ ReuseIsSafe
    /\ bodyLease = "dirty" => told = "error" \/ pendingError \/ ~open
    /\ told = "eof" => bodyLease = "clean"
    /\ pendingError => bodyLease = "dirty"
    /\ PermitCoversLease

\* A read that asks for something and finds something gets something.
LEMMA WantedSome ==
  ASSUME NEW bytes \in Seq(Nat), NEW amount \in (Nat \ {0}) \cup {Everything}
  PROVE  /\ Wanted(bytes, amount) \in Seq(Nat)
         /\ bytes # <<>> => Wanted(bytes, amount) # <<>>
         /\ amount # Everything => Len(Wanted(bytes, amount)) <= amount
         /\ Kept(bytes, amount) \in Seq(Nat)
         /\ Len(Wanted(bytes, amount)) <= Len(bytes)
  BY DEF Wanted, Kept, Everything

\* A declared length that was reached is the end of the body.
LEMMA ReachedIsComplete ==
  ASSUME response \in Responses, NEW n \in Nat, n <= response.total, NEW allow \in BOOLEAN,
         allow => response.coding = "raw", DeclaredReached(n, allow)
  PROVE  n = response.total /\ response.ending = "eof"
  BY DEF Responses, DeclaredReached, Undeclared

\* A body that was just received.
LEMMA BInvInit == BodyInit => BInv
  <1> SUFFICES ASSUME BodyInit PROVE BInv
    OBVIOUS
  <1>1. response.total \in Nat /\ 0 <= response.total
    BY MaxBodyAssumption DEF BodyInit, Responses
  <1>2. Shape
    <2>1. remainder \in Seq(Nat)
      BY DEF BodyInit
    <2>2. (read # Idle => ReadOK) /\ response \in Responses
      BY DEF BodyInit
    <2> QED
      BY <1>1, <2>1, <2>2 DEF BodyInit, Shape
  <1> QED
    BY <1>2 DEF BodyInit, BInv, ReuseIsSafe, PermitCoversLease

\* What a read finds before it polls.
LEMMA BufferedFacts ==
  ASSUME BInv, NEW mode \in Modes, NEW amount \in (Nat \ {0}) \cup {Everything},
         NEW allow \in BOOLEAN, allow => response.coding = "raw",
         NEW b, b = Buffered(mode, amount, allow)
  PROVE  /\ b.bytes \in Seq(Nat) /\ b.rest \in Seq(Nat) /\ b.finished \in BOOLEAN
         /\ remainder # <<>> => b.bytes # <<>>
         /\ amount # Everything => Len(b.bytes) <= amount
         /\ b.finished => /\ inner /\ remainder # <<>> /\ b.rest = <<>>
                          /\ received = response.total /\ response.ending = "eof"
  <1>1. remainder \in Seq(Nat) /\ response \in Responses
        /\ received \in Nat /\ received <= response.total
    BY DEF BInv, Shape
  <1>2. /\ b.bytes = Wanted(remainder, amount) /\ b.rest = Kept(remainder, amount)
        /\ b.finished = (/\ remainder # <<>> /\ Kept(remainder, amount) = <<>> /\ inner
                         /\ DeclaredReached(received, allow /\ mode # "read"))
    BY DEF Buffered
  <1>3. b.finished => received = response.total /\ response.ending = "eof"
    BY <1>1, <1>2, ReachedIsComplete
  <1> QED
    BY <1>1, <1>2, <1>3, WantedSome

\* One case per action; Frame is the only one with arithmetic.
LEMMA BInvStep == BInv /\ [BodyNext]_bodyVars => BInv'
  <1> SUFFICES ASSUME BInv, [BodyNext]_bodyVars PROVE BInv'
    OBVIOUS
  <1>1. ASSUME NEW mode \in Modes, NEW amount \in Amounts, NEW allow \in BOOLEAN,
               allow => response.coding = "raw", StartRead(mode, amount, allow)
        PROVE  BInv'
    <2>0. amount \in (Nat \ {0}) \cup {Everything}
      BY AmountsAssumption
    <2>b. PICK b : b = Buffered(mode, amount, allow)
      OBVIOUS
    <2>f. /\ b.bytes \in Seq(Nat) /\ b.rest \in Seq(Nat) /\ b.finished \in BOOLEAN
          /\ remainder # <<>> => b.bytes # <<>>
          /\ amount # Everything => Len(b.bytes) <= amount
          /\ b.finished => /\ inner /\ remainder # <<>> /\ b.rest = <<>>
                           /\ received = response.total /\ response.ending = "eof"
      BY <1>1, <2>0, <2>b, BufferedFacts
    <2>1. ASSUME ServeBuffered(mode, amount, allow) PROVE BInv'
      BY <2>1, <2>b, <2>f DEF ServeBuffered, MayRead, Suffices, TakeBuffered, Return, BInv,
         Shape, ReuseIsSafe, PermitCoversLease
    <2>2. ASSUME ReportPending(mode, amount, allow) PROVE BInv'
      BY <2>2, <2>b, <2>f DEF ReportPending, MayRead, TakeBuffered, ReturnError, BInv,
         Shape, ReuseIsSafe, PermitCoversLease
    <2>3. ASSUME ReportEnd(mode, amount, allow) PROVE BInv'
      BY <2>3, <2>b, <2>f DEF ReportEnd, MayRead, Return, BInv,
         Shape, ReuseIsSafe, PermitCoversLease
    <2>4. ASSUME BeginPoll(mode, amount, allow) PROVE BInv'
      <3>1. amount # Everything => Len(b.bytes) < amount
        BY <2>4, <2>b, <2>f, <2>0 DEF BeginPoll, Suffices, Buffered, Wanted, Everything
      <3>2. ReadOK'
        BY <1>1, <2>0, <2>4, <2>b, <2>f, <3>1
           DEF BeginPoll, MayRead, TakeBuffered, ReadOK, BInv, Shape
      <3> QED
        BY <2>4, <2>b, <2>f, <3>2 DEF BeginPoll, MayRead, TakeBuffered, BInv, Shape,
           ReuseIsSafe, PermitCoversLease
    <2> QED
      BY <1>1, <2>1, <2>2, <2>3, <2>4 DEF StartRead
  <1>2. ASSUME NEW n \in 1..MaxBody, Frame(n) PROVE BInv'
    <2>1. PICK frame : frame = [i \in 1..n |-> received + i]
      OBVIOUS
    <2>2. PICK room : room = IF read.amount = Everything THEN Everything
                             ELSE read.amount - Len(read.output)
      OBVIOUS
    <2>3. PICK bytes : bytes = read.output \o Wanted(frame, room)
      OBVIOUS
    <2>4. PICK rest : rest = Kept(frame, room)
      OBVIOUS
    <2>5. PICK ends \in BOOLEAN :
              ends = (rest = <<>> /\ DeclaredReached(received + n, read.allow))
      OBVIOUS
    <2>r. ReadOK /\ bodyLease = "held" /\ permit
      BY <1>2 DEF Frame, Reading, BInv, Shape, PermitCoversLease, ReadOK
    <2>6. frame \in Seq(Nat) /\ frame # <<>> /\ Len(frame) = n
      BY <2>1, MaxBodyAssumption DEF BInv, Shape
    <2>7. room \in (Nat \ {0}) \cup {Everything}
      BY <2>2, <2>r DEF ReadOK, Everything
    <2>8. /\ Wanted(frame, room) \in Seq(Nat) /\ Wanted(frame, room) # <<>>
          /\ room # Everything => Len(Wanted(frame, room)) <= room
          /\ rest \in Seq(Nat)
      BY <2>4, <2>6, <2>7, WantedSome
    <2>9. /\ bytes \in Seq(Nat) /\ bytes # <<>>
          /\ read.amount # Everything => Len(bytes) <= read.amount
      <3>1. read.output \in Seq(Nat) /\ Len(read.output) \in Nat
        BY <2>r DEF ReadOK
      <3>2. Len(Wanted(frame, room)) \in Nat \ {0}
        BY <2>8
      <3>3. bytes \in Seq(Nat) /\ Len(bytes) = Len(read.output) + Len(Wanted(frame, room))
        BY <2>3, <2>8, <3>1
      <3>4. read.amount # Everything => room # Everything /\ room = read.amount - Len(read.output)
        BY <2>2, <2>r, <3>1 DEF ReadOK, Everything
      <3>5. read.amount # Everything => Len(bytes) <= read.amount
        BY <2>8, <2>r, <3>1, <3>2, <3>3, <3>4 DEF ReadOK
      <3> QED
        BY <3>1, <3>2, <3>3, <3>5
    <2>10. ends => received + n = response.total /\ response.ending = "eof"
      <3>1. response \in Responses /\ received + n \in Nat /\ received + n <= response.total
        BY <1>2, MaxBodyAssumption DEF Frame, BInv, Shape
      <3>2. read.allow \in BOOLEAN /\ (read.allow => response.coding = "raw")
        BY <2>r DEF ReadOK
      <3> QED
        BY <2>5, <3>1, <3>2, ReachedIsComplete
    <2>11. /\ received + n <= response.total /\ received' = received + n
           /\ remainder' = rest /\ terminal' = ends /\ inner' = ~ends
           /\ bodyLease' = IF ends THEN "clean" ELSE bodyLease
           /\ IF ~ends /\ read.mode = "fill" /\ Len(bytes) # read.amount
              THEN read' = [read EXCEPT !.output = bytes] /\ UNCHANGED <<permit, got, told>>
              ELSE read' = Idle /\ Return(read.mode, bytes, ends, rest, FALSE)
           /\ UNCHANGED <<response, pendingError, open>>
      BY <1>2, <2>1, <2>2, <2>3, <2>4, <2>5 DEF Frame
    <2>12. Shape'
      <3>1. ASSUME read' = Idle PROVE Shape'
        <4>1. received' \in Nat /\ received' <= response'.total
          BY <2>11, MaxBodyAssumption DEF BInv, Shape
        <4>2. permit' \in BOOLEAN /\ told' \in {"none", "eof", "error"}
          BY <2>11 DEF Return, BInv, Shape
        <4>3. Idle' = Idle
          BY DEF Idle
        <4> QED
          BY <3>1, <4>1, <4>2, <4>3, <2>8, <2>11 DEF BInv, Shape
      <3>2. ASSUME ~ends, Len(bytes) # read.amount, read' = [read EXCEPT !.output = bytes],
                   UNCHANGED <<permit, got, told>>
            PROVE  Shape'
        <4>1. /\ read'.mode = read.mode /\ read'.amount = read.amount
              /\ read'.allow = read.allow /\ read'.output = bytes
          BY <3>2, <1>2 DEF Frame, BInv, Shape
        <4>2. ReadOK'
          <5>1. inner' /\ ~terminal' /\ open'
            BY <3>2, <2>11, <2>r DEF ReadOK
          <5>2. read'.amount # Everything => Len(read'.output) < read'.amount
            BY <3>2, <4>1, <2>9, <2>r DEF ReadOK, Everything
          <5>3. response' = response
            BY <2>11
          <5> QED
            BY <4>1, <5>1, <5>2, <5>3, <2>9, <2>r DEF ReadOK
        <4> QED
          BY <3>2, <4>2, <2>8, <2>10, <2>11, MaxBodyAssumption DEF BInv, Shape
      <3> QED
        BY <2>11, <3>1, <3>2
    <2> QED
      BY <2>9, <2>10, <2>11, <2>12, <2>r DEF Return, BInv, Shape, ReuseIsSafe,
         PermitCoversLease, ReadOK
  <1>3. ASSUME Eof PROVE BInv'
    BY <1>3 DEF Eof, Reading, Return, BInv, Shape, ReadOK, ReuseIsSafe, PermitCoversLease
  <1>4. ASSUME Fail PROVE BInv'
    BY <1>4 DEF Fail, Reading, Return, ReturnError, BInv, Shape, ReadOK, ReuseIsSafe,
       PermitCoversLease
  <1>5. ASSUME Cancel PROVE BInv'
    BY <1>5 DEF Cancel, Reading, ReturnError, BInv, Shape, ReadOK, ReuseIsSafe,
       PermitCoversLease
  <1>6. ASSUME Close PROVE BInv'
    BY <1>6 DEF Close, MayRead, BInv, Shape, ReuseIsSafe, PermitCoversLease
  <1>7. ASSUME FinishEncoded PROVE BInv'
    <2>1. received = response.total /\ response.ending = "eof"
      BY <1>7, ReachedIsComplete DEF FinishEncoded, BInv, Shape
    <2> QED
      BY <1>7, <2>1 DEF FinishEncoded, MayRead, BInv, Shape, ReuseIsSafe, PermitCoversLease
  <1>8. ASSUME UNCHANGED bodyVars PROVE BInv'
    BY <1>8 DEF bodyVars, BInv, Shape, ReadOK, ReuseIsSafe, PermitCoversLease
  <1> QED
    BY <1>1, <1>2, <1>3, <1>4, <1>5, <1>6, <1>7, <1>8 DEF BodyNext, Read

\* Every body that hyper can deliver, read in any way, keeps the invariant.
THEOREM BodyInvariant == BodySpec => []BInv
  BY BInvInit, BInvStep, PTL DEF BodySpec

\* A connection goes back to the pool as reusable only when the whole body was
\* read off it, for bodies, frames and reads of every size.
THEOREM BodyReuseIsSafe == BodySpec => []ReuseIsSafe
  BY BodyInvariant, PTL DEF BInv

\* The caller is told of the end of a body only when the peer ended it there: a
\* truncated response never looks complete.
THEOREM BodyEofIsHonest == BodySpec => []EofIsHonest
  <1>1. BInv => EofIsHonest
    BY DEF BInv, EofIsHonest, ReuseIsSafe
  <1> QED
    BY <1>1, BodyInvariant, PTL

\* The capacity permit of an adapter outlives the use of the connection.
THEOREM BodyPermitCoversLease == BodySpec => []PermitCoversLease
  BY BodyInvariant, PTL DEF BInv

\* The fate of the connection is decided once.
THEOREM BodyDecidedOnce == BodySpec => DecidedOnce
  <1>1. ASSUME BInv, [BodyNext]_bodyVars PROVE [bodyLease # "held" => bodyLease' = bodyLease]_bodyVars
    <2>1. ASSUME NEW mode \in Modes, NEW amount \in Amounts, NEW allow \in BOOLEAN,
                 StartRead(mode, amount, allow)
          PROVE  bodyLease # "held" => bodyLease' = bodyLease
      BY <1>1, <2>1 DEF StartRead, ServeBuffered, ReportPending, ReportEnd, BeginPoll,
         TakeBuffered, Buffered, BInv
    <2>2. ASSUME Reading PROVE bodyLease = "held"
      BY <1>1, <2>2 DEF Reading, BInv, Shape, ReadOK
    <2>3. ASSUME (\E n \in 1..MaxBody : Frame(n)) \/ Eof \/ Fail \/ Cancel
          PROVE  bodyLease # "held" => bodyLease' = bodyLease
      BY <2>2, <2>3 DEF Frame, Eof, Fail, Cancel
    <2>4. ASSUME Close \/ FinishEncoded PROVE bodyLease # "held" => bodyLease' = bodyLease
      BY <1>1, <2>4 DEF Close, FinishEncoded, BInv
    <2> QED
      BY <1>1, <2>1, <2>3, <2>4 DEF BodyNext, Read
  <1> QED
    BY <1>1, BodyInvariant, PTL DEF BodySpec, DecidedOnce

\* What the caller and the pool are told of the end of a body is true of the
\* wire, for bodies and reads of every size.
THEOREM BodyEndIsEarned == BodySpec => []EndIsEarned
  BY BodyReuseIsSafe, BodyEofIsHonest, PTL DEF EndIsEarned

----------------------------------------------------------------------------
(* No byte is lost, duplicated or reordered, and nothing is kept too long.  *)

\* A read splits what it finds and drops nothing of it; it leaves something
\* behind only if it got all it asked for.
LEMMA WantedAndKept ==
  ASSUME NEW bytes \in Seq(Nat), NEW amount \in (Nat \ {0}) \cup {Everything}
  PROVE  /\ Wanted(bytes, amount) \o Kept(bytes, amount) = bytes
         /\ Kept(bytes, amount) # <<>> =>
               amount # Everything /\ Len(Wanted(bytes, amount)) = amount
         /\ bytes = <<>> => Wanted(bytes, amount) = <<>> /\ Kept(bytes, amount) = <<>>
  <1>1. CASE amount = Everything \/ amount >= Len(bytes)
    <2>1. Wanted(bytes, amount) = bytes
      BY <1>1 DEF Wanted
    <2>2. Kept(bytes, amount) = <<>>
      BY <2>1, SubSeqEmpty, LenProperties DEF Kept
    <2> QED
      BY <2>1, <2>2, ConcatEmptySeq
  <1>2. CASE amount # Everything /\ amount < Len(bytes)
    <2>1. Wanted(bytes, amount) = SubSeq(bytes, 1, amount)
      BY <1>2 DEF Wanted, Everything
    <2>2. Len(SubSeq(bytes, 1, amount)) = amount
      BY <1>2 DEF Everything
    <2>3. SubSeq(bytes, 1, amount) \o SubSeq(bytes, amount + 1, Len(bytes))
            = SubSeq(bytes, 1, Len(bytes))
      <3>1. /\ 1 \in 1 .. Len(bytes) + 1 /\ amount \in 1 - 1 .. Len(bytes)
            /\ Len(bytes) \in amount .. Len(bytes)
        BY <1>2, LenProperties DEF Everything
      <3> QED
        BY <3>1, ConcatAdjacentSubSeq, Zenon
    <2>4. SubSeq(bytes, 1, Len(bytes)) = bytes
      BY SubSeqFull
    <2>5. bytes # <<>>
      BY <1>2 DEF Everything
    <2> QED
      BY <1>2, <2>1, <2>2, <2>3, <2>4, <2>5 DEF Kept
  <1> QED
    BY <1>1, <1>2, LenProperties DEF Everything

\* The next frame continues the numbering.
LEMMA NextBytes ==
  ASSUME NEW k \in Nat, NEW n \in Nat
  PROVE  /\ Bytes(k) \in Seq(Nat) /\ Len(Bytes(k)) = k
         /\ Bytes(k) \o [i \in 1..n |-> k + i] = Bytes(k + n)
  <1> DEFINE f == [i \in 1..n |-> k + i]
  <1>1. /\ Bytes(k) \in Seq(Nat) /\ Len(Bytes(k)) = k
        /\ f \in Seq(Nat) /\ Len(f) = n
        /\ Bytes(k + n) \in Seq(Nat) /\ Len(Bytes(k + n)) = k + n
    BY DEF Bytes
  <1>2. Bytes(k) \o f \in Seq(Nat) /\ Len(Bytes(k) \o f) = k + n
    BY <1>1, ConcatProperties
  <1>3. ASSUME NEW i \in 1..(k + n) PROVE (Bytes(k) \o f)[i] = Bytes(k + n)[i]
    BY <1>1, ConcatProperties DEF Bytes
  <1> QED
    BY <1>1, <1>2, <1>3, SeqEqual

\* What the reader holds between the wire and the caller.
OrderInv ==
    /\ got \in Seq(Nat)
    /\ told = "error" => bodyLease = "dirty"
    /\ read # Idle \/ pendingError => remainder = <<>>
    /\ read # Idle /\ read.mode = "read" => read.output = <<>>
    /\ BytesInOrder
    /\ PermitReturned
    /\ bodyLease = "held" /\ response.coding = "plain" /\ response.declared \notin {0, Undeclared} =>
          received < response.declared \/ remainder # <<>>

\* Nothing was read at the start.
LEMMA OrderInit == BodyInit => OrderInv
  <1> SUFFICES ASSUME BodyInit PROVE OrderInv
    OBVIOUS
  <1>1. response.total \in Nat /\ response.declared \in Nat \cup {Undeclared}
    BY MaxBodyAssumption DEF BodyInit, Responses
  <1>2. /\ got = <<>> /\ read.output = <<>> /\ remainder = <<>> /\ received = 0
        /\ <<>> \in Seq(Nat)
    BY DEF BodyInit, Idle
  <1>3. BytesInOrder
    <2>1. Bytes(0) = <<>>
      BY NextBytes, EmptySeq
    <2>2. (<<>> \o <<>>) \o <<>> = <<>>
      BY <1>2, ConcatEmptySeq
    <2> QED
      BY <1>2, <2>1, <2>2 DEF BytesInOrder
  <1> QED
    BY <1>1, <1>2, <1>3 DEF BodyInit, OrderInv, PermitReturned, Undeclared

\* While no read waits, the caller and the remainder share what arrived.
LEMMA IdleOrder ==
  ASSUME BInv, OrderInv, open, read = Idle
  PROVE  got \o remainder = Bytes(received) /\ Len(got) + Len(remainder) = received
  <1>1. read.output = <<>> /\ got \in Seq(Nat) /\ remainder \in Seq(Nat) /\ received \in Nat
    BY DEF Idle, OrderInv, BInv, Shape
  <1>2. got \o remainder = Bytes(received)
    BY <1>1, ConcatEmptySeq DEF OrderInv, BytesInOrder
  <1>3. Len(got \o remainder) = Len(got) + Len(remainder)
    BY <1>1, ConcatProperties
  <1> QED
    BY <1>1, <1>2, <1>3, NextBytes

\* The bytes of a sequence that a step splits or moves keep their order.
LEMMA Regroup ==
  ASSUME NEW a \in Seq(Nat), NEW b \in Seq(Nat), NEW c \in Seq(Nat)
  PROVE  (a \o b) \o c = a \o (b \o c)
  BY ConcatAssociative

\* Bytes joined are bytes.
LEMMA Joined ==
  ASSUME NEW a \in Seq(Nat), NEW b \in Seq(Nat)
  PROVE  a \o b \in Seq(Nat)
  BY ConcatProperties, Zenon

\* Joining nothing changes nothing.
LEMMA NothingAdded == ASSUME NEW a \in Seq(Nat) PROVE a \o <<>> = a /\ <<>> \o a = a
  BY ConcatEmptySeq, Zenon

\* A read that is served from the buffer continues the order.
LEMMA OrderRead ==
  ASSUME BInv, OrderInv,
         NEW mode \in Modes, NEW amount \in Amounts, NEW allow \in BOOLEAN,
         allow => response.coding = "raw", StartRead(mode, amount, allow)
  PROVE  OrderInv'
  <1>0. amount \in (Nat \ {0}) \cup {Everything}
    BY AmountsAssumption
  <1>b. PICK b : b = Buffered(mode, amount, allow)
    OBVIOUS
  <1>f. /\ b.bytes \in Seq(Nat) /\ b.rest \in Seq(Nat) /\ b.finished \in BOOLEAN
        /\ remainder # <<>> => b.bytes # <<>>
        /\ b.finished => inner /\ remainder # <<>> /\ b.rest = <<>>
    BY <1>0, <1>b, BufferedFacts
  <1>g. /\ b.bytes \o b.rest = remainder
        /\ b.rest # <<>> => amount # Everything /\ Len(b.bytes) = amount
        /\ remainder = <<>> => b.bytes = <<>> /\ b.rest = <<>>
        /\ remainder # <<>> /\ b.rest = <<>> /\ inner /\ DeclaredReached(received, FALSE)
              => b.finished
    <2>1. /\ b.bytes = Wanted(remainder, amount) /\ b.rest = Kept(remainder, amount)
          /\ b.finished = (/\ remainder # <<>> /\ Kept(remainder, amount) = <<>> /\ inner
                           /\ DeclaredReached(received, allow /\ mode # "read"))
      BY <1>b DEF Buffered
    <2>2. remainder \in Seq(Nat)
      BY DEF BInv, Shape
    <2>3. DeclaredReached(received, FALSE) => DeclaredReached(received, allow /\ mode # "read")
      BY DEF DeclaredReached
    <2>4. /\ Wanted(remainder, amount) \o Kept(remainder, amount) = remainder
          /\ Kept(remainder, amount) # <<>> =>
                amount # Everything /\ Len(Wanted(remainder, amount)) = amount
          /\ remainder = <<>> =>
                Wanted(remainder, amount) = <<>> /\ Kept(remainder, amount) = <<>>
      BY <1>0, <2>2, WantedAndKept
    <2> QED
      BY <2>1, <2>3, <2>4, Zenon
  <1>h. open /\ read = Idle /\ read.output = <<>> /\ got \in Seq(Nat) /\ received \in Nat
    <2>1. MayRead
      BY Zenon DEF StartRead, ServeBuffered, ReportPending, ReportEnd, BeginPoll
    <2> QED
      BY <2>1 DEF MayRead, OrderInv, BInv, Shape, Idle
  <1>o. /\ got \o remainder = Bytes(received) /\ got \o b.bytes \in Seq(Nat)
        /\ (got \o b.bytes) \o b.rest = got \o remainder
        /\ ((got \o b.bytes) \o <<>>) \o b.rest = got \o remainder
    <2>1. got \o remainder = Bytes(received)
      BY <1>h, IdleOrder
    <2>2. got \o b.bytes \in Seq(Nat) /\ (got \o b.bytes) \o b.rest = got \o (b.bytes \o b.rest)
      <3>1. got \in Seq(Nat) /\ b.bytes \in Seq(Nat) /\ b.rest \in Seq(Nat)
        BY <1>f, <1>h
      <3>2. got \o b.bytes \in Seq(Nat)
        BY <3>1, Joined
      <3>3. (got \o b.bytes) \o b.rest = got \o (b.bytes \o b.rest)
        BY <3>1, Regroup
      <3> QED
        BY <3>2, <3>3, Zenon
    <2>3. (got \o b.bytes) \o <<>> = got \o b.bytes
      BY <2>2, NothingAdded
    <2> QED
      BY <1>g, <2>1, <2>2, <2>3
  <1>d. \* the last declared byte that leaves the buffer finishes the body
        /\ bodyLease = "held" /\ ~b.finished /\ response.coding = "plain"
        /\ response.declared \notin {0, Undeclared}
        => received < response.declared \/ b.rest # <<>>
    <2>1. bodyLease = "held" /\ response.coding = "plain" /\ response.declared \notin {0, Undeclared}
          => received <= response.declared
      BY DEF BInv, Shape, Responses, Undeclared
    <2> QED
      BY <1>g, <2>1, <1>h DEF OrderInv, BInv, DeclaredReached, Shape, Responses, Undeclared
  <1>1. ASSUME ServeBuffered(mode, amount, allow) PROVE OrderInv'
    <2>1. /\ remainder # <<>> /\ ~pendingError
          /\ remainder' = b.rest /\ got' = got \o b.bytes /\ read' = Idle
          /\ bodyLease' = IF b.finished THEN "clean" ELSE bodyLease
          /\ told' = told /\ (permit' => permit)
          /\ UNCHANGED <<response, received, pendingError, read, open>>
      BY <1>1, <1>b, <1>f, <1>h DEF ServeBuffered, Suffices, TakeBuffered, Return, OrderInv
    <2>2. BytesInOrder'
      BY <1>h, <1>o, <2>1 DEF BytesInOrder, Idle
    <2> QED
      BY <1>d, <1>f, <1>h, <1>o, <2>1, <2>2 DEF OrderInv, PermitReturned, BInv
  <1>2. ASSUME ReportPending(mode, amount, allow) PROVE OrderInv'
    <2>1. /\ remainder = <<>> /\ remainder' = <<>> /\ bodyLease = "dirty" /\ bodyLease' = bodyLease
          /\ told' = (IF told = "none" THEN "error" ELSE told)
          /\ (permit' => permit /\ mode = "read") /\ (open' <=> mode = "read")
          /\ ~pendingError'
          /\ UNCHANGED <<response, received, read, got>>
      BY <1>2, <1>b, <1>f, <1>g DEF ReportPending, TakeBuffered, ReturnError, OrderInv, BInv
    <2>2. BytesInOrder'
      BY <1>h, <1>o, <2>1 DEF BytesInOrder, OrderInv
    <2> QED
      BY <1>h, <2>1, <2>2 DEF OrderInv, PermitReturned, BInv
  <1>3. ASSUME ReportEnd(mode, amount, allow) PROVE OrderInv'
    <2>1. /\ remainder' = b.rest /\ got' = got \o b.bytes
          /\ bodyLease' = IF b.finished THEN "clean" ELSE bodyLease
          /\ told' = IF told = "none" /\ b.bytes = <<>> THEN "eof" ELSE told
          /\ permit' => permit
          /\ b.bytes = <<>> => ~permit'
          /\ bodyLease' # "held" /\ ~pendingError
          /\ UNCHANGED <<response, received, pendingError, read, open>>
      BY <1>3, <1>b, <1>f, <1>g DEF ReportEnd, Return, BInv
    <2>2. BytesInOrder'
      BY <1>h, <1>o, <2>1 DEF BytesInOrder
    <2> QED
      BY <1>d, <1>f, <1>h, <1>o, <2>1, <2>2 DEF OrderInv, PermitReturned, BInv
  <1>4. ASSUME BeginPoll(mode, amount, allow) PROVE OrderInv'
    <2>1. /\ remainder' = b.rest /\ read'.output = b.bytes /\ ~b.finished /\ bodyLease' = bodyLease
          /\ ~pendingError
          /\ UNCHANGED <<response, received, pendingError, permit, open, got, told>>
      BY <1>4, <1>b, <1>f DEF BeginPoll, TakeBuffered
    <2>2. b.rest = <<>>
      BY <1>4, <1>b, <1>g DEF BeginPoll, Suffices
    <2>3. BytesInOrder'
      BY <1>h, <1>o, <2>1 DEF BytesInOrder
    <2>4. read'.mode = mode /\ (mode = "read" => b.bytes = <<>>)
      BY <1>4, <1>b, <1>g DEF BeginPoll, Suffices
    <2> QED
      BY <1>d, <1>h, <2>1, <2>2, <2>3, <2>4 DEF OrderInv, PermitReturned, BInv
  <1> QED
    BY <1>1, <1>2, <1>3, <1>4 DEF StartRead

\* A read that takes a frame from the wire continues the order.
LEMMA OrderFrame ==
  ASSUME BInv, OrderInv, NEW n \in 1..MaxBody, Frame(n)
  PROVE  OrderInv'
  <1>1. PICK frame : frame = [i \in 1..n |-> received + i]
    OBVIOUS
  <1>2. PICK room : room = IF read.amount = Everything THEN Everything
                           ELSE read.amount - Len(read.output)
    OBVIOUS
  <1>3. PICK bytes : bytes = read.output \o Wanted(frame, room)
    OBVIOUS
  <1>4. PICK rest : rest = Kept(frame, room)
    OBVIOUS
  <1>5. PICK ends \in BOOLEAN :
            ends = (rest = <<>> /\ DeclaredReached(received + n, read.allow))
    OBVIOUS
  <1>6. /\ received + n <= response.total /\ received' = received + n
        /\ remainder' = rest /\ bodyLease' = IF ends THEN "clean" ELSE bodyLease
        /\ IF ~ends /\ read.mode = "fill" /\ Len(bytes) # read.amount
           THEN read' = [read EXCEPT !.output = bytes] /\ UNCHANGED <<permit, got, told>>
           ELSE read' = Idle /\ Return(read.mode, bytes, ends, rest, FALSE)
        /\ UNCHANGED <<response, pendingError, open>>
    BY <1>1, <1>2, <1>3, <1>4, <1>5 DEF Frame
  <1>7. /\ read # Idle /\ ReadOK /\ bodyLease = "held" /\ permit /\ open /\ remainder = <<>>
        /\ ~pendingError /\ told = "none"
        /\ got \in Seq(Nat) /\ received \in Nat /\ n \in Nat /\ n # 0
        /\ read.output \in Seq(Nat) /\ read.allow \in BOOLEAN
    BY MaxBodyAssumption DEF Frame, Reading, BInv, Shape, PermitCoversLease, ReadOK, OrderInv
  <1>8. frame \in Seq(Nat) /\ frame # <<>> /\ Len(frame) = n
    BY <1>1, <1>7
  <1>9. room \in (Nat \ {0}) \cup {Everything}
    BY <1>2, <1>7 DEF ReadOK, Everything
  <1>10. /\ Wanted(frame, room) \in Seq(Nat) /\ rest \in Seq(Nat) /\ Wanted(frame, room) # <<>>
         /\ Wanted(frame, room) \o rest = frame
         /\ rest # <<>> => room # Everything /\ Len(Wanted(frame, room)) = room
    BY <1>4, <1>8, <1>9, WantedSome, WantedAndKept
  <1>11. bytes \in Seq(Nat) /\ Len(bytes) = Len(read.output) + Len(Wanted(frame, room))
    BY <1>3, <1>7, <1>10, ConcatProperties
  <1>12. bytes # <<>>
    BY <1>10, <1>11, <1>7
  <1>13. rest # <<>> => Len(bytes) = read.amount
    <2>1. rest # <<>> => read.amount # Everything /\ room = read.amount - Len(read.output)
      BY <1>2, <1>10
    <2>2. Len(read.output) \in Nat /\ read.amount \in Nat \cup {Everything}
      BY <1>7 DEF ReadOK
    <2>3. rest # <<>> => Len(Wanted(frame, room)) = read.amount - Len(read.output)
      BY <1>10, <2>1
    <2> QED
      BY <1>11, <2>1, <2>2, <2>3
  <1>14. /\ got \o bytes \in Seq(Nat)
         /\ (got \o bytes) \o rest = Bytes(received + n)
         /\ ((got \o bytes) \o <<>>) \o rest = Bytes(received + n)
    <2>1. got \o read.output = Bytes(received) /\ got \o read.output \in Seq(Nat)
      <3>1. got \o read.output \in Seq(Nat)
        BY <1>7, Joined
      <3>2. (got \o read.output) \o <<>> = Bytes(received)
        BY <1>7, Zenon DEF OrderInv, BytesInOrder
      <3> QED
        BY <3>1, <3>2, NothingAdded
    <2>2. (got \o read.output) \o frame = Bytes(received + n)
      BY <1>1, <1>7, <2>1, NextBytes
    <2>3. got \o bytes = (got \o read.output) \o Wanted(frame, room)
      <3>1. got \in Seq(Nat) /\ read.output \in Seq(Nat) /\ Wanted(frame, room) \in Seq(Nat)
        BY <1>7, <1>10
      <3> QED
        BY <1>3, <3>1, Regroup
    <2>4. (got \o bytes) \o rest = (got \o read.output) \o (Wanted(frame, room) \o rest)
      <3>1. /\ got \o read.output \in Seq(Nat) /\ rest \in Seq(Nat)
            /\ Wanted(frame, room) \in Seq(Nat)
        BY <1>10, <2>1
      <3>2. ((got \o read.output) \o Wanted(frame, room)) \o rest
              = (got \o read.output) \o (Wanted(frame, room) \o rest)
        BY <3>1, Regroup
      <3> QED
        BY <2>3, <3>2, Zenon
    <2>5. got \o bytes \in Seq(Nat) /\ (got \o bytes) \o <<>> = got \o bytes
      BY <1>7, <1>11, Joined, NothingAdded
    <2> QED
      BY <1>10, <2>2, <2>4, <2>5
  <1>15. bodyLease' = "held" /\ response.coding = "plain" /\ response.declared \notin {0, Undeclared}
         => received' < response.declared \/ rest # <<>>
    <2>1. response.coding = "plain" /\ response.declared \notin {0, Undeclared} =>
              response.declared \in Nat /\ received + n <= response.declared
      BY <1>6, <1>7, MaxBodyAssumption DEF BInv, Shape, Responses, Undeclared
    <2>2. CASE ends
      BY <1>6, <2>2
    <2>3. CASE ~ends
      <3>1. rest # <<>> \/ ~DeclaredReached(received + n, read.allow)
        BY <1>5, <2>3
      <3>2. response.coding = "plain" /\ response.declared \notin {0, Undeclared}
            /\ ~DeclaredReached(received + n, read.allow) => received + n # response.declared
        BY <1>7, Zenon DEF DeclaredReached
      <3>3. received' = received + n /\ received \in Nat /\ n \in Nat
        BY <1>6, <1>7
      <3> QED
        BY <2>1, <3>1, <3>2, <3>3
    <2> QED
      BY <1>5, <2>2, <2>3
  <1>16. CASE read' = Idle /\ Return(read.mode, bytes, ends, rest, FALSE)
    <2>1. got' = got \o bytes /\ told' = "none" /\ read'.output = <<>>
      BY <1>7, <1>12, <1>16 DEF Return, Idle
    <2>2. BytesInOrder'
      BY <1>6, <1>14, <2>1 DEF BytesInOrder
    <2>3. Idle' = Idle
      BY DEF Idle
    <2> QED
      BY <1>6, <1>7, <1>14, <1>15, <1>16, <2>1, <2>2, <2>3 DEF OrderInv, PermitReturned
  <1>17. CASE /\ read.mode = "fill" /\ Len(bytes) # read.amount /\ read' = [read EXCEPT !.output = bytes]
              /\ UNCHANGED <<permit, got, told>>
    <2>1. rest = <<>>
      BY <1>13, <1>17
    <2>2. read'.output = bytes /\ read'.mode = "fill"
      BY <1>17, <1>7 DEF BInv, Shape, Frame
    <2>3. BytesInOrder'
      BY <1>6, <1>14, <1>17, <2>2 DEF BytesInOrder
    <2> QED
      BY <1>6, <1>7, <1>15, <1>17, <2>1, <2>2, <2>3 DEF OrderInv, PermitReturned
  <1> QED
    BY <1>6, <1>16, <1>17

\* Every step of the reader keeps the order.
LEMMA OrderStep == BInv /\ OrderInv /\ [BodyNext]_bodyVars => OrderInv'
  <1> SUFFICES ASSUME BInv, OrderInv, [BodyNext]_bodyVars PROVE OrderInv'
    OBVIOUS
  <1>1. ASSUME Reading
        PROVE  /\ bodyLease = "held" /\ permit /\ open /\ remainder = <<>> /\ told = "none"
               /\ ~pendingError /\ got \in Seq(Nat) /\ read.output \in Seq(Nat)
               /\ got \o read.output \in Seq(Nat) /\ got \o read.output = Bytes(received)
               /\ ((got \o read.output) \o <<>>) \o <<>> = Bytes(received)
    <2>1. /\ bodyLease = "held" /\ permit /\ open /\ remainder = <<>> /\ told = "none"
          /\ ~pendingError /\ got \in Seq(Nat) /\ read.output \in Seq(Nat)
      BY <1>1 DEF Reading, BInv, Shape, PermitCoversLease, ReadOK, OrderInv
    <2>2. /\ got \o read.output \in Seq(Nat)
          /\ (got \o read.output) \o <<>> = got \o read.output
      BY <2>1, Joined, NothingAdded
    <2>3. (got \o read.output) \o <<>> = Bytes(received)
      BY <2>1 DEF OrderInv, BytesInOrder
    <2> QED
      BY <2>1, <2>2, <2>3
  <1>2. Idle.output = <<>> /\ Idle' = Idle
    BY DEF Idle
  <1>3. ASSUME Eof PROVE OrderInv'
    <2>1. /\ Reading /\ bodyLease' = "clean" /\ read' = Idle /\ got' = got \o read.output
          /\ (told' = IF told = "none" /\ read.output = <<>> THEN "eof" ELSE told)
          /\ (read.output = <<>> => ~permit')
          /\ UNCHANGED <<response, received, remainder, pendingError, open>>
      BY <1>3 DEF Eof, Return
    <2>2. BytesInOrder'
      BY <1>1, <1>2, <2>1 DEF BytesInOrder
    <2> QED
      BY <1>1, <1>2, <2>1, <2>2 DEF OrderInv, PermitReturned
  <1>4. ASSUME Fail PROVE OrderInv'
    <2>1. /\ Reading /\ bodyLease' = "dirty" /\ read' = Idle
          /\ UNCHANGED <<response, received, remainder>>
      BY <1>4 DEF Fail
    <2>2. CASE read.output = <<>>
      <3>1. got' = got /\ told' = "error" /\ (~open' => ~permit')
        BY <1>1, <1>4, <2>1, <2>2 DEF Fail, ReturnError
      <3>2. BytesInOrder'
        BY <1>1, <1>2, <2>1, <2>2, <3>1 DEF BytesInOrder
      <3> QED
        BY <1>1, <1>2, <2>1, <3>1, <3>2 DEF OrderInv, PermitReturned
    <2>3. CASE read.output # <<>>
      <3>1. got' = got \o read.output /\ told' = told /\ open' = open
        BY <1>1, <1>4, <2>1, <2>3 DEF Fail, Return
      <3>2. BytesInOrder'
        BY <1>1, <1>2, <2>1, <3>1 DEF BytesInOrder
      <3> QED
        BY <1>1, <1>2, <2>1, <3>1, <3>2 DEF OrderInv, PermitReturned
    <2> QED
      BY <2>2, <2>3
  <1>5. ASSUME Cancel PROVE OrderInv'
    <2>1. /\ Reading /\ bodyLease' = "dirty" /\ read' = Idle
          /\ UNCHANGED <<response, received, remainder, pendingError>>
      BY <1>5 DEF Cancel
    <2>2. CASE read.mode = "read"
      <3>1. read.output = <<>> /\ got' = got /\ told' = "error" /\ open' /\ (permit' <=> permit)
        BY <1>1, <1>5, <2>1, <2>2 DEF Cancel, ReturnError, Reading, OrderInv
      <3>2. BytesInOrder'
        BY <1>1, <1>2, <2>1, <3>1 DEF BytesInOrder
      <3> QED
        BY <1>1, <1>2, <2>1, <3>1, <3>2 DEF OrderInv, PermitReturned
    <2>3. CASE read.mode # "read"
      <3>1. ~open' /\ ~permit' /\ got' = got /\ told' = told
        BY <1>5, <2>3 DEF Cancel
      <3> QED
        BY <1>1, <1>2, <2>1, <3>1 DEF OrderInv, PermitReturned, BytesInOrder
    <2> QED
      BY <2>2, <2>3
  <1>6. ASSUME Close PROVE OrderInv'
    BY <1>6, Zenon DEF Close, MayRead, OrderInv, BytesInOrder, PermitReturned
  <1>7. ASSUME FinishEncoded PROVE OrderInv'
    BY <1>7 DEF FinishEncoded, MayRead, BInv, OrderInv, BytesInOrder, PermitReturned
  <1>8. ASSUME UNCHANGED bodyVars PROVE OrderInv'
    BY <1>8 DEF bodyVars, OrderInv, BytesInOrder, PermitReturned
  <1> QED
    BY <1>3, <1>4, <1>5, <1>6, <1>7, <1>8, OrderRead, OrderFrame DEF BodyNext, Read

\* The reader keeps the order of the bytes, whatever reads the caller mixes.
THEOREM BodyOrder == BodySpec => [](BInv /\ OrderInv)
  BY BInvInit, BInvStep, OrderInit, OrderStep, PTL DEF BodySpec

\* No byte is lost, duplicated or reordered between the wire and the caller, for
\* bodies, frames and reads of every size and any mix of the three readers.
THEOREM BodyBytesInOrder == BodySpec => []BytesInOrder
  BY BodyOrder, PTL DEF OrderInv

\* The connection goes back with the last declared byte, the permit outlives it
\* and is not kept after the caller saw the end or gave the body up.
THEOREM BodyPermitFollowsLease == BodySpec => []PermitFollowsLease
  <1>1. BInv /\ OrderInv => ReleasedWithLastByte
    <2> SUFFICES ASSUME BInv, OrderInv, open, read = Idle, bodyLease = "held",
                        response.coding = "plain", response.declared \notin {0, Undeclared}
                 PROVE  Len(got) < response.declared
      BY DEF ReleasedWithLastByte
    <2>1. Len(got) + Len(remainder) = received
      BY IdleOrder
    <2>2. Len(got) \in Nat /\ Len(remainder) \in Nat /\ (remainder # <<>> => Len(remainder) # 0)
      BY EmptySeq, LenProperties DEF BInv, Shape, OrderInv
    <2>3. response.declared \in Nat /\ received \in Nat /\ received <= response.declared
      BY MaxBodyAssumption DEF BInv, Shape, Responses, Undeclared
    <2>4. received < response.declared \/ remainder # <<>>
      BY DEF OrderInv
    <2> QED
      BY <2>1, <2>2, <2>3, <2>4
  <1>2. BInv /\ OrderInv => PermitFollowsLease
    BY <1>1 DEF PermitFollowsLease, BInv, OrderInv
  <1> QED
    BY <1>2, BodyOrder, PTL
=============================================================================
