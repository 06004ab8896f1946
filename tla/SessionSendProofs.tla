------------------------- MODULE SessionSendProofs -------------------------
(***************************************************************************)
(* Session.send and its redirect cursor, for any hosts, calls, targets,     *)
(* limits and users of a shared cursor.  The invariant has six parts: who   *)
(* may be inside the cursor at each point (Control), what the chain still   *)
(* holds (OnlyLastHolds), what its histories say and how long it is         *)
(* (Histories, Bounded), what the current request may carry (HopOwned) and  *)
(* how the cookies of the chain are ordered (CookiesOrdered).               *)
(***************************************************************************)
EXTENDS SessionSend, FiniteSetTheorems, TLAPS

Jars == [Hosts -> Nat]
ChainEntries == [cookies : Jars, holds : BOOLEAN, history : Seq(Nat)]
Cursors == [live : BOOLEAN, running : BOOLEAN, present : BOOLEAN,
            terminal : {"None", "Live", "Done", "Errored", "Closed"},
            claimed : BOOLEAN, history : Seq(Nat)]

Inside == {"dispatch", "wire", "peek", "content", "resume"}
Replied == {"peek", "content", "resume", "cursor", "finish", "done", "held"}

SessionOK ==
    /\ session = [adapters |-> session.adapters, jar |-> session.jar, limit |-> session.limit,
                  netrc |-> session.netrc, proxies |-> session.proxies,
                  stream |-> session.stream, mounts |-> session.mounts]
    /\ session.jar \in Jars /\ session.limit \in Nat

SendTypeOK ==
    /\ SessionOK
    /\ pc \in {"idle", "failed"} \cup Inside \cup Replied
    /\ chain \in Seq(ChainEntries)
    /\ cursor \in Cursors
    /\ hops \in Nat

\* Who is inside the cursor, and where the send may be.
CursorOwned ==
    /\ ~cursor.live => cursor = NoCursor
    /\ cursor.running =>
          /\ cursor.live /\ ~cursor.present /\ pc \in Inside
          /\ IF cursor.claimed THEN driver \in Users ELSE driver = "send"
    /\ ~cursor.running => driver = NoValue
    /\ cursor.claimed => cursor.live /\ ~asked.allow /\ (~cursor.running => pc = "held")
    /\ (cursor.live /\ ~cursor.claimed) =>
          asked.allow /\ (~cursor.running => pc \in {"cursor", "finish", "failed", "done"})
    /\ cursor.terminal = "Closed" => cursor.claimed /\ ~cursor.present /\ ~cursor.running

PhaseOK ==
    /\ pc = "idle" => cursor = NoCursor /\ chain = <<>> /\ offset = "start"
    /\ pc \in Replied \/ cursor.live => chain # <<>>
    /\ pc = "resume" => cursor.running
    /\ pc \in {"cursor", "finish"} => asked.allow
    /\ pc \in {"peek", "content"} /\ asked.allow => cursor.running
    /\ pc = "finish" => cursor.live /\ ~cursor.present
    /\ pc = "held" => cursor.claimed

Control == SendTypeOK /\ CursorOwned /\ PhaseOK

OnlyLastHolds ==
    /\ \A i \in 1 .. Len(chain) - 1 : ~chain[i].holds
    /\ pc \in {"dispatch", "wire"} => \A i \in 1 .. Len(chain) : ~chain[i].holds

Histories ==
    asked.allow =>
        /\ pc \in Inside \cup {"cursor", "finish"} =>
              \A i \in 1 .. Len(chain) - 1 : chain[i].history = Past(i)
        /\ pc \in {"dispatch", "wire"} =>
              /\ cursor.history = Past(Len(chain) + 1)
              /\ \A i \in 1 .. Len(chain) : chain[i].history = Past(i)
        /\ pc \in {"peek", "content", "resume", "cursor", "finish"} =>
              cursor.history = Past(Len(chain)) /\ chain[Len(chain)].history = <<>>
        /\ pc = "done" => \A i \in 1 .. Len(chain) : chain[i].history = Past(i)

Bounded ==
    /\ Len(cursor.history) <= session.limit
    /\ hops <= Len(cursor.history) + 1
    /\ pc \in {"idle", "dispatch"} => hops <= Len(cursor.history)

RequestOK(r) ==
    /\ r.body = "none" <=> r.framing = "none"
    /\ r.auth \in {NoHost, r.url.host}
    /\ r.proxyAuth => r.url.scheme # "https"
    /\ r.url.host \in Hosts /\ r.jar \in Jars /\ r.cookie \in Nat

\* The reply is the one to the current request.
Current == pc \in {"peek", "content", "resume", "cursor", "finish", "done"}
           \/ (pc = "held" /\ cursor.present)

HopOwned ==
    /\ pc # "idle" => RequestOK(request)
    /\ (pc = "dispatch" /\ request.body # "none" /\ request.position = "known")
          => offset = "start"
    /\ pc = "wire" =>
          /\ wire.req = request
          /\ request.body # "none" /\ request.position = "known" => wire.from = "start"
    /\ Current =>
          /\ reply.url = request.url
          /\ RedirectTarget(reply) # NoTarget => reply.target.host \in Hosts

CookiesOrdered ==
    /\ \A i \in 1 .. Len(chain), h \in Hosts :
          chain[i].cookies[h] <= session.jar[h] /\ chain[i].cookies[h] <= CookiesSet
    /\ pc \in {"dispatch", "wire"} =>
          \A i \in 1 .. Len(chain) : chain[i].cookies[request.url.host] <= request.cookie
    /\ chain # <<>> =>
          /\ reply.cookies \in Jars
          /\ \A h \in Hosts : reply.cookies[h] # 0 => session.jar[h] = reply.cookies[h]

SSInv == Control /\ OnlyLastHolds /\ Histories /\ Bounded /\ HopOwned /\ CookiesOrdered

----------------------------------------------------------------------------
(* What the operators do to a chain.                                       *)

\* Giving back the connection of one response changes nothing else.
LEMMA ReleasedEntry ==
  ASSUME NEW c \in Seq(ChainEntries), NEW i \in 1 .. Len(c)
  PROVE  /\ Released(c, i) \in Seq(ChainEntries) /\ Len(Released(c, i)) = Len(c)
         /\ ~Released(c, i)[i].holds
         /\ \A j \in 1 .. Len(c) : /\ j # i => Released(c, i)[j] = c[j]
                                   /\ Released(c, i)[j].cookies = c[j].cookies
                                   /\ Released(c, i)[j].history = c[j].history
  <1> DEFINE e == [c[i] EXCEPT !.holds = FALSE]
  <1>1. c[i] \in ChainEntries
    OBVIOUS
  <1>2. e \in ChainEntries /\ e.holds = FALSE /\ e.cookies = c[i].cookies /\ e.history = c[i].history
    BY <1>1 DEF ChainEntries
  <1>3. Released(c, i) = [c EXCEPT ![i] = e]
    BY DEF Released
  <1> HIDE DEF e
  <1> QED
    BY <1>2, <1>3

\* So does writing its history.
LEMMA StampedEntry ==
  ASSUME NEW c \in Seq(ChainEntries), NEW i \in 1 .. Len(c), NEW h \in Seq(Nat)
  PROVE  LET s == [c EXCEPT ![i].history = h]
         IN  /\ s \in Seq(ChainEntries) /\ Len(s) = Len(c) /\ s[i].history = h
             /\ \A j \in 1 .. Len(c) : /\ j # i => s[j] = c[j]
                                       /\ s[j].cookies = c[j].cookies
                                       /\ s[j].holds = c[j].holds
  <1> DEFINE e == [c[i] EXCEPT !.history = h]
  <1>1. c[i] \in ChainEntries
    OBVIOUS
  <1>2. e \in ChainEntries /\ e.history = h /\ e.cookies = c[i].cookies /\ e.holds = c[i].holds
    BY <1>1 DEF ChainEntries
  <1>3. [c EXCEPT ![i].history = h] = [c EXCEPT ![i] = e]
    OBVIOUS
  <1> HIDE DEF e
  <1>4. /\ [c EXCEPT ![i] = e] \in Seq(ChainEntries) /\ Len([c EXCEPT ![i] = e]) = Len(c)
        /\ [c EXCEPT ![i] = e][i] = e
        /\ \A j \in 1 .. Len(c) : j # i => [c EXCEPT ![i] = e][j] = c[j]
    BY <1>2
  <1> DEFINE s == [c EXCEPT ![i].history = h]
  <1>5. /\ s \in Seq(ChainEntries) /\ Len(s) = Len(c) /\ s[i] = e
        /\ \A j \in 1 .. Len(c) : j # i => s[j] = c[j]
    BY <1>3, <1>4
  <1> HIDE DEF s
  <1>6. \A j \in 1 .. Len(c) : s[j].cookies = c[j].cookies /\ s[j].holds = c[j].holds
    BY <1>2, <1>5
  <1> QED
    BY <1>2, <1>5, <1>6 DEF s

\* The responses are the same ones, and none took its connection back.
SameChain ==
    /\ chain' \in Seq(ChainEntries) /\ Len(chain') = Len(chain)
    /\ \A i \in 1 .. Len(chain) :
          chain'[i].cookies = chain[i].cookies /\ (chain'[i].holds => chain[i].holds)

\* The history of a response grows by one index with each hop.
LEMMA PastSteps ==
  ASSUME NEW n \in Nat
  PROVE  /\ Past(n) \in Seq(Nat) /\ Past(1) = <<>>
         /\ n > 0 => Len(Past(n)) = n - 1 /\ Append(Past(n), n) = Past(n + 1)
  <1>1. Past(n) \in Seq(Nat) /\ (n > 0 => Len(Past(n)) = n - 1)
    BY DEF Past
  <1>2. Past(1) = <<>>
    BY DEF Past
  <1>3. ASSUME n > 0 PROVE Append(Past(n), n) = Past(n + 1)
    <2>1. /\ Append(Past(n), n) \in Seq(Nat) /\ Len(Append(Past(n), n)) = n
          /\ \A i \in 1 .. n : Append(Past(n), n)[i] = i
      BY <1>1, <1>3 DEF Past
    <2>2. /\ Past(n + 1) \in Seq(Nat) /\ Len(Past(n + 1)) = n
          /\ \A i \in 1 .. n : Past(n + 1)[i] = i
      BY DEF Past
    <2> QED
      BY <2>1, <2>2
  <1> QED
    BY <1>1, <1>2, <1>3

----------------------------------------------------------------------------
(* The control part.                                                       *)

\* The last response exists wherever one was received.
LEMMA LastExists ==
  ASSUME Control, pc \in Replied
  PROVE  Last \in 1 .. Len(chain) /\ Len(chain) \in Nat
  BY DEF Control, SendTypeOK, PhaseOK, Last

\* The steps that touch the chain otherwise than by a reply.
LEMMA ChainKept ==
  ASSUME Control,
         \/ PeekNext \/ ReadContent \/ ReadContentFails \/ Finish \/ UNCHANGED chain
         \/ (pc \in Replied /\ \E who \in Users \cup {"send"} : Advance(who))
  PROVE  SameChain
  <1>t. chain \in Seq(ChainEntries) /\ cursor.history \in Seq(Nat)
    BY DEF Control, SendTypeOK, Cursors
  <1>1. ASSUME pc \in Replied, chain' = Released(chain, Last) PROVE SameChain
    BY <1>t, <1>1, LastExists, ReleasedEntry DEF SameChain
  <1>2. ASSUME UNCHANGED chain PROVE SameChain
    BY <1>t, <1>2 DEF SameChain
  <1>3. ASSUME pc \in Replied, NEW h \in Seq(Nat),
               chain' = Released([chain EXCEPT ![Last].history = h], Last)
        PROVE  SameChain
    <2> DEFINE s == [chain EXCEPT ![Last].history = h]
    <2>1. Last \in 1 .. Len(chain)
      BY <1>3, LastExists
    <2>2. /\ s \in Seq(ChainEntries) /\ Len(s) = Len(chain)
          /\ \A j \in 1 .. Len(chain) : s[j].cookies = chain[j].cookies /\ s[j].holds = chain[j].holds
      BY <1>t, <2>1, StampedEntry
    <2> HIDE DEF s
    <2>3. /\ Released(s, Last) \in Seq(ChainEntries) /\ Len(Released(s, Last)) = Len(s)
          /\ ~Released(s, Last)[Last].holds
          /\ \A j \in 1 .. Len(s) : /\ j # Last => Released(s, Last)[j] = s[j]
                                    /\ Released(s, Last)[j].cookies = s[j].cookies
      BY <2>1, <2>2, ReleasedEntry
    <2>4. chain' = Released(s, Last)
      BY <1>3 DEF s
    <2> QED
      BY <2>1, <2>2, <2>3, <2>4 DEF SameChain
  <1>4. ASSUME pc \in Replied, NEW h \in Seq(Nat), chain' = [chain EXCEPT ![Last].history = h]
        PROVE  SameChain
    BY <1>t, <1>4, LastExists, StampedEntry DEF SameChain
  <1>5. CASE PeekNext \/ ReadContent \/ ReadContentFails
    BY <1>1, <1>2, <1>5 DEF PeekNext, ReadContent, ReadContentFails, Replied
  <1>6. CASE Finish
    <2>1. pc \in Replied /\ Past(Last) \in Seq(Nat)
      BY <1>6, LastExists, PastSteps DEF Finish, Replied
    <2> QED
      BY <1>1, <1>2, <1>3, <1>4, <1>6, <2>1 DEF Finish
  <1>7. CASE pc \in Replied /\ \E who \in Users \cup {"send"} : Advance(who)
    BY <1>t, <1>2, <1>3, <1>7 DEF Advance
  <1> QED
    BY <1>2, <1>5, <1>6, <1>7

\* The exception of a send leaves the cursor to its users, or ends the send.
LEMMA FailKeepsControl ==
  ASSUME Control, FailSend, pc \in {"dispatch", "wire", "peek", "content"}, SameChain,
         UNCHANGED <<session, asked, hops>>
  PROVE  Control'
  <1>t. SendTypeOK /\ CursorOwned /\ PhaseOK
    BY DEF Control
  <1>1. CASE cursor.running
    <2>1. driver # NoValue /\ driver \in Users \cup {"send"}
      BY <1>t, <1>1, UsersAssumption DEF CursorOwned
    <2>2. /\ cursor' = [cursor EXCEPT !.running = FALSE, !.terminal = "Errored"]
          /\ pc' = IF driver # "send" THEN "held" ELSE "failed"
          /\ driver' = NoValue
      BY <2>1 DEF FailSend, Nested
    <2>3. /\ cursor' \in Cursors /\ ~cursor'.running /\ cursor'.live /\ ~cursor'.present
          /\ cursor'.claimed = cursor.claimed /\ cursor'.terminal = "Errored"
      BY <1>t, <1>1, <2>2 DEF SendTypeOK, Cursors, CursorOwned
    <2>4. pc' = IF cursor.claimed THEN "held" ELSE "failed"
      BY <1>t, <1>1, <2>2, UsersAssumption DEF CursorOwned
    <2>5. SendTypeOK'
      BY <1>t, <2>3, <2>4 DEF SendTypeOK, SessionOK, SameChain, Replied
    <2>6. CursorOwned'
      BY <1>t, <1>1, <2>2, <2>3, <2>4 DEF CursorOwned
    <2>7. PhaseOK'
      BY <1>t, <1>1, <2>3, <2>4 DEF PhaseOK, Replied, SameChain, SendTypeOK, CursorOwned
    <2> QED
      BY <2>5, <2>6, <2>7 DEF Control
  <1>2. CASE ~cursor.running
    <2>1. cursor' = cursor /\ pc' = "failed" /\ driver' = NoValue /\ driver = NoValue
      BY <1>t, <1>2 DEF FailSend, Nested, CursorOwned
    <2>2. SendTypeOK'
      BY <1>t, <2>1 DEF SendTypeOK, SessionOK, SameChain
    <2>3. CursorOwned'
      BY <1>t, <1>2, <2>1 DEF CursorOwned
    <2>4. PhaseOK'
      BY <1>t, <2>1 DEF PhaseOK, Replied, SameChain, SendTypeOK
    <2> QED
      BY <2>2, <2>3, <2>4 DEF Control
  <1> QED
    BY <1>1, <1>2

\* An advance, of the send's own cursor or of a shared one.
LEMMA AdvanceKeepsControl ==
  ASSUME Control, NEW who, Advance(who),
         \/ who = "send" /\ pc = "cursor"
         \/ who \in Users /\ pc = "held"
  PROVE  Control'
  <1>t. SendTypeOK /\ CursorOwned /\ PhaseOK
    BY DEF Control
  <1>0. SameChain /\ chain # <<>> /\ chain' # <<>> /\ Last \in Nat
    <2>1. pc \in Replied
      BY DEF Replied
    <2>2. SameChain
      BY <2>1, ChainKept
    <2> QED
      BY <1>t, <2>1, <2>2, LastExists DEF PhaseOK, SameChain, SendTypeOK
  <1>1. /\ cursor.live /\ ~cursor.running /\ cursor.present
        /\ UNCHANGED <<session, asked, hops>>
    BY DEF Advance
  <1>2. IF cursor.claimed THEN who \in Users /\ pc = "held" ELSE who = "send" /\ pc = "cursor"
    BY <1>t, <1>1 DEF CursorOwned, PhaseOK
  <1>3. CASE pc' = "dispatch"
    <2>1. /\ cursor' = [cursor EXCEPT !.running = TRUE, !.present = FALSE,
                                      !.history = Append(@, Last)]
          /\ driver' = who
      BY <1>3 DEF Advance
    <2>2. /\ cursor' \in Cursors /\ cursor'.running /\ ~cursor'.present /\ cursor'.live
          /\ cursor'.claimed = cursor.claimed /\ cursor'.terminal = cursor.terminal
      <3>1. cursor \in Cursors /\ Append(cursor.history, Last) \in Seq(Nat)
        BY <1>t, <1>0 DEF SendTypeOK, Cursors
      <3>2. cursor' = [cursor EXCEPT !.running = TRUE, !.present = FALSE,
                                     !.history = Append(cursor.history, Last)]
        BY <2>1
      <3> QED
        BY <1>1, <3>1, <3>2 DEF Cursors
    <2>3. SendTypeOK'
      BY <1>t, <1>0, <1>1, <1>3, <2>2 DEF SendTypeOK, SessionOK, SameChain, Inside
    <2>4. CursorOwned'
      BY <1>t, <1>1, <1>2, <1>3, <2>1, <2>2 DEF CursorOwned, Inside
    <2>5. PhaseOK'
      BY <1>0, <1>3, <2>2 DEF PhaseOK, Replied
    <2> QED
      BY <2>3, <2>4, <2>5 DEF Control
  <1>4. CASE pc' # "dispatch"
    <2>1. PICK terminal \in {"Done", "Errored"} :
             /\ cursor' = [cursor EXCEPT !.present = FALSE, !.terminal = terminal]
             /\ driver' = driver
             /\ pc' = IF who # "send" THEN "held"
                      ELSE IF terminal = "Done" THEN "finish" ELSE "failed"
      BY <1>4 DEF Advance
    <2>2. /\ cursor' \in Cursors /\ ~cursor'.running /\ ~cursor'.present /\ cursor'.live
          /\ cursor'.claimed = cursor.claimed /\ cursor'.terminal = terminal
      BY <1>t, <1>1, <2>1 DEF SendTypeOK, Cursors
    <2>3. SendTypeOK'
      BY <1>t, <1>0, <1>1, <2>1, <2>2 DEF SendTypeOK, SessionOK, SameChain, Replied
    <2>4. CursorOwned'
      BY <1>t, <1>1, <1>2, <2>1, <2>2, UsersAssumption DEF CursorOwned
    <2>5. PhaseOK'
      BY <1>t, <1>0, <1>1, <1>2, <2>1, <2>2, UsersAssumption DEF PhaseOK, Replied, CursorOwned
    <2> QED
      BY <2>3, <2>4, <2>5 DEF Control
  <1> QED
    BY <1>3, <1>4

Setters(c) == {i \in 1 .. Len(c) : c[i].cookies # EmptyJar}

\* The responses that set a cookie can be counted.
LEMMA CookiesCounted ==
  ASSUME chain \in Seq(ChainEntries)
  PROVE  /\ CookiesSet \in Nat /\ IsFiniteSet(Setters(chain))
         /\ CookiesSet = Cardinality(Setters(chain))
  <1>1. DOMAIN chain = 1 .. Len(chain) /\ Len(chain) \in Int /\ 1 \in Int
    OBVIOUS
  <1>2. IsFiniteSet(1 .. Len(chain))
    BY <1>1, FS_Interval, Zenon
  <1>3. Setters(chain) \in SUBSET (1 .. Len(chain))
    BY DEF Setters
  <1>4. IsFiniteSet(Setters(chain))
    BY <1>2, <1>3, FS_Subset, Zenon
  <1>5. CookiesSet = Cardinality(Setters(chain))
    BY <1>1 DEF CookiesSet, Setters
  <1> QED
    BY <1>4, <1>5, FS_CardinalityType, Zenon

\* A reply adds one response, which holds its connection.
LEMMA ReplyChain ==
  ASSUME Control, NEW status, NEW target, NEW c \in BOOLEAN, NEW content,
         Reply(status, target, c, content), request.url.host \in Hosts
  PROVE  LET cookies == reply'.cookies
             e == [cookies |-> cookies, holds |-> TRUE, history |-> <<>>]
         IN  /\ cookies \in Jars
             /\ chain' = Append(chain, e) /\ chain' \in Seq(ChainEntries)
             /\ Len(chain') = Len(chain) + 1 /\ Len(chain) \in Nat
             /\ chain'[Len(chain')] = e
             /\ \A i \in 1 .. Len(chain) : chain'[i] = chain[i]
  <1> DEFINE cookies == reply'.cookies
             e == [cookies |-> cookies, holds |-> TRUE, history |-> <<>>]
  <1>1. CookiesSet + 1 \in Nat
    BY CookiesCounted DEF Control, SendTypeOK
  <1>2. cookies = IF c THEN [EmptyJar EXCEPT ![request.url.host] = CookiesSet + 1] ELSE EmptyJar
    BY DEF Reply
  <1>3. EmptyJar \in Jars
    BY DEF EmptyJar, Jars
  <1>4. cookies \in Jars
    BY <1>1, <1>2, <1>3 DEF Jars
  <1>5. chain' = Append(chain, e)
    BY <1>2 DEF Reply
  <1>6. e \in ChainEntries /\ chain \in Seq(ChainEntries)
    BY <1>4 DEF ChainEntries, Control, SendTypeOK
  <1> HIDE DEF e, cookies
  <1>7. /\ chain' \in Seq(ChainEntries) /\ Len(chain') = Len(chain) + 1 /\ Len(chain) \in Nat
        /\ chain'[Len(chain')] = e /\ \A i \in 1 .. Len(chain) : chain'[i] = chain[i]
    BY <1>5, <1>6
  <1> QED
    BY <1>4, <1>5, <1>7 DEF e, cookies

\* Control is kept by every step, as long as hosts and cookies are what they are.
LEMMA ControlStep ==
  ASSUME Control, [Next]_vars, pc = "wire" => request.url.host \in Hosts,
         pc = "resume" => reply.cookies \in Jars
  PROVE  Control'
  <1>t. SendTypeOK /\ CursorOwned /\ PhaseOK
    BY DEF Control
  <1>q. ASSUME UNCHANGED <<session, chain, cursor, driver, asked, offset, pc, hops>> PROVE Control'
    BY <1>t, <1>q DEF Control, SendTypeOK, SessionOK, CursorOwned, PhaseOK
  <1>1. ASSUME NEW p \in Mountable, Mount(p) PROVE Control'
    <2>1. /\ SessionOK' /\ UNCHANGED <<chain, cursor, driver, asked, offset, pc, hops>>
      BY <1>t, <1>1 DEF Mount, SendTypeOK, SessionOK
    <2> QED
      BY <1>t, <2>1 DEF Control, SendTypeOK, CursorOwned, PhaseOK
  <1>2. ASSUME NEW call \in Requests, Request(call) PROVE Control'
    <2>1. /\ pc = "idle" /\ pc' = "dispatch" /\ UNCHANGED <<session, chain, cursor, driver, hops>>
      BY <1>2 DEF Request
    <2>2. cursor = NoCursor
      BY <1>t, <2>1 DEF PhaseOK
    <2>3. /\ ~cursor.live /\ ~cursor.running /\ ~cursor.claimed /\ cursor.terminal # "Closed"
      BY <2>2 DEF NoCursor
    <2> QED
      BY <1>t, <2>1, <2>2, <2>3
      DEF Control, SendTypeOK, SessionOK, CursorOwned, PhaseOK, Inside, Replied
  <1>3. ASSUME Dispatch PROVE Control'
    <2>1. /\ pc = "dispatch" /\ pc' = "wire" /\ hops' = hops + 1
          /\ UNCHANGED <<session, chain, cursor, driver, asked>>
      BY <1>3 DEF Dispatch
    <2> QED
      BY <1>t, <2>1 DEF Control, SendTypeOK, SessionOK, CursorOwned, PhaseOK, Inside, Replied
  <1>4. ASSUME NoAdapterFound \/ SendFails PROVE Control'
    BY <1>4, ChainKept, FailKeepsControl DEF NoAdapterFound, SendFails
  <1>5. ASSUME NEW status \in Statuses, NEW target \in Targets \cup {NoTarget}, NEW c \in BOOLEAN,
               NEW content \in {"ok", "decode", "broken"}, Reply(status, target, c, content)
        PROVE  Control'
    <2>1. /\ pc = "wire" /\ UNCHANGED <<cursor, driver, asked, hops>>
          /\ pc' = IF asked.allow /\ ~Nested THEN "cursor" ELSE "peek"
          /\ session' = [session EXCEPT !.jar = MergeCookies(session.jar, reply'.cookies)]
      BY <1>5 DEF Reply
    <2>2. chain' \in Seq(ChainEntries) /\ chain' # <<>> /\ reply'.cookies \in Jars
      BY <1>5, <2>1, ReplyChain
    <2>3. SessionOK'
      <3>1. MergeCookies(session.jar, reply'.cookies) \in Jars
        BY <1>t, <2>2 DEF MergeCookies, Jars, SendTypeOK, SessionOK
      <3> QED
        BY <1>t, <2>1, <3>1 DEF SendTypeOK, SessionOK
    <2>4. SendTypeOK'
      BY <1>t, <2>1, <2>2, <2>3 DEF SendTypeOK, Replied
    <2>5. (asked.allow /\ ~Nested) \/ ~asked.allow \/ cursor.running
      BY <1>t DEF Nested, CursorOwned
    <2>6. CursorOwned'
      BY <1>t, <2>1, UsersAssumption DEF CursorOwned, Nested, Inside
    <2>7. PhaseOK'
      BY <1>t, <2>1, <2>2, <2>5 DEF PhaseOK, Replied
    <2> QED
      BY <2>4, <2>6, <2>7 DEF Control
  <1>6. ASSUME PeekNext PROVE Control'
    <2>1. SameChain
      BY <1>6, ChainKept
    <2>2. CASE FailSend
      BY <1>6, <2>1, <2>2, FailKeepsControl DEF PeekNext
    <2>3. CASE ~FailSend
      <3>1. /\ pc = "peek" /\ pc' = "content"
            /\ UNCHANGED <<session, cursor, driver, asked, hops>>
        BY <1>6, <2>3 DEF PeekNext
      <3> QED
        BY <1>t, <2>1, <3>1
        DEF Control, SendTypeOK, SessionOK, CursorOwned, PhaseOK, Inside, Replied, SameChain
    <2> QED
      BY <2>2, <2>3
  <1>7. ASSUME ReadContent PROVE Control'
    <2>1. /\ SameChain /\ pc = "content" /\ pc' = IF Nested THEN "resume" ELSE "done"
          /\ UNCHANGED <<session, cursor, driver, asked, hops>>
      BY <1>7, ChainKept DEF ReadContent
    <2>2. Nested <=> cursor.running
      BY <1>t, UsersAssumption DEF CursorOwned, Nested
    <2> QED
      BY <1>t, <2>1, <2>2
      DEF Control, SendTypeOK, SessionOK, CursorOwned, PhaseOK, Inside, Replied, SameChain
  <1>8. ASSUME ReadContentFails PROVE Control'
    BY <1>8, ChainKept, FailKeepsControl DEF ReadContentFails
  <1>9. ASSUME OpenOwnCursor \/ OpenSharedCursor PROVE Control'
    <2>1. PICK claimed \in BOOLEAN :
             /\ cursor' = FreshCursor(claimed) /\ ~cursor.live
             /\ IF claimed THEN pc = "done" /\ pc' = "held" /\ ~asked.allow
                ELSE pc = "cursor" /\ pc' = "cursor"
             /\ UNCHANGED <<session, chain, driver, asked, hops>>
      BY <1>9 DEF OpenOwnCursor, OpenSharedCursor
    <2>2. /\ cursor' \in Cursors /\ cursor'.live /\ ~cursor'.running /\ cursor'.claimed = claimed
          /\ cursor'.terminal = "Live"
      BY <2>1 DEF FreshCursor, Cursors
    <2>3. driver = NoValue
      <3>1. ~cursor.running
        BY <1>t, <2>1 DEF CursorOwned, NoCursor
      <3> QED
        BY <1>t, <3>1 DEF CursorOwned
    <2> QED
      BY <1>t, <2>1, <2>2, <2>3
      DEF Control, SendTypeOK, SessionOK, CursorOwned, PhaseOK, Inside, Replied
  <1>10. ASSUME SendAdvance PROVE Control'
    BY <1>10, AdvanceKeepsControl DEF SendAdvance
  <1>11. ASSUME Resume PROVE Control'
    <2>1. /\ pc = "resume" /\ driver' = NoValue /\ UNCHANGED <<chain, asked, hops>>
          /\ pc' = IF driver = "send" THEN "cursor" ELSE "held"
          /\ session' = [session EXCEPT !.jar = MergeCookies(session.jar, reply.cookies)]
          /\ cursor' = [cursor EXCEPT !.running = FALSE, !.present = TRUE, !.terminal = "Live"]
      BY <1>11 DEF Resume
    <2>2. SessionOK'
      <3>1. MergeCookies(session.jar, reply.cookies) \in Jars
        BY <1>t, <2>1 DEF MergeCookies, Jars, SendTypeOK, SessionOK
      <3> QED
        BY <1>t, <2>1, <3>1 DEF SendTypeOK, SessionOK
    <2>3. cursor.running /\ cursor.live
      BY <1>t, <2>1 DEF PhaseOK, CursorOwned
    <2>4. /\ cursor' \in Cursors /\ cursor'.live /\ ~cursor'.running
          /\ cursor'.claimed = cursor.claimed /\ cursor'.terminal = "Live"
      BY <1>t, <2>1, <2>3 DEF SendTypeOK, Cursors
    <2>5. pc' = IF cursor.claimed THEN "held" ELSE "cursor"
      BY <1>t, <2>1, <2>3, UsersAssumption DEF CursorOwned
    <2>6. SendTypeOK'
      BY <1>t, <2>1, <2>2, <2>4, <2>5 DEF SendTypeOK, Replied
    <2>7. CursorOwned'
      BY <1>t, <2>1, <2>3, <2>4, <2>5 DEF CursorOwned
    <2>8. PhaseOK'
      BY <1>t, <2>1, <2>3, <2>4, <2>5 DEF PhaseOK, Replied, CursorOwned
    <2> QED
      BY <2>6, <2>7, <2>8 DEF Control
  <1>12. ASSUME Finish PROVE Control'
    <2>1. /\ SameChain /\ pc = "finish" /\ pc' \in {"done", "failed"}
          /\ UNCHANGED <<session, cursor, driver, asked, hops>>
      BY <1>12, ChainKept DEF Finish
    <2>2. cursor.live /\ ~cursor.running /\ ~cursor.claimed
      BY <1>t, <2>1 DEF PhaseOK, CursorOwned, Inside
    <2> QED
      BY <1>t, <2>1, <2>2
      DEF Control, SendTypeOK, SessionOK, CursorOwned, PhaseOK, Inside, Replied, SameChain
  <1>13. ASSUME NEW u \in Users, UserNext(u) PROVE Control'
    BY <1>13, AdvanceKeepsControl DEF UserNext
  <1>14. ASSUME NEW u \in Users, UserNextStops(u) \/ UserBusy(u) PROVE Control'
    BY <1>14, <1>q DEF UserNextStops, UserBusy, Answer
  <1>15. ASSUME NEW u \in Users, UserClose(u) PROVE Control'
    <2>1. /\ cursor.live /\ cursor.claimed /\ ~cursor.running
          /\ cursor' = [cursor EXCEPT !.present = FALSE, !.terminal = "Closed"]
          /\ UNCHANGED <<session, pc, chain, driver, asked, offset, hops>>
      BY <1>15 DEF UserClose, Shared, Answer
    <2>2. /\ cursor' \in Cursors /\ cursor'.live /\ ~cursor'.running /\ ~cursor'.present
          /\ cursor'.claimed /\ cursor'.terminal = "Closed"
      BY <1>t, <2>1 DEF SendTypeOK, Cursors
    <2>3. pc = "held" /\ ~asked.allow /\ driver = NoValue
      BY <1>t, <2>1 DEF CursorOwned
    <2> QED
      BY <1>t, <2>1, <2>2, <2>3
      DEF Control, SendTypeOK, SessionOK, CursorOwned, PhaseOK, Replied
  <1>16. ASSUME UNCHANGED vars PROVE Control'
    BY <1>16, <1>q DEF vars
  <1> QED
    BY <1>1, <1>2, <1>3, <1>4, <1>5, <1>6, <1>7, <1>8, <1>9, <1>10, <1>11, <1>12, <1>13,
       <1>14, <1>15, <1>16 DEF Next, SendStep

----------------------------------------------------------------------------
(* The connections of the chain.                                           *)

\* Every step leaves at most the last response with its connection.
LEMMA HoldsStep ==
  ASSUME Control, OnlyLastHolds, [Next]_vars, pc = "wire" => request.url.host \in Hosts
  PROVE  OnlyLastHolds'
  <1>t. SendTypeOK /\ PhaseOK /\ chain \in Seq(ChainEntries) /\ Len(chain) \in Nat
    BY DEF Control, SendTypeOK
  <1>q. ASSUME SameChain, pc' \in {"dispatch", "wire"} => pc \in {"dispatch", "wire"}
        PROVE  OnlyLastHolds'
    BY <1>t, <1>q DEF SameChain, OnlyLastHolds
  <1>1. ASSUME NEW call \in Requests, Request(call) PROVE OnlyLastHolds'
    BY <1>t, <1>1 DEF Request, PhaseOK, OnlyLastHolds
  <1>2. ASSUME NEW status \in Statuses, NEW target \in Targets \cup {NoTarget}, NEW c \in BOOLEAN,
               NEW content \in {"ok", "decode", "broken"}, Reply(status, target, c, content)
        PROVE  OnlyLastHolds'
    <2>1. /\ Len(chain') = Len(chain) + 1
          /\ \A i \in 1 .. Len(chain) : chain'[i] = chain[i]
          /\ pc = "wire" /\ pc' \in {"cursor", "peek"}
      BY <1>2, ReplyChain DEF Reply
    <2> QED
      BY <1>t, <2>1 DEF OnlyLastHolds
  <1>3. ASSUME NEW who \in Users \cup {"send"}, Advance(who), pc \in {"cursor", "held"}
        PROVE  OnlyLastHolds'
    <2>1. SameChain /\ Last \in 1 .. Len(chain)
      BY <1>3, ChainKept, LastExists DEF Replied
    <2>2. CASE HopOutcome(cursor.history).kind = "done"
      <3>1. pc' # "dispatch" /\ pc' # "wire"
        BY <1>3, <2>2 DEF Advance
      <3> QED
        BY <1>q, <2>1, <3>1
    <2>3. CASE HopOutcome(cursor.history).kind # "done"
      <3> DEFINE s == [chain EXCEPT ![Last].history = cursor.history]
      <3>1. chain' = Released(s, Last)
        BY <1>3, <2>3 DEF Advance
      <3>2. s \in Seq(ChainEntries) /\ Len(s) = Len(chain)
        <4>1. cursor.history \in Seq(Nat) /\ chain \in Seq(ChainEntries)
          BY <1>t DEF SendTypeOK, Cursors
        <4> QED
          BY <2>1, <4>1, StampedEntry
      <3> HIDE DEF s
      <3>3. ~chain'[Last].holds
        BY <2>1, <3>1, <3>2, ReleasedEntry
      <3> QED
        BY <1>t, <2>1, <3>3 DEF SameChain, OnlyLastHolds, Last
    <2> QED
      BY <2>2, <2>3
  <1>4. ASSUME NoAdapterFound \/ SendFails \/ PeekNext \/ ReadContent \/ ReadContentFails \/ Finish
        PROVE  OnlyLastHolds'
    <2>1. SameChain
      BY <1>4, ChainKept DEF NoAdapterFound, SendFails
    <2>2. pc' \notin {"dispatch", "wire"}
      BY <1>4 DEF NoAdapterFound, SendFails, PeekNext, ReadContent, ReadContentFails, Finish,
         FailSend
    <2> QED
      BY <1>q, <2>1, <2>2
  <1>5. ASSUME UNCHANGED chain, pc' \in {"dispatch", "wire"} => pc \in {"dispatch", "wire"}
        PROVE  OnlyLastHolds'
    BY <1>5, <1>q, ChainKept
  <1>6. ASSUME Dispatch \/ OpenOwnCursor \/ OpenSharedCursor \/ Resume
               \/ (\E p \in Mountable : Mount(p))
               \/ (\E u \in Users : UserNextStops(u) \/ UserBusy(u) \/ UserClose(u))
               \/ UNCHANGED vars
        PROVE  OnlyLastHolds'
    BY <1>5, <1>6 DEF Dispatch, OpenOwnCursor, OpenSharedCursor, Resume, Mount, UserNextStops,
       UserBusy, UserClose, Answer, vars
  <1> QED
    BY <1>1, <1>2, <1>3, <1>4, <1>6 DEF Next, SendStep, SendAdvance, UserNext

----------------------------------------------------------------------------
(* The length of the chain and the histories of its responses.             *)

\* What an advance does to the cursor's history.
LEMMA AdvanceHistory ==
  ASSUME Control, NEW who, Advance(who)
  PROVE  /\ UNCHANGED <<session, asked, hops>>
         /\ \/ /\ pc' = "dispatch" /\ cursor'.history = Append(cursor.history, Last)
               /\ HopOutcome(cursor.history).kind = "next"
               /\ ~AtLimit(cursor.history)
            \/ /\ pc' \in {"held", "finish", "failed"} /\ cursor'.history = cursor.history
               /\ pc' = "finish" => HopOutcome(cursor.history).kind = "done" /\ chain' = chain
  <1>1. cursor \in Cursors
    BY DEF Control, SendTypeOK
  <1>2. HopOutcome(cursor.history).kind = "next" => ~AtLimit(cursor.history)
    BY DEF HopOutcome
  <1>3. CASE HopOutcome(cursor.history).kind = "next"
    <2>1. /\ pc' = "dispatch" /\ UNCHANGED <<session, asked, hops>>
          /\ cursor' = [cursor EXCEPT !.running = TRUE, !.present = FALSE,
                                      !.history = Append(@, Last)]
      BY <1>3 DEF Advance
    <2> QED
      BY <1>1, <1>2, <1>3, <2>1 DEF Cursors
  <1>4. CASE HopOutcome(cursor.history).kind # "next"
    <2>1. PICK terminal \in {"Done", "Errored"} :
             cursor' = [cursor EXCEPT !.present = FALSE, !.terminal = terminal]
      BY <1>4 DEF Advance
    <2>2. /\ UNCHANGED <<session, asked, hops>> /\ pc' \in {"held", "finish", "failed"}
          /\ pc' = "finish" => HopOutcome(cursor.history).kind = "done" /\ chain' = chain
      BY <1>4 DEF Advance
    <2>3. cursor'.history = cursor.history
      BY <1>1, <2>1 DEF Cursors
    <2> QED
      BY <2>2, <2>3
  <1> QED
    BY <1>3, <1>4

\* The steps that leave the histories of the cursor alone.
LEMMA HistoryKept ==
  ASSUME Control, SendStep \/ OpenSharedCursor \/ (\E u \in Users : UserNextStops(u)
            \/ UserBusy(u) \/ UserClose(u)) \/ UNCHANGED vars, ~SendAdvance
  PROVE  cursor'.history = cursor.history
  <1>1. cursor \in Cursors /\ (~cursor.live => cursor.history = <<>>)
    BY DEF Control, SendTypeOK, CursorOwned, NoCursor
  <1>2. CASE cursor' = cursor
    BY <1>2
  <1>3. CASE FailSend
    <2>1. cursor' = cursor \/ cursor' = [cursor EXCEPT !.running = FALSE, !.terminal = "Errored"]
      BY <1>3 DEF FailSend
    <2> QED
      BY <1>1, <2>1 DEF Cursors
  <1>4. CASE OpenOwnCursor \/ OpenSharedCursor
    BY <1>1, <1>4 DEF OpenOwnCursor, OpenSharedCursor, FreshCursor
  <1>5. CASE Resume
    <2>1. cursor' = [cursor EXCEPT !.running = FALSE, !.present = TRUE, !.terminal = "Live"]
      BY <1>5 DEF Resume
    <2> QED
      BY <1>1, <2>1 DEF Cursors
  <1>6. CASE \E u \in Users : UserClose(u)
    <2>1. cursor' = [cursor EXCEPT !.present = FALSE, !.terminal = "Closed"]
      BY <1>6 DEF UserClose
    <2> QED
      BY <1>1, <2>1 DEF Cursors
  <1> QED
    BY <1>2, <1>3, <1>4, <1>5, <1>6 DEF SendStep, Dispatch, NoAdapterFound, SendFails, Reply,
       PeekNext, ReadContent, ReadContentFails, Finish, UserNextStops, UserBusy, vars

\* Every request on the wire is paid for by the history of the cursor.
LEMMA BoundedStep ==
  ASSUME Control, Bounded, [Next]_vars
  PROVE  Bounded'
  <1>t. /\ cursor.history \in Seq(Nat) /\ Len(cursor.history) \in Nat /\ hops \in Nat
        /\ session.limit \in Nat
        /\ session = [adapters |-> session.adapters, jar |-> session.jar, limit |-> session.limit,
                      netrc |-> session.netrc, proxies |-> session.proxies,
                      stream |-> session.stream, mounts |-> session.mounts]
    BY DEF Control, SendTypeOK, SessionOK, Cursors
  <1>1. session'.limit = session.limit
    <2>1. \/ session' = session
          \/ \E jar : session' = [session EXCEPT !.jar = jar]
          \/ \E a, m : session' = [session EXCEPT !.adapters = a, !.mounts = m]
      BY DEF Next, SendStep, Mount, Request, Dispatch, NoAdapterFound, SendFails, Reply, PeekNext,
         ReadContent, ReadContentFails, OpenOwnCursor, OpenSharedCursor, SendAdvance, Advance,
         Resume, Finish, UserNext, UserNextStops, UserBusy, UserClose, Answer, vars
    <2> QED
      BY <1>t, <2>1
  <1>2. ASSUME NEW who, Advance(who) PROVE Bounded'
    <2>1. CASE pc' = "dispatch"
      <3>1. /\ cursor'.history = Append(cursor.history, Last) /\ hops' = hops
            /\ Len(cursor.history) < session.limit
        BY <1>2, <1>t, <2>1, AdvanceHistory DEF AtLimit
      <3>2. Len(cursor'.history) = Len(cursor.history) + 1
        BY <1>t, <3>1
      <3>3. hops <= Len(cursor.history) + 1
        BY <1>t DEF Bounded
      <3> QED
        BY <1>1, <1>t, <2>1, <3>1, <3>2, <3>3 DEF Bounded
    <2>2. CASE pc' # "dispatch"
      BY <1>1, <1>2, <1>t, <2>2, AdvanceHistory DEF Bounded
    <2> QED
      BY <2>1, <2>2
  <1>3. ASSUME NEW p \in Mountable, Mount(p) PROVE Bounded'
    BY <1>1, <1>3 DEF Mount, Bounded
  <1>4. ASSUME NEW call \in Requests, Request(call) PROVE Bounded'
    BY <1>1, <1>4 DEF Request, Bounded
  <1>5. ASSUME SendStep \/ OpenSharedCursor \/ (\E u \in Users : UserNextStops(u)
            \/ UserBusy(u) \/ UserClose(u)) \/ UNCHANGED vars, ~SendAdvance
        PROVE  Bounded'
    <2>1. cursor'.history = cursor.history
      BY <1>5, HistoryKept
    <2>2. CASE Dispatch
      BY <1>1, <1>t, <2>1, <2>2 DEF Dispatch, Bounded
    <2>3. CASE ~Dispatch
      <3>1. hops' = hops /\ (pc' \in {"idle", "dispatch"} => pc' = pc)
        BY <1>5, <2>3 DEF SendStep, OpenSharedCursor, UserNextStops, UserBusy, UserClose, Answer, vars,
           NoAdapterFound, SendFails, Reply, PeekNext, ReadContent, ReadContentFails,
           OpenOwnCursor, Resume, Finish, FailSend
      <3> QED
        BY <1>1, <1>t, <2>1, <3>1 DEF Bounded
    <2> QED
      BY <2>2, <2>3
  <1> QED
    BY <1>2, <1>3, <1>4, <1>5 DEF Next, SendAdvance, UserNext

\* Every step keeps the histories of a followed chain.
LEMMA HistoriesStep ==
  ASSUME Control, Control', Histories, [Next]_vars, pc = "wire" => request.url.host \in Hosts
  PROVE  Histories'
  <1>t. /\ SendTypeOK /\ CursorOwned /\ PhaseOK /\ chain \in Seq(ChainEntries)
        /\ Len(chain) \in Nat
    BY DEF Control, SendTypeOK
  <1>n. (asked'.allow /\ pc' \in {"idle", "failed", "held"}) \/ ~asked'.allow => Histories'
    BY DEF Histories, Inside
  <1>h. pc' = "held" => ~asked'.allow
    BY DEF Control, PhaseOK, CursorOwned
  <1>u. ASSUME asked' = asked, pc' = pc, Len(chain') = Len(chain), cursor'.history = cursor.history,
               \A i \in 1 .. Len(chain) : chain'[i].history = chain[i].history
        PROVE  Histories'
    <2>1. pc \in {"peek", "content", "resume", "cursor", "finish"} => Len(chain) \in 1 .. Len(chain)
      BY <1>t DEF PhaseOK, Replied
    <2> QED
      BY <1>t, <1>u, <2>1 DEF Histories
  <1>1. ASSUME NEW call \in Requests, Request(call) PROVE Histories'
    <2>1. /\ pc' = "dispatch" /\ chain' = <<>> /\ cursor' = NoCursor
      BY <1>t, <1>1 DEF Request, PhaseOK
    <2>2. cursor'.history = <<>> /\ Past(1) = <<>> /\ Len(chain') = 0
      BY <2>1, PastSteps DEF NoCursor
    <2> QED
      BY <2>1, <2>2 DEF Histories
  <1>2. ASSUME NEW status \in Statuses, NEW target \in Targets \cup {NoTarget}, NEW c \in BOOLEAN,
               NEW content \in {"ok", "decode", "broken"}, Reply(status, target, c, content)
        PROVE  Histories'
    <2>1. /\ Len(chain') = Len(chain) + 1 /\ chain'[Len(chain')].history = <<>>
          /\ \A i \in 1 .. Len(chain) : chain'[i] = chain[i]
          /\ pc = "wire" /\ pc' \in {"cursor", "peek"} /\ asked' = asked /\ cursor' = cursor
      BY <1>2, ReplyChain DEF Reply
    <2> QED
      BY <1>t, <2>1 DEF Histories
  <1>3. ASSUME Dispatch \/ Resume \/ PeekNext \/ ReadContent, pc' \notin {"failed", "held", "done"}
        PROVE  Histories'
    <2>1. /\ cursor'.history = cursor.history /\ asked' = asked
          /\ \/ pc = "dispatch" /\ pc' = "wire"
             \/ pc = "resume" /\ pc' = "cursor"
             \/ pc = "peek" /\ pc' = "content"
             \/ pc = "content" /\ pc' = "resume"
      <3>1. cursor'.history = cursor.history
        BY <1>3, HistoryKept DEF SendStep, Dispatch, Resume, PeekNext, ReadContent, SendAdvance
      <3> QED
        BY <1>3, <3>1 DEF Dispatch, Resume, PeekNext, ReadContent, FailSend
    <2>2. /\ Len(chain') = Len(chain)
          /\ \A i \in 1 .. Len(chain) : chain'[i].history = chain[i].history
      <3>1. CASE chain' = chain
        BY <3>1
      <3>2. CASE chain' # chain
        <4>1. chain' = Released(chain, Last) /\ pc \in Replied
          BY <1>3, <3>2 DEF Dispatch, Resume, PeekNext, ReadContent, Replied
        <4> QED
          BY <1>t, <4>1, LastExists, ReleasedEntry
      <3> QED
        BY <3>1, <3>2
    <2>3. pc' # "wire" => Len(chain) \in 1 .. Len(chain)
      BY <1>t, <2>1 DEF PhaseOK, Replied
    <2> QED
      BY <1>t, <2>1, <2>2, <2>3 DEF Histories, Inside
  <1>4. ASSUME ReadContent, pc' = "done" PROVE Histories'
    <2>1. ~Nested /\ pc = "content" /\ asked' = asked
      BY <1>4 DEF ReadContent
    <2>2. ~asked.allow
      BY <1>t, <2>1, UsersAssumption DEF PhaseOK, CursorOwned, Nested
    <2> QED
      BY <1>n, <2>1, <2>2
  <1>5. ASSUME SendAdvance PROVE Histories'
    <2>1. Advance("send") /\ pc = "cursor" /\ asked.allow /\ asked' = asked
      BY <1>t, <1>5, AdvanceHistory DEF SendAdvance, PhaseOK
    <2>2. Last \in 1 .. Len(chain) /\ Last = Len(chain) /\ cursor.history = Past(Last)
          /\ cursor.history \in Seq(Nat) /\ chain[Last].history = <<>>
          /\ \A i \in 1 .. Len(chain) - 1 : chain[i].history = Past(i)
      BY <1>t, <2>1, LastExists DEF Histories, Replied, SendTypeOK, Cursors, Last
    <2>3. CASE pc' = "dispatch"
      <3> DEFINE s == [chain EXCEPT ![Last].history = cursor.history]
      <3>1. /\ cursor'.history = Append(cursor.history, Last)
            /\ HopOutcome(cursor.history).kind = "next"
        BY <2>1, <2>3, AdvanceHistory
      <3>2. cursor'.history = Past(Last + 1)
        <4>1. Last \in Nat /\ Last > 0
          BY <1>t, <2>2
        <4>2. Append(Past(Last), Last) = Past(Last + 1)
          BY <4>1, PastSteps
        <4> QED
          BY <2>2, <3>1, <4>2
      <3>3. chain' = Released(s, Last)
        BY <2>1, <3>1 DEF Advance
      <3>4. /\ s \in Seq(ChainEntries) /\ Len(s) = Len(chain) /\ s[Last].history = Past(Last)
            /\ \A j \in 1 .. Len(chain) : j # Last => s[j] = chain[j]
        BY <1>t, <2>2, StampedEntry
      <3> HIDE DEF s
      <3>5. /\ Len(chain') = Len(s)
            /\ \A j \in 1 .. Len(s) : chain'[j].history = s[j].history
        BY <2>2, <3>3, <3>4, ReleasedEntry
      <3>6. \A j \in 1 .. Len(chain) : chain'[j].history = Past(j)
        BY <1>t, <2>2, <3>4, <3>5
      <3> QED
        BY <1>t, <2>2, <2>3, <3>2, <3>4, <3>5, <3>6 DEF Histories
    <2>4. CASE pc' = "finish"
      <3>1. cursor'.history = cursor.history /\ chain' = chain
        BY <2>1, <2>4, AdvanceHistory
      <3> QED
        BY <2>2, <2>4, <3>1 DEF Histories, Inside
    <2>5. CASE pc' \in {"held", "failed"}
      BY <1>n, <1>h, <2>5
    <2> QED
      BY <2>1, <2>3, <2>4, <2>5, AdvanceHistory
  <1>6. ASSUME Finish PROVE Histories'
    <2>1. /\ pc = "finish" /\ pc' \in {"done", "failed"} /\ asked' = asked /\ asked.allow
      BY <1>t, <1>6 DEF Finish, PhaseOK
    <2>2. /\ Last \in 1 .. Len(chain) /\ Last = Len(chain) /\ chain[Last].history = <<>>
          /\ \A i \in 1 .. Len(chain) - 1 : chain[i].history = Past(i)
      BY <1>t, <2>1, LastExists DEF Histories, Replied, Last
    <2>3. Past(Last) \in Seq(Nat) /\ Past(1) = <<>>
      BY <1>t, <2>2, PastSteps
    <2> DEFINE whole == IF Last = 1 THEN chain ELSE [chain EXCEPT ![Last].history = Past(Last)]
    <2>4. /\ whole \in Seq(ChainEntries) /\ Len(whole) = Len(chain)
          /\ \A i \in 1 .. Len(chain) : whole[i].history = Past(i)
      <3>1. CASE Last = 1
        <4>1. whole = chain /\ Len(chain) = 1 /\ chain[1].history = Past(1)
          BY <2>2, <2>3, <3>1
        <4>2. \A i \in 1 .. Len(chain) : i = 1
          BY <4>1
        <4> QED
          BY <1>t, <4>1, <4>2
      <3>2. CASE Last # 1
        BY <1>t, <2>2, <2>3, <3>2, StampedEntry
      <3> QED
        BY <3>1, <3>2
    <2>5. chain' = whole \/ chain' = Released(whole, Last)
      BY <1>6 DEF Finish
    <2> HIDE DEF whole
    <2>6. Len(chain') = Len(chain) /\ \A i \in 1 .. Len(chain) : chain'[i].history = Past(i)
      BY <2>2, <2>4, <2>5, ReleasedEntry
    <2> QED
      BY <2>1, <2>6 DEF Histories, Inside
  <1>7. ASSUME OpenOwnCursor \/ UNCHANGED vars PROVE Histories'
    <2>1. cursor'.history = cursor.history
      BY <1>7, HistoryKept DEF SendStep, OpenOwnCursor, SendAdvance, Advance, vars
    <2> QED
      BY <1>7, <1>u, <2>1 DEF OpenOwnCursor, vars
  <1>8. ASSUME NoAdapterFound \/ SendFails \/ ReadContentFails \/ (PeekNext /\ FailSend)
        PROVE  Histories'
    <2>1. pc' \in {"failed", "held"}
      BY <1>8 DEF NoAdapterFound, SendFails, ReadContentFails, FailSend
    <2> QED
      BY <1>n, <1>h, <2>1
  <1>9. ASSUME OpenSharedCursor \/ (\E p \in Mountable : Mount(p)) PROVE Histories'
    BY <1>9, <1>n, <1>h DEF OpenSharedCursor, Mount
  <1>10. ASSUME NEW u \in Users, UserNext(u) \/ UserNextStops(u) \/ UserBusy(u) \/ UserClose(u)
         PROVE  Histories'
    <2>1. cursor.claimed /\ asked' = asked
      BY <1>10 DEF UserNext, UserNextStops, UserBusy, UserClose, Shared, Answer, Advance
    <2> QED
      BY <1>t, <1>n, <2>1 DEF CursorOwned
  <1>11. ASSUME PeekNext \/ ReadContent \/ Resume \/ Dispatch PROVE Histories'
    BY <1>3, <1>4, <1>8, <1>n, <1>h, <1>11 DEF PeekNext, ReadContent, Resume, Dispatch
  <1> QED
    BY <1>1, <1>2, <1>5, <1>6, <1>7, <1>8, <1>9, <1>10, <1>11 DEF Next, SendStep

----------------------------------------------------------------------------
(* What a request carries.                                                 *)

\* The other jar's cookies win, and nothing of the first is lost.
LEMMA MergedJar ==
  ASSUME NEW jar \in Jars, NEW other \in Jars
  PROVE  /\ MergeCookies(jar, other) \in Jars
         /\ \A h \in Hosts : /\ MergeCookies(jar, other)[h] >= other[h]
                             /\ other[h] = 0 => MergeCookies(jar, other)[h] = jar[h]
                             /\ other[h] # 0 => MergeCookies(jar, other)[h] = other[h]
  BY DEF MergeCookies, Jars

\* A prepared request carries what belongs to its own host.
LEMMA PreparedOK ==
  ASSUME session.jar \in Jars, NEW call \in Requests
  PROVE  RequestOK(Prepare(call))
  <1> DEFINE jar == MergeCookies(EmptyJar, session.jar)
             r == Prepare(call)
  <1>1. jar \in Jars
    BY MergedJar DEF EmptyJar, Jars
  <1>2. /\ call.url.host \in Hosts
        /\ call.body \in {"none", "bytes", "file", "pipe", "generator"}
    BY RequestsAssumption
  <1>3. /\ r.url = call.url /\ r.body = call.body /\ r.framing = FramingOf(call.body)
        /\ r.jar = jar /\ r.cookie = jar[call.url.host] /\ r.proxyAuth = FALSE
        /\ r.auth \in {NoHost, call.url.host}
    BY DEF Prepare
  <1> HIDE DEF r, jar
  <1>4. r.body = "none" <=> r.framing = "none"
    BY <1>2, <1>3 DEF FramingOf
  <1> QED
    BY <1>1, <1>2, <1>3, <1>4 DEF RequestOK, Jars, r

\* So does the request of the next hop, and its body is where it started.
LEMMA NextOK ==
  ASSUME RequestOK(request), session.jar \in Jars, reply.cookies \in Jars,
         reply.url = request.url, RedirectTarget(reply) # NoTarget => reply.target.host \in Hosts,
         NEW history, HopOutcome(history).kind = "next"
  PROVE  LET n == HopOutcome(history).req
         IN  /\ RequestOK(n)
             /\ n.cookie >= session.jar[n.url.host]
             /\ (n.body # "none" /\ n.position = "known")
                   => OffsetAfter(HopOutcome(history)) = "start"
  <1> DEFINE n == NextRequest(request, reply, session.jar, session.netrc, asked.proxies)
             jar == MergeCookies(MergeCookies(request.jar, reply.cookies), session.jar)
             url == ResolveTarget(reply.target, reply.url)
  <1>1. HopOutcome(history) = [kind |-> "next", req |-> n] /\ RedirectTarget(reply) # NoTarget
    BY DEF HopOutcome
  <1>2. url.host \in Hosts
    BY <1>1 DEF ResolveTarget, RequestOK
  <1>3. jar \in Jars /\ jar[url.host] >= session.jar[url.host]
    <2> DEFINE own == MergeCookies(request.jar, reply.cookies)
    <2>1. own \in Jars
      BY MergedJar DEF RequestOK
    <2> HIDE DEF own, url
    <2>2. /\ MergeCookies(own, session.jar) \in Jars
          /\ \A h \in Hosts : MergeCookies(own, session.jar)[h] >= session.jar[h]
      BY <2>1 DEF MergeCookies, Jars
    <2> QED
      BY <1>2, <2>2 DEF own
  <1>4. /\ n.url = url /\ n.jar = jar /\ n.cookie = jar[url.host]
        /\ n.body = IF KeepsBody(reply.status) THEN request.body ELSE "none"
        /\ n.framing = IF KeepsBody(reply.status) THEN request.framing ELSE "none"
        /\ n.auth = RebuildAuth(request, reply.url, url, session.netrc)
        /\ n.proxyAuth = RebuildProxyAuth(url, asked.proxies)
    BY DEF NextRequest
  <1> HIDE DEF n, jar, url
  <1>5. n.auth \in {NoHost, n.url.host}
    BY <1>4 DEF RebuildAuth, RequestOK
  <1>6. n.proxyAuth => n.url.scheme # "https"
    BY <1>4 DEF RebuildProxyAuth
  <1>7. n.body = "none" <=> n.framing = "none"
    BY <1>4 DEF RequestOK
  <1>8. RequestOK(n)
    BY <1>2, <1>3, <1>4, <1>5, <1>6, <1>7 DEF RequestOK, Jars
  <1>9. (n.body # "none" /\ n.position = "known") => OffsetAfter(HopOutcome(history)) = "start"
    BY <1>1, <1>7 DEF OffsetAfter, NeedsRewind
  <1> QED
    BY <1>1, <1>3, <1>4, <1>8, <1>9

\* Every step leaves a request with what belongs to its own host.
LEMMA HopOwnedStep ==
  ASSUME Control, HopOwned, [Next]_vars, pc \in Replied => reply.cookies \in Jars
  PROVE  HopOwned'
  <1>t. /\ SendTypeOK /\ CursorOwned /\ PhaseOK /\ session.jar \in Jars /\ cursor \in Cursors
    BY DEF Control, SendTypeOK, SessionOK
  <1>k. ASSUME UNCHANGED <<request, reply>>, pc # "idle", pc' \notin {"idle", "dispatch", "wire"},
               Current' => Current
        PROVE  HopOwned'
    BY <1>k DEF HopOwned
  <1>1. ASSUME NEW call \in Requests, Request(call) PROVE HopOwned'
    <2>1. /\ request' = Prepare(call) /\ pc' = "dispatch" /\ offset' = "start"
      BY <1>t, <1>1 DEF Request, PhaseOK
    <2>2. RequestOK(request')
      BY <1>t, <2>1, PreparedOK
    <2> QED
      BY <2>1, <2>2 DEF HopOwned, Current
  <1>2. ASSUME Dispatch PROVE HopOwned'
    <2>1. /\ pc = "dispatch" /\ pc' = "wire" /\ request' = request /\ reply' = reply
          /\ wire'.req = request /\ wire'.from = offset
      BY <1>2 DEF Dispatch
    <2> QED
      BY <2>1 DEF HopOwned, Current
  <1>3. ASSUME NEW status \in Statuses, NEW target \in Targets \cup {NoTarget}, NEW c \in BOOLEAN,
               NEW content \in {"ok", "decode", "broken"}, Reply(status, target, c, content)
        PROVE  HopOwned'
    <2>1. /\ pc = "wire" /\ pc' \in {"cursor", "peek"} /\ request' = request
          /\ reply'.url = request.url /\ reply'.status = status /\ reply'.target = target
      BY <1>3 DEF Reply
    <2>2. RedirectTarget(reply') # NoTarget => reply'.target.host \in Hosts
      BY <2>1, TargetsAssumption DEF RedirectTarget
    <2> QED
      BY <2>1, <2>2 DEF HopOwned, Current
  <1>4. ASSUME NEW who, Advance(who), pc \in {"cursor", "held"} PROVE HopOwned'
    <2>1. Current /\ reply.cookies \in Jars
      BY <1>4 DEF Advance, Current, Replied
    <2>2. CASE pc' = "dispatch"
      <3>1. /\ HopOutcome(cursor.history).kind = "next"
            /\ request' = HopOutcome(cursor.history).req
            /\ offset' = OffsetAfter(HopOutcome(cursor.history))
        BY <2>2, <1>4 DEF Advance
      <3>2. /\ RequestOK(request) /\ reply.url = request.url
            /\ RedirectTarget(reply) # NoTarget => reply.target.host \in Hosts
        BY <1>4, <2>1 DEF HopOwned
      <3>3. /\ RequestOK(request')
            /\ (request'.body # "none" /\ request'.position = "known") => offset' = "start"
        BY <1>t, <2>1, <3>1, <3>2, NextOK
      <3> QED
        BY <2>2, <3>3 DEF HopOwned, Current
    <2>3. CASE pc' # "dispatch"
      <3>1. PICK terminal \in {"Done", "Errored"} :
               cursor' = [cursor EXCEPT !.present = FALSE, !.terminal = terminal]
        BY <1>4, <2>3 DEF Advance
      <3>2. UNCHANGED <<request, reply>> /\ pc' \in {"held", "finish", "failed"}
        BY <1>4, <2>3 DEF Advance
      <3> QED
        BY <1>k, <1>4, <2>1, <3>2
    <2> QED
      BY <2>2, <2>3
  <1>5. ASSUME NoAdapterFound \/ SendFails \/ ReadContentFails \/ (PeekNext /\ FailSend)
        PROVE  HopOwned'
    <2>1. /\ UNCHANGED <<request, reply>> /\ pc \in {"dispatch", "wire", "content", "peek"}
          /\ FailSend
      BY <1>5 DEF NoAdapterFound, SendFails, ReadContentFails, PeekNext
    <2>2. ~Current' /\ pc' \in {"held", "failed"}
      <3>1. CASE Nested /\ driver # "send"
        <4>1. cursor' = [cursor EXCEPT !.running = FALSE, !.terminal = "Errored"]
              /\ ~cursor.present /\ pc' = "held"
          BY <1>t, <2>1, <3>1 DEF FailSend, CursorOwned, Nested
        <4>2. ~cursor'.present
          BY <1>t, <4>1 DEF Cursors
        <4> QED
          BY <4>1, <4>2 DEF Current
      <3>2. CASE ~(Nested /\ driver # "send")
        BY <2>1, <3>2 DEF FailSend, Current
      <3> QED
        BY <3>1, <3>2
    <2> QED
      BY <1>k, <2>1, <2>2
  <1>6. ASSUME PeekNext \/ ReadContent \/ Resume \/ Finish \/ OpenOwnCursor \/ OpenSharedCursor
        PROVE  HopOwned'
    <2>1. CASE PeekNext /\ FailSend
      BY <1>5, <2>1
    <2>2. CASE ~(PeekNext /\ FailSend)
      <3>1. /\ UNCHANGED <<request, reply>> /\ pc' \notin {"idle", "dispatch", "wire"}
            /\ pc \in {"peek", "content", "resume", "finish", "cursor", "done"}
        BY <1>6, <2>2 DEF PeekNext, ReadContent, Resume, Finish, OpenOwnCursor, OpenSharedCursor
      <3> QED
        BY <1>k, <3>1 DEF Current
    <2> QED
      BY <2>1, <2>2
  <1>7. ASSUME (\E p \in Mountable : Mount(p)) \/ UNCHANGED vars
               \/ (\E u \in Users : UserNextStops(u) \/ UserBusy(u))
        PROVE  HopOwned'
    <2>1. UNCHANGED <<request, reply, pc, offset, wire, cursor>>
      BY <1>7 DEF Mount, UserNextStops, UserBusy, Answer, vars
    <2> QED
      BY <2>1 DEF HopOwned, Current
  <1>8. ASSUME NEW u \in Users, UserClose(u) PROVE HopOwned'
    <2>1. /\ cursor.claimed /\ ~cursor.running /\ UNCHANGED <<request, reply, pc>>
          /\ cursor' = [cursor EXCEPT !.present = FALSE, !.terminal = "Closed"]
      BY <1>8 DEF UserClose, Shared, Answer
    <2>2. pc = "held" /\ ~cursor'.present
      BY <1>t, <2>1 DEF CursorOwned, Cursors
    <2> QED
      BY <1>k, <2>1, <2>2 DEF Current
  <1> QED
    BY <1>1, <1>2, <1>3, <1>4, <1>5, <1>6, <1>7, <1>8
    DEF Next, SendStep, SendAdvance, UserNext

----------------------------------------------------------------------------
(* How the cookies of a chain are ordered.                                 *)

\* The same responses set the same number of cookies.
LEMMA CountKept ==
  ASSUME chain \in Seq(ChainEntries), SameChain
  PROVE  CookiesSet' = CookiesSet
  <1>1. DOMAIN chain = 1 .. Len(chain) /\ DOMAIN chain' = 1 .. Len(chain)
    BY DEF SameChain
  <1>2. \A i \in 1 .. Len(chain) : chain'[i].cookies = chain[i].cookies
    BY DEF SameChain
  <1>3. {i \in DOMAIN chain' : chain'[i].cookies # EmptyJar}
            = {i \in DOMAIN chain : chain[i].cookies # EmptyJar}
    BY <1>1, <1>2
  <1> QED
    BY <1>3, Zenon DEF CookiesSet, EmptyJar

\* A reply with a cookie is one more, and its version is the new count.
LEMMA CountReply ==
  ASSUME Control, NEW status, NEW target, NEW c \in BOOLEAN, NEW content,
         Reply(status, target, c, content), request.url.host \in Hosts
  PROVE  /\ CookiesSet \in Nat /\ CookiesSet' \in Nat /\ CookiesSet' >= CookiesSet
         /\ \A h \in Hosts : reply'.cookies[h] # 0 =>
               reply'.cookies[h] = CookiesSet + 1 /\ CookiesSet' = CookiesSet + 1
  <1> DEFINE n == Len(chain) + 1
  <1>1. /\ chain \in Seq(ChainEntries) /\ chain' \in Seq(ChainEntries) /\ Len(chain) \in Nat
        /\ Len(chain') = n /\ chain'[n].cookies = reply'.cookies
        /\ \A i \in 1 .. Len(chain) : chain'[i] = chain[i]
    BY ReplyChain DEF Control, SendTypeOK
  <1>2. /\ CookiesSet \in Nat /\ IsFiniteSet(Setters(chain))
        /\ CookiesSet = Cardinality(Setters(chain))
    BY <1>1, CookiesCounted
  <1>3. CookiesSet' = Cardinality(Setters(chain'))
    <2>1. DOMAIN chain' = 1 .. Len(chain')
      BY <1>1
    <2>2. {i \in DOMAIN chain' : chain'[i].cookies # EmptyJar} = Setters(chain')
      BY <2>1 DEF Setters
    <2> QED
      BY <2>2, Zenon DEF CookiesSet, EmptyJar
  <1>4. reply'.cookies = IF c THEN [EmptyJar EXCEPT ![request.url.host] = CookiesSet + 1]
                         ELSE EmptyJar
    BY DEF Reply
  <1>5. CASE c
    <2>1. /\ reply'.cookies[request.url.host] = CookiesSet + 1
          /\ \A h \in Hosts : h # request.url.host => reply'.cookies[h] = 0
          /\ EmptyJar[request.url.host] = 0
      BY <1>4, <1>5 DEF EmptyJar
    <2>2. reply'.cookies # EmptyJar
      BY <1>2, <2>1
    <2>3. Setters(chain') = Setters(chain) \cup {n} /\ n \notin Setters(chain)
      BY <1>1, <2>2 DEF Setters
    <2>4. Cardinality(Setters(chain) \cup {n}) = Cardinality(Setters(chain)) + 1
      BY <1>2, <2>3, FS_AddElement, Zenon
    <2>5. CookiesSet' = CookiesSet + 1
      BY <1>2, <1>3, <2>3, <2>4, Zenon
    <2> QED
      BY <1>2, <2>1, <2>5
  <1>6. CASE ~c
    <2>1. reply'.cookies = EmptyJar /\ \A h \in Hosts : reply'.cookies[h] = 0
      BY <1>4, <1>6 DEF EmptyJar
    <2>2. Setters(chain') = Setters(chain)
      BY <1>1, <2>1 DEF Setters
    <2> QED
      BY <1>2, <1>3, <2>1, <2>2
  <1> QED
    BY <1>5, <1>6

\* Every step keeps the cookies of the chain no newer than the session's.
LEMMA CookiesStep ==
  ASSUME Control, HopOwned, CookiesOrdered, [Next]_vars
  PROVE  CookiesOrdered'
  <1>t. /\ SendTypeOK /\ CursorOwned /\ PhaseOK /\ SessionOK /\ session.jar \in Jars
        /\ chain \in Seq(ChainEntries) /\ Len(chain) \in Nat
    BY DEF Control, SendTypeOK, SessionOK
  \* The steps that keep the jar and the responses.
  <1>k. ASSUME SameChain, session'.jar = session.jar, UNCHANGED reply,
               pc' \in {"dispatch", "wire"} =>
                  \A i \in 1 .. Len(chain) : chain[i].cookies[request'.url.host] <= request'.cookie
        PROVE  CookiesOrdered'
    <2>1. CookiesSet' = CookiesSet
      BY <1>t, <1>k, CountKept
    <2>2. /\ Len(chain') = Len(chain) /\ (chain' # <<>> => chain # <<>>)
          /\ \A i \in 1 .. Len(chain) : chain'[i].cookies = chain[i].cookies
      BY <1>t, <1>k DEF SameChain
    <2> QED
      BY <1>k, <2>1, <2>2 DEF CookiesOrdered
  <1>1. ASSUME NEW p \in Mountable, Mount(p) PROVE CookiesOrdered'
    <2>1. SameChain /\ UNCHANGED <<reply, pc>> /\ pc = "idle"
      BY <1>1, ChainKept DEF Mount
    <2>2. session'.jar = session.jar
      BY <1>t, <1>1 DEF Mount, SessionOK
    <2> QED
      BY <1>k, <2>1, <2>2
  <1>2. ASSUME NEW call \in Requests, Request(call) PROVE CookiesOrdered'
    <2>1. SameChain /\ UNCHANGED <<reply, session>> /\ pc = "idle"
      BY <1>2, ChainKept DEF Request
    <2>2. Len(chain) = 0
      BY <1>t, <2>1 DEF PhaseOK
    <2> QED
      BY <1>k, <2>1, <2>2
  <1>3. ASSUME NEW status \in Statuses, NEW target \in Targets \cup {NoTarget}, NEW c \in BOOLEAN,
               NEW content \in {"ok", "decode", "broken"}, Reply(status, target, c, content)
        PROVE  CookiesOrdered'
    <2> DEFINE cookies == reply'.cookies
    <2>1. /\ pc = "wire" /\ pc' \in {"cursor", "peek"}
          /\ session' = [session EXCEPT !.jar = MergeCookies(session.jar, cookies)]
      BY <1>3 DEF Reply
    <2>2. request.url.host \in Hosts
      BY <2>1 DEF HopOwned, RequestOK
    <2>3. /\ cookies \in Jars /\ Len(chain') = Len(chain) + 1
          /\ chain'[Len(chain')].cookies = cookies
          /\ \A i \in 1 .. Len(chain) : chain'[i] = chain[i]
      BY <1>3, <2>2, ReplyChain
    <2>4. /\ CookiesSet \in Nat /\ CookiesSet' \in Nat /\ CookiesSet' >= CookiesSet
          /\ \A h \in Hosts : cookies[h] # 0 =>
                cookies[h] = CookiesSet + 1 /\ CookiesSet' = CookiesSet + 1
      BY <1>3, <2>2, CountReply
    <2> HIDE DEF cookies
    <2>5. session'.jar = MergeCookies(session.jar, cookies)
      BY <1>t, <2>1 DEF SessionOK
    <2>6. \A h \in Hosts : /\ cookies[h] = 0 => session'.jar[h] = session.jar[h]
                           /\ cookies[h] # 0 => session'.jar[h] = cookies[h]
      BY <2>5 DEF MergeCookies
    <2>7. \A i \in 1 .. Len(chain), h \in Hosts :
             chain'[i].cookies[h] <= session'.jar[h] /\ chain'[i].cookies[h] <= CookiesSet'
      <3> SUFFICES ASSUME NEW i \in 1 .. Len(chain), NEW h \in Hosts
                   PROVE  /\ chain'[i].cookies[h] <= session'.jar[h]
                          /\ chain'[i].cookies[h] <= CookiesSet'
        OBVIOUS
      <3>1. /\ chain[i].cookies[h] <= session.jar[h] /\ chain[i].cookies[h] <= CookiesSet
            /\ chain'[i].cookies[h] = chain[i].cookies[h]
        BY <2>3 DEF CookiesOrdered
      <3>2. chain[i].cookies[h] \in Nat /\ session.jar[h] \in Nat
        <4>1. chain[i] \in ChainEntries
          BY <1>t
        <4> QED
          BY <1>t, <4>1 DEF Jars, ChainEntries
      <3> QED
        BY <2>4, <2>6, <3>1, <3>2
    <2>8. \A h \in Hosts : cookies[h] <= session'.jar[h] /\ cookies[h] <= CookiesSet'
      <3> SUFFICES ASSUME NEW h \in Hosts
                   PROVE  cookies[h] <= session'.jar[h] /\ cookies[h] <= CookiesSet'
        OBVIOUS
      <3>1. cookies[h] \in Nat /\ session.jar[h] \in Nat
        BY <1>t, <2>3 DEF Jars
      <3> QED
        BY <2>4, <2>6, <3>1
    <2>9. \A i \in 1 .. Len(chain') : i \in 1 .. Len(chain) \/ i = Len(chain')
      BY <1>t, <2>3
    <2>10. \A i \in 1 .. Len(chain'), h \in Hosts :
              chain'[i].cookies[h] <= session'.jar[h] /\ chain'[i].cookies[h] <= CookiesSet'
      BY <2>3, <2>7, <2>8, <2>9
    <2>11. reply'.cookies \in Jars
           /\ \A h \in Hosts : reply'.cookies[h] # 0 => session'.jar[h] = reply'.cookies[h]
      BY <2>3, <2>6 DEF cookies
    <2> QED
      BY <2>1, <2>10, <2>11 DEF CookiesOrdered
  <1>4. ASSUME NEW who \in Users \cup {"send"}, Advance(who), pc \in {"cursor", "held"}
        PROVE  CookiesOrdered'
    <2>1. SameChain /\ UNCHANGED <<reply, session>>
      BY <1>4, ChainKept DEF Advance, Replied
    <2>2. pc' \in {"dispatch", "held", "finish", "failed"}
      BY <1>4 DEF Advance
    <2>3. ASSUME pc' = "dispatch"
          PROVE  \A i \in 1 .. Len(chain) : chain[i].cookies[request'.url.host] <= request'.cookie
      <3>1. /\ HopOutcome(cursor.history).kind = "next"
            /\ request' = HopOutcome(cursor.history).req
        BY <2>3, <1>4 DEF Advance
      <3>2. Current /\ chain # <<>> /\ pc # "idle"
        BY <1>t, <1>4 DEF Advance, Current, Replied, PhaseOK
      <3>3. /\ RequestOK(request) /\ reply.url = request.url /\ reply.cookies \in Jars
            /\ RedirectTarget(reply) # NoTarget => reply.target.host \in Hosts
        BY <3>2 DEF HopOwned, CookiesOrdered
      <3>4. RequestOK(request') /\ request'.cookie >= session.jar[request'.url.host]
        BY <1>t, <3>1, <3>3, NextOK
      <3>5. request'.url.host \in Hosts /\ request'.cookie \in Nat
        BY <3>4 DEF RequestOK
      <3> SUFFICES ASSUME NEW i \in 1 .. Len(chain)
                   PROVE  chain[i].cookies[request'.url.host] <= request'.cookie
        OBVIOUS
      <3>6. /\ chain[i].cookies[request'.url.host] \in Nat
            /\ session.jar[request'.url.host] \in Nat
        <4>1. chain[i] \in ChainEntries
          BY <1>t
        <4> QED
          BY <1>t, <3>5, <4>1 DEF Jars, ChainEntries
      <3>7. chain[i].cookies[request'.url.host] <= session.jar[request'.url.host]
        BY <3>5 DEF CookiesOrdered
      <3> QED
        BY <3>4, <3>5, <3>6, <3>7
    <2> QED
      BY <1>k, <2>1, <2>2, <2>3
  <1>5. ASSUME Resume PROVE CookiesOrdered'
    <2>1. /\ SameChain /\ pc = "resume" /\ pc' \in {"cursor", "held"} /\ UNCHANGED reply
          /\ session' = [session EXCEPT !.jar = MergeCookies(session.jar, reply.cookies)]
      BY <1>5, ChainKept DEF Resume
    <2>2. /\ reply.cookies \in Jars
          /\ \A h \in Hosts : reply.cookies[h] # 0 => session.jar[h] = reply.cookies[h]
      BY <1>t, <2>1 DEF CookiesOrdered, PhaseOK, Replied
    <2>3. session'.jar = MergeCookies(session.jar, reply.cookies)
      BY <1>t, <2>1 DEF SessionOK
    <2>4. session'.jar = session.jar
      BY <1>t, <2>2, <2>3 DEF MergeCookies, Jars
    <2> QED
      BY <1>k, <2>1, <2>4
  <1>6. ASSUME \/ Dispatch \/ NoAdapterFound \/ SendFails \/ PeekNext \/ ReadContent
               \/ ReadContentFails \/ OpenOwnCursor \/ OpenSharedCursor \/ Finish
               \/ UNCHANGED vars
               \/ \E u \in Users : UserNextStops(u) \/ UserBusy(u) \/ UserClose(u)
        PROVE  CookiesOrdered'
    <2>1. SameChain
      BY <1>6, ChainKept
      DEF Dispatch, NoAdapterFound, SendFails, OpenOwnCursor, OpenSharedCursor,
          UserNextStops, UserBusy, UserClose, Answer, vars
    <2>2. /\ UNCHANGED <<session, reply, request>>
          /\ pc' \in {"dispatch", "wire"} => pc \in {"dispatch", "wire"}
      BY <1>6
      DEF Dispatch, NoAdapterFound, SendFails, PeekNext, ReadContent, ReadContentFails, FailSend,
          OpenOwnCursor, OpenSharedCursor, Finish, UserNextStops, UserBusy, UserClose, Answer, vars
    <2> QED
      BY <1>k, <2>1, <2>2 DEF CookiesOrdered
  <1> QED
    BY <1>1, <1>2, <1>3, <1>4, <1>5, <1>6 DEF Next, SendStep, SendAdvance, UserNext

----------------------------------------------------------------------------
(* The invariant, and what follows from it.                                *)

\* The invariant holds before the first request.
LEMMA SSInvInit ==
  ASSUME Init
  PROVE  SSInv
  <1>1. PICK limit \in Limits, netrc \in Netrcs :
           session = NewSession(limit, netrc, [s \in Schemes |-> "credentials"])
    BY DEF Init
  <1>2. /\ pc = "idle" /\ chain = <<>> /\ cursor = NoCursor /\ driver = NoValue
        /\ offset = "start" /\ hops = 0 /\ asked.allow = FALSE
    BY DEF Init
  <1>3. /\ cursor \in Cursors /\ ~cursor.live /\ ~cursor.running /\ ~cursor.claimed
        /\ cursor.terminal # "Closed" /\ cursor.history = <<>>
    BY <1>2 DEF NoCursor, Cursors
  <1>4. SessionOK
    <2>1. EmptyJar \in Jars /\ limit \in Nat
      BY LimitsAssumption DEF EmptyJar, Jars
    <2> QED
      BY <1>1, <2>1 DEF SessionOK, NewSession
  <1>5. Control
    BY <1>2, <1>3, <1>4 DEF Control, SendTypeOK, CursorOwned, PhaseOK, Inside, Replied
  <1>6. OnlyLastHolds /\ Histories
    BY <1>2 DEF OnlyLastHolds, Histories
  <1>7. Bounded
    BY <1>2, <1>3, <1>4 DEF Bounded, SessionOK
  <1>8. HopOwned
    BY <1>2 DEF HopOwned, Current
  <1>9. CookiesOrdered
    BY <1>2 DEF CookiesOrdered
  <1> QED
    BY <1>5, <1>6, <1>7, <1>8, <1>9 DEF SSInv

\* Every step of the send and of the users of a cursor keeps the invariant.
LEMMA SSInvStep ==
  ASSUME SSInv, [Next]_vars
  PROVE  SSInv'
  <1>1. Control /\ OnlyLastHolds /\ Histories /\ Bounded /\ HopOwned /\ CookiesOrdered
    BY DEF SSInv
  <1>2. pc = "wire" => request.url.host \in Hosts
    BY <1>1 DEF HopOwned, RequestOK
  <1>3. pc \in Replied => reply.cookies \in Jars
    BY <1>1 DEF Control, PhaseOK, CookiesOrdered
  <1>4. Control'
    BY <1>1, <1>2, <1>3, ControlStep DEF Replied
  <1>5. HopOwned'
    BY <1>1, <1>3, HopOwnedStep
  <1>6. CookiesOrdered'
    BY <1>1, CookiesStep
  <1>7. OnlyLastHolds'
    BY <1>1, <1>2, HoldsStep
  <1>8. Histories'
    BY <1>1, <1>2, <1>4, HistoriesStep
  <1>9. Bounded'
    BY <1>1, BoundedStep
  <1> QED
    BY <1>4, <1>5, <1>6, <1>7, <1>8, <1>9 DEF SSInv

\* In every state of every run a send and its cursor are where the parts of SSInv say:
\* one thread inside, one response with a connection, true histories, within the limit,
\* each request with what is its own.
THEOREM SessionInvariant == Spec => []SSInv
  BY SSInvInit, SSInvStep, PTL DEF Spec

\* No response of a redirect chain keeps its connection while the next request
\* is sent, by a send or by a shared cursor.
THEOREM SessionReleasedBeforeNextHop == Spec => []ReleasedBeforeNextHop
  <1>1. SSInv => ReleasedBeforeNextHop
    BY DEF SSInv, Control, SendTypeOK, OnlyLastHolds, ReleasedBeforeNextHop
  <1> QED
    BY <1>1, SessionInvariant, PTL

\* The history of each response of a followed chain is the chain before it, and
\* no chain is longer than max_redirects.
THEOREM SessionChainIsSound == Spec => []ChainIsSound
  <1>1. ASSUME SSInv PROVE ChainIsSound
    <2>1. Control /\ Histories /\ Bounded /\ chain \in Seq(ChainEntries)
      BY <1>1 DEF SSInv, Control, SendTypeOK
    <2>2. HistoryIsTheChain
      <3>1. DOMAIN chain = 1 .. Len(chain)
        BY <2>1
      <3>2. pc = "done" /\ asked.allow => \A i \in 1 .. Len(chain) : chain[i].history = Past(i)
        BY <2>1, Zenon DEF Histories
      <3> QED
        BY <3>1, <3>2, Zenon DEF HistoryIsTheChain, Past
    <2>3. RedirectsBounded
      <3>1. /\ cursor.history \in Seq(Nat) /\ session.limit \in Nat /\ hops \in Nat
        BY <2>1 DEF Control, SendTypeOK, SessionOK, Cursors
      <3>2. Len(cursor.history) \in Nat
        BY <3>1
      <3> QED
        BY <2>1, <3>1, <3>2 DEF Bounded, RedirectsBounded
    <2> QED
      BY <2>2, <2>3 DEF ChainIsSound
  <1> QED
    BY <1>1, SessionInvariant, PTL

\* Every request that is put on the wire carries its body from the start, the
\* credentials of its own host, no proxy credentials inside a tunnel, and a cookie
\* no older than the last one its host set on the chain.
THEOREM SessionEachHopItsOwn == Spec => []EachHopItsOwn
  <1>1. ASSUME SSInv PROVE EachHopItsOwn
    <2>1. Control /\ HopOwned /\ CookiesOrdered /\ chain \in Seq(ChainEntries)
      BY <1>1 DEF SSInv, Control, SendTypeOK
    <2>2. CASE pc = "wire"
      <3>1. /\ RequestOK(request) /\ wire.req = request
            /\ request.body # "none" /\ request.position = "known" => wire.from = "start"
        BY <2>1, <2>2 DEF HopOwned
      <3>2. BodySentWhole /\ CredentialsStayHome
        BY <3>1 DEF BodySentWhole, CredentialsStayHome, RequestOK
      <3>3. CookieNeverForgotten
        <4> SUFFICES ASSUME NEW i \in DOMAIN chain
                     PROVE  wire.req.cookie >= chain[i].cookies[wire.req.url.host]
          BY DEF CookieNeverForgotten
        <4>1. chain[i] \in ChainEntries /\ i \in 1 .. Len(chain)
          BY <2>1
        <4>2. chain[i].cookies[request.url.host] <= request.cookie
          BY <2>1, <2>2, <4>1 DEF CookiesOrdered
        <4>3. chain[i].cookies[request.url.host] \in Nat /\ request.cookie \in Nat
          BY <3>1, <4>1 DEF ChainEntries, Jars, RequestOK
        <4> QED
          BY <3>1, <4>2, <4>3
      <3> QED
        BY <3>2, <3>3 DEF EachHopItsOwn
    <2>3. CASE pc # "wire"
      BY <2>3 DEF EachHopItsOwn, BodySentWhole, CredentialsStayHome, CookieNeverForgotten
    <2> QED
      BY <2>2, <2>3
  <1> QED
    BY <1>1, SessionInvariant, PTL

\* A closed cursor stays closed: it takes its state back from nobody and sends
\* nothing more.
THEOREM SessionClosedStaysClosed == Spec => ClosedStaysClosed
  <1>1. ASSUME SSInv, [Next]_vars, cursor.terminal = "Closed"
        PROVE  cursor'.terminal = "Closed" /\ ~cursor'.present /\ hops' = hops
    <2>1. /\ cursor \in Cursors /\ cursor.claimed /\ ~cursor.present /\ ~cursor.running
          /\ pc = "held"
      BY <1>1 DEF SSInv, Control, SendTypeOK, CursorOwned
    <2>2. CASE UNCHANGED <<cursor, hops>>
      BY <1>1, <2>1, <2>2
    <2>3. CASE \E u \in Users : UserClose(u)
      BY <2>1, <2>3 DEF UserClose, Answer, Cursors
    <2>4. [Next]_vars => UNCHANGED <<cursor, hops>> \/ \E u \in Users : UserClose(u)
      BY <2>1 DEF Next, SendStep, Mount, Request, Dispatch, NoAdapterFound, SendFails, Reply,
                  PeekNext, ReadContent, ReadContentFails, OpenOwnCursor, OpenSharedCursor,
                  SendAdvance, Resume, Finish, UserNext, Advance, UserNextStops, UserBusy,
                  Answer, vars
    <2> QED
      BY <1>1, <2>2, <2>3, <2>4
  <1> QED
    BY <1>1, SessionInvariant, PTL DEF Spec, ClosedStaysClosed
=============================================================================
