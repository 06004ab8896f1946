-------------------------- MODULE DigestAuthProofs --------------------------
(***************************************************************************)
(* Digest authentication for any number of threads, requests, nonces and    *)
(* redirects: no count of a nonce is used twice until the counter wraps,    *)
(* the answer to a resend is not answered by another one, and a resend      *)
(* starts where the body started.                                           *)
(***************************************************************************)
EXTENDS DigestAuth, TLAPS

Challenges == [digest : BOOLEAN, nonce : Nat, qop : {"none", "auth", "other"}, known : BOOLEAN,
               complete : BOOLEAN]
Headers == [nonce : Nat, count : Nat]
Locals == [init : BOOLEAN, last_nonce : Nat, nonce_count : Nat, chal : Challenges,
           pos : Nat \cup {NoPos}, num_401_calls : Nat, owner : Requests \cup {"nobody"}]
Responses == [status : {"none", "ok", "redirect", "unauthorized"}, held : BOOLEAN,
              chal : Challenges]

\* The steps of the machine that the worker stops at.
Stops == {1, 3, 4, 5, 6, 10, 11}

CallsInside == [at : {"send", "hooks", "401"}, req : Requests, hook : Nat, step : Stops \cup {0},
                hops : Nat, resent : Nat, first : Nat, from : Nat, carries : Headers,
                response : Responses]

DigestTypeOK ==
    /\ local \in [Threads -> Locals]
    /\ request \in [Requests -> [hooks : 0..MaxHooks, auth : Headers, at : Nat]]
    /\ call \in [Threads -> CallsInside \cup {Idle}]
    /\ nonce \in Nat /\ free \in Nat /\ calls \in Nat
    /\ built \in [Threads -> Seq(Headers)]
    /\ \A t \in Threads : call[t].at = "401" => call[t].step # 0

----------------------------------------------------------------------------
(* The operators.                                                           *)

\* The worker goes from a step to the next one it stops at, and after the resend
\* back to the hooks.
LEMMA AdvanceGoesOn ==
    ASSUME NEW c \in CallsInside
    PROVE  /\ c.step = 1 => Advance(c) = [c EXCEPT !.step = 3]
           /\ c.step = 3 => Advance(c) = [c EXCEPT !.step = 4]
           /\ c.step = 4 => Advance(c) = [c EXCEPT !.step = 5]
           /\ c.step = 5 => Advance(c) = [c EXCEPT !.step = 6]
           /\ c.step = 6 => Advance(c) = [c EXCEPT !.step = 10]
           /\ c.step = 10 => Advance(c) = [c EXCEPT !.step = 11]
           /\ c.step = 11 => Advance(c) = [c EXCEPT !.at = "hooks", !.step = 0, !.hook = @ + 1]
  <1> DEFINE Later(n) == {i \in (n + 1)..Len(Machine) : Machine[i] \notin Quiet}
             First(S) == CHOOSE i \in S : \A j \in S : i <= j
  <1>1. Later(1) = {3, 4, 5, 6, 10, 11} /\ First({3, 4, 5, 6, 10, 11}) = 3
    <2>1. \E i \in {3, 4, 5, 6, 10, 11} : \A j \in {3, 4, 5, 6, 10, 11} : i <= j
      OBVIOUS
    <2> QED
      BY <2>1 DEF Machine, Quiet
  <1>2. Later(3) = {4, 5, 6, 10, 11} /\ First({4, 5, 6, 10, 11}) = 4
    <2>1. \E i \in {4, 5, 6, 10, 11} : \A j \in {4, 5, 6, 10, 11} : i <= j
      OBVIOUS
    <2> QED
      BY <2>1 DEF Machine, Quiet
  <1>3. Later(4) = {5, 6, 10, 11} /\ First({5, 6, 10, 11}) = 5
    <2>1. \E i \in {5, 6, 10, 11} : \A j \in {5, 6, 10, 11} : i <= j
      OBVIOUS
    <2> QED
      BY <2>1 DEF Machine, Quiet
  <1>4. Later(5) = {6, 10, 11} /\ First({6, 10, 11}) = 6
    <2>1. \E i \in {6, 10, 11} : \A j \in {6, 10, 11} : i <= j
      OBVIOUS
    <2> QED
      BY <2>1 DEF Machine, Quiet
  <1>5. Later(6) = {10, 11} /\ First({10, 11}) = 10
    <2>1. \E i \in {10, 11} : \A j \in {10, 11} : i <= j
      OBVIOUS
    <2> QED
      BY <2>1 DEF Machine, Quiet
  <1>6. Later(10) = {11} /\ First({11}) = 11
    BY DEF Machine, Quiet
  <1>7. Later(11) = {}
    BY DEF Machine, Quiet
  <1>8. Advance(c) = IF Later(c.step) = {}
                     THEN [c EXCEPT !.at = "hooks", !.step = 0, !.hook = @ + 1]
                     ELSE [c EXCEPT !.step = First(Later(c.step))]
    BY DEF Advance
  <1> HIDE DEF Later, First
  <1>9. c.step = 1 => Advance(c) = [c EXCEPT !.step = 3]
    BY <1>1, <1>8
  <1>10. c.step = 3 => Advance(c) = [c EXCEPT !.step = 4]
    BY <1>2, <1>8
  <1>11. c.step = 4 => Advance(c) = [c EXCEPT !.step = 5]
    BY <1>3, <1>8
  <1>12. c.step = 5 => Advance(c) = [c EXCEPT !.step = 6]
    BY <1>4, <1>8
  <1>13. c.step = 6 => Advance(c) = [c EXCEPT !.step = 10]
    BY <1>5, <1>8
  <1>14. c.step = 10 => Advance(c) = [c EXCEPT !.step = 11]
    BY <1>6, <1>8
  <1>15. c.step = 11 => Advance(c) = [c EXCEPT !.at = "hooks", !.step = 0, !.hook = @ + 1]
    BY <1>7, <1>8
  <1> QED
    BY <1>9, <1>10, <1>11, <1>12, <1>13, <1>14, <1>15

\* The numbers of the steps by their names.
LEMMA StepNumbers ==
    ASSUME NEW t, call[t].step \in Stops
    PROVE  /\ InStep(t, "Seek") => call[t].at = "401" /\ call[t].step = 1
           /\ InStep(t, "Increment") => call[t].at = "401" /\ call[t].step = 3
           /\ InStep(t, "Parse") => call[t].at = "401" /\ call[t].step = 4
           /\ InStep(t, "Consume") => call[t].at = "401" /\ call[t].step = 5
           /\ InStep(t, "Close") => call[t].at = "401" /\ call[t].step = 6
           /\ InStep(t, "PreparedParts") => call[t].at = "401" /\ call[t].step = 10
           /\ InStep(t, "Send") => call[t].at = "401" /\ call[t].step = 11
  BY DEF InStep, Machine, Stops

\* What a step of the worker leaves alone, and where it goes.
LEMMA AdvanceEffect ==
    ASSUME NEW c \in CallsInside, c.at = "401", c.step \in Stops
    PROVE  /\ Advance(c) \in CallsInside
           /\ Advance(c).req = c.req /\ Advance(c).hops = c.hops /\ Advance(c).resent = c.resent
           /\ Advance(c).first = c.first /\ Advance(c).from = c.from
           /\ Advance(c).carries = c.carries /\ Advance(c).response = c.response
           /\ c.step # 11 => /\ Advance(c).at = "401" /\ Advance(c).hook = c.hook
                             /\ Advance(c).step \in Stops /\ Advance(c).step > c.step
                             /\ Advance(c).step > 1
           /\ c.step \in {3, 4, 5, 6, 10} => Advance(c).step > 3
           /\ c.step = 1 => Advance(c).step = 3
           /\ c.step = 11 => Advance(c).at = "hooks" /\ Advance(c).hook = c.hook + 1
  <1>1. CASE c.step = 11
    <2> DEFINE d == [c EXCEPT !.at = "hooks", !.step = 0, !.hook = @ + 1]
    <2>1. d \in CallsInside
      <3>1. c.hook + 1 \in Nat /\ 0 \in Stops \cup {0}
        BY DEF CallsInside
      <3> QED
        BY <3>1 DEF CallsInside
    <2>2. /\ d.req = c.req /\ d.hops = c.hops /\ d.resent = c.resent /\ d.first = c.first
          /\ d.from = c.from /\ d.carries = c.carries /\ d.response = c.response
          /\ d.at = "hooks" /\ d.hook = c.hook + 1
      BY DEF CallsInside
    <2>3. Advance(c) = d
      BY <1>1, AdvanceGoesOn
    <2> HIDE DEF d
    <2> QED
      BY <1>1, <2>1, <2>2, <2>3
  <1>2. ASSUME NEW n \in {3, 4, 5, 6, 10, 11}, Advance(c) = [c EXCEPT !.step = n], n > c.step,
               c.step = 1 => n = 3, c.step # 11
        PROVE  /\ Advance(c) \in CallsInside
               /\ Advance(c).req = c.req /\ Advance(c).hops = c.hops /\ Advance(c).resent = c.resent
               /\ Advance(c).first = c.first /\ Advance(c).from = c.from
               /\ Advance(c).carries = c.carries /\ Advance(c).response = c.response
               /\ Advance(c).at = "401" /\ Advance(c).hook = c.hook
               /\ Advance(c).step \in Stops /\ Advance(c).step > c.step /\ Advance(c).step > 1
               /\ c.step \in {3, 4, 5, 6, 10} => Advance(c).step > 3
               /\ c.step = 1 => Advance(c).step = 3
    <2> DEFINE d == [c EXCEPT !.step = n]
    <2>1. d \in CallsInside
      BY DEF CallsInside, Stops
    <2>2. /\ d.req = c.req /\ d.hops = c.hops /\ d.resent = c.resent /\ d.first = c.first
          /\ d.from = c.from /\ d.carries = c.carries /\ d.response = c.response
          /\ d.at = "401" /\ d.hook = c.hook /\ d.step = n
      BY DEF CallsInside
    <2>3. Advance(c) = d
      BY <1>2
    <2> HIDE DEF d
    <2> QED
      BY <1>2, <2>1, <2>2, <2>3 DEF Stops
  <1>3. CASE c.step = 1
    <2>1. 3 \in {3, 4, 5, 6, 10, 11} /\ 3 > c.step /\ (c.step = 1 => 3 = 3) /\ c.step # 11
      BY <1>3
    <2>2. Advance(c) = [c EXCEPT !.step = 3]
      BY <1>3, AdvanceGoesOn
    <2> QED
      BY <1>2, <2>1, <2>2, Zenon
  <1>4. CASE c.step = 3
    <2>1. 4 \in {3, 4, 5, 6, 10, 11} /\ 4 > c.step /\ (c.step = 1 => 4 = 3) /\ c.step # 11
      BY <1>4
    <2>2. Advance(c) = [c EXCEPT !.step = 4]
      BY <1>4, AdvanceGoesOn
    <2> QED
      BY <1>2, <2>1, <2>2, Zenon
  <1>5. CASE c.step = 4
    <2>1. 5 \in {3, 4, 5, 6, 10, 11} /\ 5 > c.step /\ (c.step = 1 => 5 = 3) /\ c.step # 11
      BY <1>5
    <2>2. Advance(c) = [c EXCEPT !.step = 5]
      BY <1>5, AdvanceGoesOn
    <2> QED
      BY <1>2, <2>1, <2>2, Zenon
  <1>6. CASE c.step = 5
    <2>1. 6 \in {3, 4, 5, 6, 10, 11} /\ 6 > c.step /\ (c.step = 1 => 6 = 3) /\ c.step # 11
      BY <1>6
    <2>2. Advance(c) = [c EXCEPT !.step = 6]
      BY <1>6, AdvanceGoesOn
    <2> QED
      BY <1>2, <2>1, <2>2, Zenon
  <1>7. CASE c.step = 6
    <2>1. 10 \in {3, 4, 5, 6, 10, 11} /\ 10 > c.step /\ (c.step = 1 => 10 = 3) /\ c.step # 11
      BY <1>7
    <2>2. Advance(c) = [c EXCEPT !.step = 10]
      BY <1>7, AdvanceGoesOn
    <2> QED
      BY <1>2, <2>1, <2>2, Zenon
  <1>8. CASE c.step = 10
    <2>1. 11 \in {3, 4, 5, 6, 10, 11} /\ 11 > c.step /\ (c.step = 1 => 11 = 3) /\ c.step # 11
      BY <1>8
    <2>2. Advance(c) = [c EXCEPT !.step = 11]
      BY <1>8, AdvanceGoesOn
    <2> QED
      BY <1>2, <2>1, <2>2, Zenon
  <1> QED
    BY <1>1, <1>3, <1>4, <1>5, <1>6, <1>7, <1>8 DEF Stops

\* The count of a header, and what it leaves in the thread's state, are well typed.
LEMMA HeaderTypes ==
    ASSUME NEW l \in Locals
    PROVE  NextCount(l) \in Nat /\ Counted(l) \in Locals /\ Used(l) \in Locals /\ HeaderOf(l) \in Headers
  <1>1. l.last_nonce \in Nat /\ l.nonce_count \in Nat /\ l.chal \in Challenges
    BY DEF Locals
  <1>2. l.chal.nonce \in Nat
    BY <1>1 DEF Challenges
  <1>3. NextCount(l) \in Nat
    BY <1>1, <1>2, DigestAssumption DEF NextCount
  <1>4. Counted(l) \in Locals
    BY <1>3 DEF Counted, Locals
  <1>5. Used(l) \in Locals
    BY <1>2, <1>4 DEF Used, Locals
  <1>6. HeaderOf(l) \in Headers
    BY <1>2, <1>3 DEF HeaderOf, NoHeader, Headers
  <1> QED
    BY <1>3, <1>4, <1>5, <1>6

\* What a header changes in the thread's state.
LEMMA HeaderFrame ==
    ASSUME NEW l \in Locals
    PROVE  /\ Counted(l).chal = l.chal /\ Counted(l).last_nonce = l.last_nonce
           /\ Counted(l).pos = l.pos /\ Counted(l).owner = l.owner /\ Counted(l).init = l.init
           /\ Counted(l).num_401_calls = l.num_401_calls
           /\ Used(l).chal = l.chal /\ Used(l).pos = l.pos /\ Used(l).owner = l.owner
           /\ Used(l).init = l.init /\ Used(l).num_401_calls = l.num_401_calls
           /\ Used(l).nonce_count = Counted(l).nonce_count
           /\ Used(l).last_nonce = IF MakesHeader(l) THEN l.chal.nonce ELSE l.last_nonce
  <1>1. /\ Counted(l).chal = l.chal /\ Counted(l).last_nonce = l.last_nonce
        /\ Counted(l).pos = l.pos /\ Counted(l).owner = l.owner /\ Counted(l).init = l.init
        /\ Counted(l).num_401_calls = l.num_401_calls
    BY DEF Counted, Locals
  <1>2. Counted(l) \in Locals
    BY HeaderTypes
  <1> HIDE DEF Counted
  <1>3. /\ Used(l).chal = l.chal /\ Used(l).pos = l.pos /\ Used(l).owner = l.owner
        /\ Used(l).init = l.init /\ Used(l).num_401_calls = l.num_401_calls
        /\ Used(l).nonce_count = Counted(l).nonce_count
        /\ Used(l).last_nonce = IF MakesHeader(l) THEN l.chal.nonce ELSE l.last_nonce
    BY <1>1, <1>2 DEF Used, Locals
  <1> QED
    BY <1>1, <1>3

\* A thread's log of headers.
LEMMA LogTypes ==
    ASSUME DigestTypeOK, NEW t \in Threads, NEW l \in Locals, Log(t, l)
    PROVE  /\ built' \in [Threads -> Seq(Headers)]
           /\ \A u \in Threads : u # t => built'[u] = built[u]
           /\ built'[t] = IF MakesHeader(l) /\ l.chal.qop = "auth"
                          THEN Append(built[t], HeaderOf(l)) ELSE built[t]
  <1>1. built[t] \in Seq(Headers) /\ HeaderOf(l) \in Headers /\ built \in [Threads -> Seq(Headers)]
    BY HeaderTypes DEF DigestTypeOK
  <1>2. Append(built[t], HeaderOf(l)) \in Seq(Headers)
    BY <1>1
  <1> QED
    BY <1>1, <1>2 DEF Log

\* A thread that is inside a send has a call of the right shape.
LEMMA InsideTypes ==
    ASSUME DigestTypeOK, NEW t \in Threads, call[t].at # "idle"
    PROVE  /\ call[t] \in CallsInside
           /\ call[t].at = "401" => call[t].step \in Stops
  <1>1. call[t] \in CallsInside
    BY DEF DigestTypeOK, Idle
  <1>2. call[t].step \in Stops \cup {0}
    BY <1>1 DEF CallsInside
  <1> QED
    BY <1>1, <1>2 DEF DigestTypeOK

\* What an exchange with the server leaves: the answer, its nonce, one connection
\* less, and the body of this request at its end.
LEMMA ExchangeEffect ==
    ASSUME DigestTypeOK, NEW t \in Threads, NEW h \in Headers, NEW c \in CallsInside,
           Exchange(t, h, c)
    PROVE  /\ \E d \in CallsInside :
                 /\ call' = [call EXCEPT ![t] = d]
                 /\ d.at = c.at /\ d.req = c.req /\ d.hook = c.hook /\ d.step = c.step
                 /\ d.resent = c.resent /\ d.first = c.first /\ d.from = c.from
                 /\ d.response.chal.nonce = nonce'
           /\ nonce' \in Nat /\ nonce' >= nonce /\ free' \in Nat
           /\ request' = [request EXCEPT ![c.req].at = AfterSending(c.req)]
  <1>1. PICK ans \in Answers, n \in 1..MaxNonce :
           /\ Offers(ans, n)
           /\ nonce' = n
           /\ call' = [call EXCEPT ![t] = [c EXCEPT !.response = Arrived(ans, n), !.carries = h]]
    BY DEF Exchange
  <1>2. ans \in Answer /\ nonce \in Nat /\ free \in Nat /\ n \in Nat
    BY AnswersAssumption DEF DigestTypeOK
  <1>3. nonce' \in Nat /\ nonce' >= nonce
    BY <1>1, <1>2 DEF Offers
  <1>4. Arrived(ans, n) \in Responses /\ Arrived(ans, n).chal.nonce = n
    BY <1>2 DEF Arrived, Responses, Challenges, Answer
  <1> DEFINE d == [c EXCEPT !.response = Arrived(ans, n), !.carries = h]
  <1>5. d \in CallsInside
    BY <1>4 DEF CallsInside
  <1>6. /\ d.at = c.at /\ d.req = c.req /\ d.hook = c.hook /\ d.step = c.step
        /\ d.resent = c.resent /\ d.first = c.first /\ d.from = c.from
        /\ d.response = Arrived(ans, n)
    BY DEF CallsInside
  <1>7. call' = [call EXCEPT ![t] = d]
    BY <1>1
  <1>8. free' \in Nat /\ request' = [request EXCEPT ![c.req].at = AfterSending(c.req)]
    BY <1>2 DEF Exchange
  <1> HIDE DEF d
  <1> QED
    BY <1>1, <1>3, <1>4, <1>5, <1>6, <1>7, <1>8

\* The request that a send is about keeps its shape when its body moves.
LEMMA RequestMoves ==
    ASSUME DigestTypeOK, NEW r \in Requests, NEW n \in Nat, request' = [request EXCEPT ![r].at = n]
    PROVE  /\ request' \in [Requests -> [hooks : 0..MaxHooks, auth : Headers, at : Nat]]
           /\ request'[r].at = n
           /\ \A q \in Requests : request'[q].hooks = request[q].hooks /\ (q # r => request'[q] = request[q])
  BY DEF DigestTypeOK

----------------------------------------------------------------------------
(* What each action does, as far as the invariants look at it.              *)

\* Only thread t moves, and its state keeps its shape.
Moves(t) ==
    /\ local' = [local EXCEPT ![t] = local'[t]] /\ local'[t] \in Locals
    /\ call' = [call EXCEPT ![t] = call'[t]] /\ call'[t] \in CallsInside \cup {Idle}
    /\ call'[t].at = "401" => call'[t].step \in Stops

\* A step of one thread keeps the types if what it writes has them.
LEMMA MovesTypes ==
    ASSUME DigestTypeOK, NEW t \in Threads, Moves(t),
           built' \in [Threads -> Seq(Headers)],
           request' \in [Requests -> [hooks : 0..MaxHooks, auth : Headers, at : Nat]],
           nonce' \in Nat, free' \in Nat, calls' \in Nat
    PROVE  DigestTypeOK'
  <1>1. local' \in [Threads -> Locals] /\ call' \in [Threads -> CallsInside \cup {Idle}]
    BY DEF Moves, DigestTypeOK
  <1>2. ASSUME NEW u \in Threads, call'[u].at = "401" PROVE call'[u].step # 0
    <2>1. CASE u = t
      BY <1>2, <2>1 DEF Moves, Stops
    <2>2. CASE u # t
      <3>1. call'[u] = call[u]
        BY <2>2 DEF Moves, DigestTypeOK
      <3> QED
        BY <1>2, <3>1 DEF DigestTypeOK
    <2> QED
      BY <2>1, <2>2
  <1> QED
    BY <1>1, <1>2 DEF DigestTypeOK

\* The first send of a hop.
LEMMA TransmitEffect ==
    ASSUME DigestTypeOK, NEW t \in Threads, Transmit(t)
    PROVE  /\ DigestTypeOK' /\ Moves(t)
           /\ call[t].at = "send" /\ call'[t].at = "hooks" /\ call'[t].req = call[t].req
           /\ call'[t].hook = 1 /\ call'[t].resent = 0
           /\ call'[t].response.chal.nonce = nonce' /\ nonce' >= nonce
           /\ request' = [request EXCEPT ![call[t].req].at = AfterSending(call[t].req)]
           /\ local' = local /\ built' = built
  <1> DEFINE r == call[t].req
             c == [call[t] EXCEPT !.at = "hooks", !.hook = 1, !.resent = 0,
                                  !.first = request[r].at, !.from = request[r].at]
  <1>1. call[t].at = "send" /\ Exchange(t, request[r].auth, c) /\ UNCHANGED <<local, built, calls>>
    BY DEF Transmit
  <1>2. call[t] \in CallsInside
    BY <1>1, InsideTypes
  <1>3. r \in Requests
    BY <1>2 DEF CallsInside
  <1>4. request[r].at \in Nat /\ request[r].auth \in Headers
    BY <1>3 DEF DigestTypeOK
  <1>5. c \in CallsInside
    BY <1>2, <1>4 DEF CallsInside
  <1>6. c.at = "hooks" /\ c.req = r /\ c.hook = 1 /\ c.resent = 0
    BY <1>2 DEF CallsInside
  <1> HIDE DEF c
  <1>7. PICK d \in CallsInside :
           /\ call' = [call EXCEPT ![t] = d]
           /\ d.at = c.at /\ d.req = c.req /\ d.hook = c.hook /\ d.step = c.step
           /\ d.resent = c.resent /\ d.first = c.first /\ d.from = c.from
           /\ d.response.chal.nonce = nonce'
    BY <1>1, <1>4, <1>5, ExchangeEffect
  <1>8. /\ nonce' \in Nat /\ nonce' >= nonce /\ free' \in Nat
        /\ request' = [request EXCEPT ![c.req].at = AfterSending(c.req)]
    BY <1>1, <1>4, <1>5, ExchangeEffect
  <1>9. call'[t] = d
    BY <1>7 DEF DigestTypeOK
  <1>10. AfterSending(r) \in Nat
    BY DEF AfterSending
  <1>11. request' \in [Requests -> [hooks : 0..MaxHooks, auth : Headers, at : Nat]]
    BY <1>3, <1>6, <1>8, <1>10, RequestMoves
  <1>12. Moves(t)
    BY <1>1, <1>6, <1>7, <1>9 DEF Moves, DigestTypeOK
  <1>13. DigestTypeOK'
    BY <1>1, <1>8, <1>11, <1>12, MovesTypes DEF DigestTypeOK
  <1> QED
    BY <1>1, <1>6, <1>7, <1>8, <1>9, <1>12, <1>13

\* The authenticated resend.
LEMMA ResendEffect ==
    ASSUME DigestTypeOK, NEW t \in Threads, Resend(t)
    PROVE  /\ DigestTypeOK' /\ Moves(t)
           /\ call[t].at = "401" /\ call[t].step = 11
           /\ call'[t].at = "hooks" /\ call'[t].req = call[t].req /\ call'[t].hook = call[t].hook + 1
           /\ call'[t].resent = call[t].resent + 1 /\ call'[t].first = call[t].first
           /\ call'[t].from = request[call[t].req].at
           /\ call'[t].response.chal.nonce = nonce' /\ nonce' >= nonce
           /\ request' = [request EXCEPT ![call[t].req].at = AfterSending(call[t].req)]
           /\ local' = local /\ built' = built
  <1> DEFINE c0 == Advance(call[t])
             c == [c0 EXCEPT !.resent = @ + 1, !.from = request[c0.req].at]
  <1>1. InStep(t, "Send") /\ Exchange(t, call[t].carries, c) /\ UNCHANGED <<local, built, calls>>
    BY DEF Resend
  <1>2. call[t].at = "401"
    BY <1>1 DEF InStep
  <1>3. call[t] \in CallsInside /\ call[t].step \in Stops
    BY <1>2, InsideTypes
  <1>4. call[t].step = 11
    BY <1>1, <1>3, StepNumbers
  <1>5. /\ c0 \in CallsInside /\ c0.at = "hooks" /\ c0.hook = call[t].hook + 1
        /\ c0.req = call[t].req /\ c0.resent = call[t].resent /\ c0.first = call[t].first
    BY <1>2, <1>3, <1>4, AdvanceEffect
  <1> HIDE DEF c0
  <1>6. call[t].req \in Requests /\ call[t].carries \in Headers /\ call[t].resent \in Nat
    BY <1>3 DEF CallsInside
  <1>7. request[call[t].req].at \in Nat
    BY <1>6 DEF DigestTypeOK
  <1>8. c \in CallsInside
    <2>1. c0.resent + 1 \in Nat /\ request[c0.req].at \in Nat
      BY <1>5, <1>6, <1>7
    <2> QED
      BY <1>5, <2>1 DEF CallsInside
  <1>9. /\ c.at = c0.at /\ c.req = c0.req /\ c.hook = c0.hook /\ c.first = c0.first
        /\ c.resent = c0.resent + 1 /\ c.from = request[c0.req].at
    BY <1>5 DEF CallsInside
  <1> HIDE DEF c
  <1>10. PICK d \in CallsInside :
           /\ call' = [call EXCEPT ![t] = d]
           /\ d.at = c.at /\ d.req = c.req /\ d.hook = c.hook /\ d.step = c.step
           /\ d.resent = c.resent /\ d.first = c.first /\ d.from = c.from
           /\ d.response.chal.nonce = nonce'
    BY <1>1, <1>6, <1>8, ExchangeEffect
  <1>11. /\ nonce' \in Nat /\ nonce' >= nonce /\ free' \in Nat
         /\ request' = [request EXCEPT ![c.req].at = AfterSending(c.req)]
    BY <1>1, <1>6, <1>8, ExchangeEffect
  <1>12. call'[t] = d
    BY <1>10 DEF DigestTypeOK
  <1>13. AfterSending(c.req) \in Nat
    BY DEF AfterSending
  <1>14. request' \in [Requests -> [hooks : 0..MaxHooks, auth : Headers, at : Nat]]
    BY <1>5, <1>6, <1>9, <1>11, <1>13, RequestMoves
  <1>15. Moves(t)
    BY <1>1, <1>5, <1>9, <1>10, <1>12 DEF Moves, DigestTypeOK
  <1>16. DigestTypeOK'
    BY <1>1, <1>11, <1>14, <1>15, MovesTypes DEF DigestTypeOK
  <1> QED
    BY <1>1, <1>2, <1>4, <1>5, <1>9, <1>10, <1>11, <1>12, <1>15, <1>16

\* The fields that count the uses of a nonce.
SameCounts(l, m) ==
    m.chal = l.chal /\ m.last_nonce = l.last_nonce /\ m.nonce_count = l.nonce_count

\* No body is read and no nonce handed out.
Offline ==
    nonce' = nonce /\ \A q \in Requests : request'[q].at = request[q].at

\* The auth object is applied: the header, if there is one, is that of the thread's state.
LEMMA AuthenticateEffect ==
    ASSUME DigestTypeOK, NEW t \in Threads, NEW r \in Requests, Authenticate(t, r)
    PROVE  /\ DigestTypeOK' /\ Moves(t) /\ Offline
           /\ call[t].at = "idle" /\ call' = call
           /\ local'[t].owner = IF request[r].at = 0 THEN r ELSE "nobody"
           /\ local'[t].pos = TellOf(r) /\ local'[t].num_401_calls = 1
           /\ \E l \in Locals :
                 /\ SameCounts(local[t], l)
                 /\ \/ SameCounts(l, local'[t]) /\ built' = built
                    \/ SameCounts(Used(l), local'[t]) /\ Log(t, l)
  <1> DEFINE l == Fresh(local[t], r)
             saved == l.last_nonce # 0
             m == IF saved THEN Used(l) ELSE l
             n == [m EXCEPT !.pos = TellOf(r), !.num_401_calls = 1]
  <1>0. local[t] \in Locals /\ request[r].at \in Nat /\ request[r].auth \in Headers /\ request[r].hooks \in 0..MaxHooks
    BY DEF DigestTypeOK
  <1>1. l \in Locals /\ SameCounts(local[t], l) /\ l.owner = (IF request[r].at = 0 THEN r ELSE "nobody")
    BY <1>0 DEF Fresh, Locals, SameCounts
  <1>2. Used(l) \in Locals /\ HeaderOf(l) \in Headers /\ Used(l).owner = l.owner
    BY <1>1, HeaderTypes, HeaderFrame
  <1>3. /\ call[t].at = "idle" /\ request[r].hooks < MaxHooks
        /\ local' = [local EXCEPT ![t] = n]
        /\ request' = [request EXCEPT ![r].hooks = @ + 1,
                                      ![r].auth = IF saved THEN Stamped(@, l) ELSE @]
        /\ IF saved THEN Log(t, l) ELSE UNCHANGED built
        /\ calls' = calls + 1
        /\ UNCHANGED <<call, nonce, free>>
    BY DEF Authenticate
  <1> HIDE DEF l
  <1>4. m \in Locals /\ m.owner = l.owner
    BY <1>1, <1>2
  <1>5. TellOf(r) \in Nat \cup {NoPos}
    BY <1>0 DEF TellOf
  <1> HIDE DEF m
  <1>6. /\ n \in Locals /\ SameCounts(m, n) /\ n.owner = m.owner /\ n.pos = TellOf(r)
        /\ n.num_401_calls = 1
    BY <1>4, <1>5 DEF Locals, SameCounts
  <1> HIDE DEF n
  <1>7. local'[t] = n
    BY <1>3 DEF DigestTypeOK
  <1>8. Moves(t)
    BY <1>3, <1>6, <1>7 DEF Moves, DigestTypeOK, Stops, Idle
  <1>9. Stamped(request[r].auth, l) \in Headers
    BY <1>0, <1>2 DEF Stamped
  <1>10. /\ request' \in [Requests -> [hooks : 0..MaxHooks, auth : Headers, at : Nat]]
         /\ \A q \in Requests : request'[q].at = request[q].at
    <2>1. request[r].hooks + 1 \in 0..MaxHooks
      BY <1>0, <1>3, DigestAssumption
    <2> DEFINE h == IF saved THEN Stamped(request[r].auth, l) ELSE request[r].auth
    <2>2. h \in Headers
      BY <1>0, <1>9
    <2>3. request' = [request EXCEPT ![r].hooks = @ + 1, ![r].auth = h]
      BY <1>3 DEF DigestTypeOK
    <2> HIDE DEF h
    <2> QED
      BY <2>1, <2>2, <2>3 DEF DigestTypeOK
  <1>11. built' \in [Threads -> Seq(Headers)]
    BY <1>1, <1>3, LogTypes DEF DigestTypeOK
  <1>12. DigestTypeOK'
    <2>1. nonce' \in Nat /\ free' \in Nat /\ calls' \in Nat
      BY <1>3 DEF DigestTypeOK
    <2> QED
      BY <1>8, <1>10, <1>11, <2>1, MovesTypes
  <1>13. \/ SameCounts(l, local'[t]) /\ built' = built
         \/ SameCounts(Used(l), local'[t]) /\ Log(t, l)
    BY <1>3, <1>6, <1>7 DEF m, SameCounts
  <1> QED
    BY <1>1, <1>3, <1>4, <1>6, <1>7, <1>8, <1>10, <1>12, <1>13 DEF Offline

\* A failed application may have counted; a failed answer to a 401 may have, too.
LEMMA AuthenticateFailsEffect ==
    ASSUME DigestTypeOK, NEW t \in Threads, NEW r \in Requests, AuthenticateFails(t, r)
    PROVE  /\ DigestTypeOK' /\ Moves(t) /\ Offline
           /\ call[t].at = "idle" /\ call' = call /\ built' = built
           /\ local'[t].owner = local[t].owner /\ local'[t].pos = local[t].pos
           /\ local'[t] = local[t] \/ local'[t] = Counted(local[t])
  <1>0. local[t] \in Locals
    BY DEF DigestTypeOK
  <1>1. Counted(local[t]) \in Locals /\ Counted(local[t]).owner = local[t].owner /\ Counted(local[t]).pos = local[t].pos
    BY <1>0, HeaderTypes, HeaderFrame
  <1>2. /\ local'[t] = local[t] \/ local'[t] = Counted(local[t])
        /\ local' = [local EXCEPT ![t] = local'[t]]
        /\ calls' = calls + 1 /\ UNCHANGED <<request, call, nonce, free, built>>
    BY <1>0 DEF AuthenticateFails, DigestTypeOK
  <1>3. call[t].at = "idle"
    BY DEF AuthenticateFails
  <1>4. Moves(t)
    BY <1>0, <1>1, <1>2, <1>3 DEF Moves, DigestTypeOK
  <1>5. DigestTypeOK'
    <2>1. /\ built' \in [Threads -> Seq(Headers)] /\ nonce' \in Nat /\ free' \in Nat /\ calls' \in Nat
          /\ request' \in [Requests -> [hooks : 0..MaxHooks, auth : Headers, at : Nat]]
      BY <1>2 DEF DigestTypeOK
    <2> QED
      BY <1>4, <2>1, MovesTypes
  <1> QED
    BY <1>0, <1>1, <1>2, <1>3, <1>4, <1>5 DEF Offline

\* A send begins with nothing resent.
LEMMA StartEffect ==
    ASSUME DigestTypeOK, NEW t \in Threads, NEW r \in Requests, Start(t, r)
    PROVE  /\ DigestTypeOK' /\ Moves(t) /\ Offline
           /\ call[t].at = "idle" /\ call'[t].at = "send" /\ call'[t].req = r /\ call'[t].resent = 0
           /\ \A u \in Threads : call[u].at # "idle" => call[u].req # r
           /\ UNCHANGED <<local, built, request>>
  <1> DEFINE d == [at |-> "send", req |-> r, hook |-> 1, step |-> 0, hops |-> 0,
                   resent |-> 0, first |-> 0, from |-> 0,
                   carries |-> NoHeader, response |-> NoResponse]
  <1>1. d \in CallsInside
    <2>1. NoHeader \in Headers /\ NoResponse \in Responses
      BY DEF NoHeader, Headers, NoResponse, NoChallenge, Responses, Challenges
    <2> QED
      BY <2>1 DEF CallsInside
  <1>2. call'[t] = d /\ call' = [call EXCEPT ![t] = call'[t]]
    BY DEF Start, DigestTypeOK
  <1>3. d.at = "send" /\ d.req = r /\ d.resent = 0
    OBVIOUS
  <1> HIDE DEF d
  <1>4. Moves(t)
    BY <1>1, <1>2, <1>3 DEF Start, Moves, DigestTypeOK
  <1>5. DigestTypeOK'
    <2>1. /\ built' \in [Threads -> Seq(Headers)] /\ nonce' \in Nat /\ free' \in Nat /\ calls' \in Nat
          /\ request' \in [Requests -> [hooks : 0..MaxHooks, auth : Headers, at : Nat]]
      BY DEF DigestTypeOK, Start
    <2> QED
      BY <1>4, <2>1, MovesTypes
  <1> QED
    BY <1>2, <1>3, <1>4, <1>5 DEF Start, Offline

\* A send that is left, or goes on with another hop, gives its connection back.
LEMMA ReleaseTypes ==
    ASSUME DigestTypeOK, NEW c
    PROVE  Release(c) \in Nat /\ free + Release(c) \in Nat
  BY DEF DigestTypeOK, Release

\* A send ends: with an exception, or with its response.
LEMMA EndEffect ==
    ASSUME DigestTypeOK, NEW t \in Threads, Fail(t) \/ Deliver(t)
    PROVE  /\ DigestTypeOK' /\ Moves(t) /\ Offline
           /\ call'[t].at = "idle" /\ UNCHANGED <<local, built, request>>
  <1>1. /\ call' = [call EXCEPT ![t] = Idle] /\ free' = free + Release(call[t])
        /\ UNCHANGED <<local, request, nonce, built, calls>>
    BY DEF Fail, Deliver
  <1>2. call'[t] = Idle
    BY <1>1 DEF DigestTypeOK
  <1>3. Moves(t)
    BY <1>1, <1>2 DEF Moves, DigestTypeOK, Idle
  <1>4. DigestTypeOK'
    <2>1. /\ built' \in [Threads -> Seq(Headers)] /\ nonce' \in Nat /\ free' \in Nat /\ calls' \in Nat
          /\ request' \in [Requests -> [hooks : 0..MaxHooks, auth : Headers, at : Nat]]
      BY <1>1, ReleaseTypes DEF DigestTypeOK
    <2> QED
      BY <1>3, <2>1, MovesTypes
  <1> QED
    BY <1>1, <1>2, <1>3, <1>4 DEF Offline, Idle

\* handle_401 resets the counter, enters its machine, or raises.
LEMMA Handle401Effect ==
    ASSUME DigestTypeOK, NEW t \in Threads, Handle401(t)
    PROVE  /\ DigestTypeOK' /\ Moves(t) /\ Offline /\ UNCHANGED <<built, request>>
           /\ call[t].at = "hooks" /\ SameCounts(local[t], local'[t])
           /\ local'[t].owner = local[t].owner /\ local'[t].pos = local[t].pos
           /\ call'[t].at # "idle" =>
                 /\ call'[t].req = call[t].req /\ call'[t].resent = call[t].resent
                 /\ call'[t].first = call[t].first /\ call'[t].from = call[t].from
                 /\ call'[t].response = call[t].response
           /\ \/ /\ call[t].response.status # "unauthorized" /\ call'[t].at = "hooks"
                 /\ call'[t].hook = call[t].hook + 1 /\ local'[t].num_401_calls = 1
              \/ /\ call[t].response.status = "unauthorized" /\ local' = local
                 /\ \/ call'[t].at = "idle"
                    \/ /\ call'[t].at = "401" /\ call'[t].step = 1 /\ call'[t].hook = call[t].hook
                       /\ local[t].init
                       /\ call[t].hook % 2 = 1
                       /\ call[t].hook <= 2 * request[call[t].req].hooks
  <1>0. call[t].at = "hooks" /\ ~HooksDone(call[t]) /\ IsHandle401(call[t])
        /\ UNCHANGED <<request, nonce, built, calls>>
    BY DEF Handle401
  <1>1. call[t] \in CallsInside /\ local[t] \in Locals
    BY <1>0, InsideTypes DEF DigestTypeOK
  <1>2. call[t].hook \in Nat /\ call[t].req \in Requests
    BY <1>1 DEF CallsInside
  <1>3. request[call[t].req].hooks \in Nat
    BY <1>2, DigestAssumption DEF DigestTypeOK
  <1>4. call[t].hook % 2 = 1 /\ call[t].hook <= 2 * request[call[t].req].hooks
    BY <1>0, <1>2, <1>3 DEF HooksDone, IsHandle401
  <1>5. CASE call[t].response.status # "unauthorized"
    <2> DEFINE d == [call[t] EXCEPT !.hook = @ + 1]
               m == [local[t] EXCEPT !.num_401_calls = 1]
    <2>1. call'[t] = d /\ call' = [call EXCEPT ![t] = call'[t]] /\ free' = free
      BY <1>5 DEF Handle401, DigestTypeOK
    <2>2. local'[t] = m /\ local' = [local EXCEPT ![t] = local'[t]]
      BY <1>5 DEF Handle401, DigestTypeOK
    <2>3. /\ d \in CallsInside /\ d.at = "hooks" /\ d.req = call[t].req /\ d.resent = call[t].resent
          /\ d.first = call[t].first /\ d.from = call[t].from /\ d.response = call[t].response
          /\ d.hook = call[t].hook + 1
      BY <1>0, <1>1, <1>2 DEF CallsInside
    <2>4. /\ m \in Locals /\ SameCounts(local[t], m) /\ m.owner = local[t].owner
          /\ m.pos = local[t].pos /\ m.num_401_calls = 1
      BY <1>1 DEF Locals, SameCounts
    <2> HIDE DEF d, m
    <2>5. Moves(t)
      BY <2>1, <2>2, <2>3, <2>4 DEF Moves
    <2>6. DigestTypeOK'
      <3>1. /\ built' \in [Threads -> Seq(Headers)] /\ nonce' \in Nat /\ free' \in Nat /\ calls' \in Nat
            /\ request' \in [Requests -> [hooks : 0..MaxHooks, auth : Headers, at : Nat]]
        BY <1>0, <2>1 DEF DigestTypeOK
      <3> QED
        BY <2>5, <3>1, MovesTypes
    <2> QED
      BY <1>0, <1>5, <2>1, <2>2, <2>3, <2>4, <2>5, <2>6 DEF Offline
  <1>6. CASE call[t].response.status = "unauthorized"
    <2> DEFINE d == [call[t] EXCEPT !.at = "401", !.step = 1]
    <2>1. /\ call'[t] \in {d, Idle} /\ call' = [call EXCEPT ![t] = call'[t]] /\ local' = local
          /\ free' \in {free, free + Release(call[t])}
      BY <1>6 DEF Handle401, DigestTypeOK
    <2>2. /\ d \in CallsInside /\ d.at = "401" /\ d.req = call[t].req /\ d.resent = call[t].resent
          /\ d.first = call[t].first /\ d.from = call[t].from /\ d.response = call[t].response
          /\ d.hook = call[t].hook /\ d.step = 1
      BY <1>1 DEF CallsInside, Stops
    <2> HIDE DEF d
    <2>3. Moves(t)
      BY <1>1, <2>1, <2>2 DEF Moves, Stops, Idle, DigestTypeOK
    <2>4. DigestTypeOK'
      <3>1. /\ built' \in [Threads -> Seq(Headers)] /\ nonce' \in Nat /\ free' \in Nat /\ calls' \in Nat
            /\ request' \in [Requests -> [hooks : 0..MaxHooks, auth : Headers, at : Nat]]
        BY <1>0, <2>1, ReleaseTypes DEF DigestTypeOK
      <3> QED
        BY <2>3, <3>1, MovesTypes
    <2>5. call'[t].at = "idle" \/ (call'[t] = d /\ local[t].init)
      <3>1. call'[t] = IF local[t].init THEN d ELSE Idle
        BY <1>6 DEF Handle401, DigestTypeOK, d
      <3>2. Idle.at = "idle"
        BY DEF Idle
      <3>3. CASE local[t].init
        BY <3>1, <3>3, Zenon
      <3>4. CASE ~local[t].init
        BY <3>1, <3>2, <3>4
      <3> QED
        BY <3>3, <3>4, Zenon
    <2> QED
      BY <1>0, <1>4, <1>6, <2>1, <2>2, <2>3, <2>4, <2>5 DEF Offline, SameCounts
  <1> QED
    BY <1>5, <1>6

\* handle_redirect resets the counter at a redirect.
LEMMA HandleRedirectEffect ==
    ASSUME DigestTypeOK, NEW t \in Threads, HandleRedirect(t)
    PROVE  /\ DigestTypeOK' /\ Moves(t) /\ Offline /\ UNCHANGED <<built, request>>
           /\ call[t].at = "hooks" /\ SameCounts(local[t], local'[t])
           /\ local'[t].owner = local[t].owner /\ local'[t].pos = local[t].pos
           /\ local'[t].init = local[t].init
           /\ local'[t].num_401_calls = IF call[t].response.status = "redirect" THEN 1
                                        ELSE local[t].num_401_calls
           /\ call'[t].at = "hooks" /\ call'[t].req = call[t].req /\ call'[t].resent = call[t].resent
           /\ call'[t].first = call[t].first /\ call'[t].from = call[t].from
           /\ call'[t].response = call[t].response /\ call'[t].hook = call[t].hook + 1
  <1> DEFINE d == [call[t] EXCEPT !.hook = @ + 1]
             n == IF call[t].response.status = "redirect" THEN 1 ELSE local[t].num_401_calls
             m == [local[t] EXCEPT !.num_401_calls = n]
  <1>0. call[t].at = "hooks" /\ UNCHANGED <<request, nonce, free, built, calls>>
    BY DEF HandleRedirect
  <1>1. call[t] \in CallsInside /\ local[t] \in Locals
    BY <1>0, InsideTypes DEF DigestTypeOK
  <1>2. call[t].hook \in Nat /\ n \in Nat
    BY <1>1 DEF CallsInside, Locals
  <1>3. call'[t] = d /\ call' = [call EXCEPT ![t] = call'[t]]
    BY DEF HandleRedirect, DigestTypeOK
  <1>4. local'[t] = m /\ local' = [local EXCEPT ![t] = local'[t]]
    BY DEF HandleRedirect, DigestTypeOK
  <1>5. n = IF call[t].response.status = "redirect" THEN 1 ELSE local[t].num_401_calls
    OBVIOUS
  <1> HIDE DEF n
  <1>6. /\ m \in Locals /\ SameCounts(local[t], m) /\ m.owner = local[t].owner /\ m.pos = local[t].pos
        /\ m.num_401_calls = n /\ m.init = local[t].init
    BY <1>1, <1>2 DEF Locals, SameCounts
  <1>7. /\ d \in CallsInside /\ d.at = "hooks" /\ d.req = call[t].req /\ d.resent = call[t].resent
        /\ d.first = call[t].first /\ d.from = call[t].from /\ d.response = call[t].response
        /\ d.hook = call[t].hook + 1
    BY <1>0, <1>1, <1>2 DEF CallsInside
  <1> HIDE DEF d, m
  <1>8. Moves(t)
    BY <1>3, <1>4, <1>6, <1>7 DEF Moves
  <1>9. DigestTypeOK'
    <2>1. /\ built' \in [Threads -> Seq(Headers)] /\ nonce' \in Nat /\ free' \in Nat /\ calls' \in Nat
          /\ request' \in [Requests -> [hooks : 0..MaxHooks, auth : Headers, at : Nat]]
      BY <1>0 DEF DigestTypeOK
    <2> QED
      BY <1>8, <2>1, MovesTypes
  <1> QED
    BY <1>0, <1>3, <1>4, <1>5, <1>6, <1>7, <1>8, <1>9 DEF Offline

\* The body goes back to the saved position, if it can seek.
LEMMA SeekEffect ==
    ASSUME DigestTypeOK, NEW t \in Threads, Seek(t)
    PROVE  /\ DigestTypeOK' /\ Moves(t) /\ UNCHANGED <<local, built, nonce>>
           /\ call[t].at = "401" /\ call[t].step = 1 /\ call'[t].at = "401" /\ call'[t].step = 3
           /\ call'[t].hook = call[t].hook
           /\ call'[t].req = call[t].req /\ call'[t].resent = call[t].resent
           /\ call'[t].first = call[t].first /\ call'[t].from = call[t].from
           /\ call'[t].response = call[t].response
           /\ LET r == call[t].req
              IN  request' = [request EXCEPT ![r].at = IF local[t].pos # NoPos /\ BodyOf[r] = "file"
                                                       THEN local[t].pos ELSE @]
  <1> DEFINE d == Advance(call[t])
             r == call[t].req
             n == IF local[t].pos # NoPos /\ BodyOf[r] = "file" THEN local[t].pos ELSE request[r].at
  <1>0. InStep(t, "Seek") /\ call' = [call EXCEPT ![t] = d] /\ UNCHANGED <<local, nonce, free, built, calls>>
    BY DEF Seek, GoOn
  <1>1. call[t].at = "401"
    BY <1>0 DEF InStep
  <1>2. call[t] \in CallsInside /\ call[t].step \in Stops /\ local[t] \in Locals
    BY <1>1, InsideTypes DEF DigestTypeOK
  <1>3. call[t].step = 1
    BY <1>0, <1>2, StepNumbers
  <1>4. /\ d \in CallsInside /\ d.at = "401" /\ d.step = 3 /\ d.req = r /\ d.resent = call[t].resent
        /\ d.first = call[t].first /\ d.from = call[t].from /\ d.response = call[t].response
        /\ d.hook = call[t].hook
    BY <1>1, <1>2, <1>3, AdvanceEffect
  <1> HIDE DEF d
  <1>5. call'[t] = d
    BY <1>0 DEF DigestTypeOK
  <1>6. r \in Requests
    BY <1>2 DEF CallsInside
  <1>7. n \in Nat
    BY <1>2, <1>6 DEF Locals, DigestTypeOK
  <1>8. request' = [request EXCEPT ![r].at = n]
    BY <1>6 DEF Seek, DigestTypeOK
  <1> HIDE DEF n
  <1>9. Moves(t)
    BY <1>0, <1>2, <1>4, <1>5 DEF Moves, Stops, DigestTypeOK
  <1>10. DigestTypeOK'
    <2>1. /\ built' \in [Threads -> Seq(Headers)] /\ nonce' \in Nat /\ free' \in Nat /\ calls' \in Nat
          /\ request' \in [Requests -> [hooks : 0..MaxHooks, auth : Headers, at : Nat]]
      BY <1>0, <1>6, <1>7, <1>8, RequestMoves DEF DigestTypeOK
    <2> QED
      BY <1>9, <2>1, MovesTypes
  <1> QED
    BY <1>0, <1>1, <1>3, <1>4, <1>5, <1>9, <1>10 DEF Seek

\* The counter ends the exchange, or goes on to two.
LEMMA IncrementEffect ==
    ASSUME DigestTypeOK, NEW t \in Threads, Increment(t)
    PROVE  /\ DigestTypeOK' /\ Moves(t) /\ Offline /\ UNCHANGED <<built, request>>
           /\ SameCounts(local[t], local'[t])
           /\ local'[t].owner = local[t].owner /\ local'[t].pos = local[t].pos
           /\ call[t].at = "401" /\ call[t].step = 3
           /\ call'[t].req = call[t].req /\ call'[t].resent = call[t].resent
           /\ call'[t].first = call[t].first /\ call'[t].from = call[t].from
           /\ call'[t].response = call[t].response
           /\ local'[t].num_401_calls >= 1
           /\ \/ call'[t].at = "hooks" /\ call'[t].hook = call[t].hook + 1
              \/ /\ local[t].num_401_calls < 2 /\ local'[t].num_401_calls = local[t].num_401_calls + 1
                 /\ call'[t].at = "401" /\ call'[t].step = 4 /\ call'[t].hook = call[t].hook
  <1> DEFINE c == call[t]
             stops == ~c.response.chal.digest \/ local[t].num_401_calls >= 2
             e == [c EXCEPT !.at = "hooks", !.step = 0, !.hook = @ + 1]
             n == IF stops THEN 1 ELSE local[t].num_401_calls + 1
             m == [local[t] EXCEPT !.num_401_calls = n]
  <1>0. InStep(t, "Increment") /\ UNCHANGED <<request, nonce, free, built, calls>>
    BY DEF Increment
  <1>1. call[t].at = "401"
    BY <1>0 DEF InStep
  <1>2. call[t] \in CallsInside /\ call[t].step \in Stops /\ local[t] \in Locals
    BY <1>1, InsideTypes DEF DigestTypeOK
  <1>3. call[t].step = 3
    BY <1>0, <1>2, StepNumbers
  <1>4. Advance(c) = [c EXCEPT !.step = 4]
    BY <1>2, <1>3, AdvanceGoesOn
  <1>5. /\ Advance(c) \in CallsInside /\ Advance(c).at = "401" /\ Advance(c).req = c.req
        /\ Advance(c).resent = c.resent /\ Advance(c).first = c.first /\ Advance(c).from = c.from
        /\ Advance(c).response = c.response /\ Advance(c).hook = c.hook
    BY <1>1, <1>2, <1>3, AdvanceEffect
  <1>6. Advance(c).step = 4
    BY <1>2, <1>4 DEF CallsInside
  <1>7. /\ e \in CallsInside /\ e.at = "hooks" /\ e.req = c.req /\ e.resent = c.resent
        /\ e.first = c.first /\ e.from = c.from /\ e.response = c.response /\ e.hook = c.hook + 1
    <2>1. c.hook + 1 \in Nat
      BY <1>2 DEF CallsInside
    <2>2. e \in CallsInside
      BY <1>2, <2>1 DEF CallsInside
    <2> QED
      BY <1>2, <2>2 DEF CallsInside
  <1>8. local[t].num_401_calls \in Nat /\ n \in Nat /\ n >= 1
    BY <1>2 DEF Locals
  <1>9. call'[t] = (IF stops THEN e ELSE Advance(c)) /\ call' = [call EXCEPT ![t] = call'[t]]
    BY DEF Increment, DigestTypeOK
  <1>10. local'[t] = m /\ local' = [local EXCEPT ![t] = local'[t]]
    BY DEF Increment, DigestTypeOK, Advanced
  <1>11. ~stops => n = local[t].num_401_calls + 1 /\ local[t].num_401_calls < 2
    BY <1>8
  <1> HIDE DEF n
  <1>12. /\ m \in Locals /\ SameCounts(local[t], m) /\ m.owner = local[t].owner /\ m.pos = local[t].pos
         /\ m.num_401_calls = n
    BY <1>2, <1>8 DEF Locals, SameCounts
  <1> HIDE DEF m, e, stops
  <1>13. Moves(t)
    <2>1. CASE stops
      BY <1>7, <1>9, <1>10, <1>12, <2>1 DEF Moves
    <2>2. CASE ~stops
      BY <1>5, <1>6, <1>9, <1>10, <1>12, <2>2 DEF Moves, Stops
    <2> QED
      BY <2>1, <2>2
  <1>14. DigestTypeOK'
    <2>1. /\ built' \in [Threads -> Seq(Headers)] /\ nonce' \in Nat /\ free' \in Nat /\ calls' \in Nat
          /\ request' \in [Requests -> [hooks : 0..MaxHooks, auth : Headers, at : Nat]]
      BY <1>0 DEF DigestTypeOK
    <2> QED
      BY <1>13, <2>1, MovesTypes
  <1>15. CASE stops
    BY <1>0, <1>1, <1>3, <1>7, <1>8, <1>9, <1>10, <1>12, <1>13, <1>14, <1>15 DEF Offline
  <1>16. CASE ~stops
    BY <1>0, <1>1, <1>3, <1>5, <1>6, <1>8, <1>9, <1>10, <1>11, <1>12, <1>13, <1>14, <1>16 DEF Offline
  <1> QED
    BY <1>15, <1>16

\* The challenge of this answer becomes that of the thread.
LEMMA ParseEffect ==
    ASSUME DigestTypeOK, NEW t \in Threads, Parse(t)
    PROVE  /\ DigestTypeOK' /\ Moves(t) /\ Offline /\ UNCHANGED <<built, request>>
           /\ local'[t].chal = call[t].response.chal
           /\ local'[t].last_nonce = local[t].last_nonce /\ local'[t].nonce_count = local[t].nonce_count
           /\ local'[t].num_401_calls = local[t].num_401_calls /\ local'[t].init = local[t].init
           /\ local'[t].owner = local[t].owner /\ local'[t].pos = local[t].pos
           /\ call[t].at = "401" /\ call[t].step = 4 /\ call'[t].at = "401" /\ call'[t].step > 3
           /\ call'[t].hook = call[t].hook
           /\ call'[t].req = call[t].req /\ call'[t].resent = call[t].resent
           /\ call'[t].first = call[t].first /\ call'[t].from = call[t].from
           /\ call'[t].response = call[t].response
  <1> DEFINE d == Advance(call[t])
             m == [local[t] EXCEPT !.chal = call[t].response.chal]
  <1>0. InStep(t, "Parse") /\ call' = [call EXCEPT ![t] = d] /\ UNCHANGED <<request, nonce, free, built, calls>>
    BY DEF Parse, GoOn
  <1>1. call[t].at = "401"
    BY <1>0 DEF InStep
  <1>2. call[t] \in CallsInside /\ call[t].step \in Stops /\ local[t] \in Locals
    BY <1>1, InsideTypes DEF DigestTypeOK
  <1>3. call[t].step = 4
    BY <1>0, <1>2, StepNumbers
  <1>4. /\ d \in CallsInside /\ d.at = "401" /\ d.step > 3 /\ d.step \in Stops /\ d.req = call[t].req
        /\ d.resent = call[t].resent /\ d.first = call[t].first /\ d.from = call[t].from
        /\ d.response = call[t].response /\ d.hook = call[t].hook
    BY <1>1, <1>2, <1>3, AdvanceEffect
  <1> HIDE DEF d
  <1>5. call'[t] = d
    BY <1>0 DEF DigestTypeOK
  <1>6. call[t].response \in Responses
    BY <1>2 DEF CallsInside
  <1>7. call[t].response.chal \in Challenges
    BY <1>6 DEF Responses
  <1>8. /\ m \in Locals /\ m.chal = call[t].response.chal /\ m.last_nonce = local[t].last_nonce
        /\ m.nonce_count = local[t].nonce_count /\ m.num_401_calls = local[t].num_401_calls
        /\ m.owner = local[t].owner /\ m.pos = local[t].pos /\ m.init = local[t].init
    BY <1>2, <1>7 DEF Locals
  <1>9. local'[t] = m /\ local' = [local EXCEPT ![t] = local'[t]]
    BY DEF Parse, DigestTypeOK
  <1> HIDE DEF m
  <1>10. Moves(t)
    BY <1>0, <1>4, <1>5, <1>8, <1>9 DEF Moves
  <1>11. DigestTypeOK'
    <2>1. /\ built' \in [Threads -> Seq(Headers)] /\ nonce' \in Nat /\ free' \in Nat /\ calls' \in Nat
          /\ request' \in [Requests -> [hooks : 0..MaxHooks, auth : Headers, at : Nat]]
      BY <1>0 DEF DigestTypeOK
    <2> QED
      BY <1>10, <2>1, MovesTypes
  <1> QED
    BY <1>0, <1>1, <1>3, <1>4, <1>5, <1>8, <1>9, <1>10, <1>11 DEF Offline

\* Reading the 401 to its end and closing it give its connection back.
LEMMA ConsumeOrCloseEffect ==
    ASSUME DigestTypeOK, NEW t \in Threads, ConsumeOrClose(t)
    PROVE  /\ DigestTypeOK' /\ Moves(t) /\ Offline /\ UNCHANGED <<local, built, request>>
           /\ call[t].at = "401" /\ call[t].step \in {5, 6}
           /\ call'[t].at = "401" /\ call'[t].step > 3 /\ call'[t].hook = call[t].hook
           /\ call'[t].req = call[t].req /\ call'[t].resent = call[t].resent
           /\ call'[t].first = call[t].first /\ call'[t].from = call[t].from
           /\ call'[t].response.status = call[t].response.status
           /\ call'[t].response.chal = call[t].response.chal
  <1> DEFINE a == Advance(call[t])
             d == [a EXCEPT !.response.held = FALSE]
  <1>0. /\ InStep(t, "Consume") \/ InStep(t, "Close")
        /\ call' = [call EXCEPT ![t] = d] /\ free' = free + Release(call[t])
        /\ UNCHANGED <<local, request, nonce, built, calls>>
    BY DEF ConsumeOrClose
  <1>1. call[t].at = "401"
    BY <1>0 DEF InStep
  <1>2. call[t] \in CallsInside /\ call[t].step \in Stops /\ local[t] \in Locals
    BY <1>1, InsideTypes DEF DigestTypeOK
  <1>3. call[t].step \in {5, 6}
    BY <1>0, <1>2, StepNumbers
  <1>4. /\ a \in CallsInside /\ a.at = "401" /\ a.step > 3 /\ a.step \in Stops /\ a.req = call[t].req
        /\ a.resent = call[t].resent /\ a.first = call[t].first /\ a.from = call[t].from
        /\ a.response = call[t].response /\ a.hook = call[t].hook
    BY <1>1, <1>2, <1>3, AdvanceEffect
  <1> HIDE DEF a
  <1>5. a.response \in Responses
    BY <1>4 DEF CallsInside
  <1> DEFINE q == [a.response EXCEPT !.held = FALSE]
  <1>6. q \in Responses /\ q.status = a.response.status /\ q.chal = a.response.chal
    BY <1>5 DEF Responses
  <1>7. d = [a EXCEPT !.response = q]
    BY <1>4 DEF CallsInside
  <1> HIDE DEF q, d
  <1>8. /\ d \in CallsInside /\ d.at = a.at /\ d.step = a.step /\ d.hook = a.hook /\ d.req = a.req
        /\ d.resent = a.resent /\ d.first = a.first /\ d.from = a.from /\ d.response = q
    BY <1>4, <1>6, <1>7 DEF CallsInside
  <1>9. call'[t] = d
    BY <1>0 DEF DigestTypeOK
  <1>10. Moves(t)
    BY <1>0, <1>2, <1>4, <1>8, <1>9 DEF Moves, DigestTypeOK
  <1>11. DigestTypeOK'
    <2>1. /\ built' \in [Threads -> Seq(Headers)] /\ nonce' \in Nat /\ free' \in Nat /\ calls' \in Nat
          /\ request' \in [Requests -> [hooks : 0..MaxHooks, auth : Headers, at : Nat]]
      BY <1>0, ReleaseTypes DEF DigestTypeOK
    <2> QED
      BY <1>10, <2>1, MovesTypes
  <1> QED
    BY <1>0, <1>1, <1>3, <1>4, <1>6, <1>8, <1>9, <1>10, <1>11 DEF Offline

\* The header of the resend is that of the thread's state.
LEMMA BuildDigestHeaderEffect ==
    ASSUME DigestTypeOK, NEW t \in Threads, BuildDigestHeader(t)
    PROVE  /\ DigestTypeOK' /\ Moves(t) /\ Offline /\ UNCHANGED request
           /\ call[t].at = "401" /\ call[t].step = 10
           /\ local'[t] = Used(local[t]) /\ Log(t, local[t])
           /\ call'[t].at = "401" /\ call'[t].step > 3 /\ call'[t].hook = call[t].hook
           /\ call'[t].req = call[t].req /\ call'[t].resent = call[t].resent
           /\ call'[t].first = call[t].first /\ call'[t].from = call[t].from
           /\ call'[t].response = call[t].response
  <1> DEFINE a == Advance(call[t])
             h == Stamped(request[call[t].req].auth, local[t])
             d == [a EXCEPT !.carries = h]
  <1>0. /\ InStep(t, "PreparedParts") /\ local' = [local EXCEPT ![t] = Used(local[t])]
        /\ call' = [call EXCEPT ![t] = d] /\ Log(t, local[t])
        /\ UNCHANGED <<request, nonce, free, calls>>
    BY DEF BuildDigestHeader, DigestTypeOK
  <1>1. call[t].at = "401"
    BY <1>0 DEF InStep
  <1>2. call[t] \in CallsInside /\ call[t].step \in Stops /\ local[t] \in Locals
    BY <1>1, InsideTypes DEF DigestTypeOK
  <1>3. call[t].step = 10
    BY <1>0, <1>2, StepNumbers
  <1>4. /\ a \in CallsInside /\ a.at = "401" /\ a.step > 3 /\ a.step \in Stops /\ a.req = call[t].req
        /\ a.resent = call[t].resent /\ a.first = call[t].first /\ a.from = call[t].from
        /\ a.response = call[t].response /\ a.hook = call[t].hook
    BY <1>1, <1>2, <1>3, AdvanceEffect
  <1> HIDE DEF a
  <1>5. call[t].req \in Requests
    BY <1>2 DEF CallsInside
  <1>6. Used(local[t]) \in Locals /\ HeaderOf(local[t]) \in Headers
    BY <1>2, HeaderTypes
  <1>7. h \in Headers
    BY <1>5, <1>6 DEF Stamped, DigestTypeOK
  <1> HIDE DEF h
  <1>8. /\ d \in CallsInside /\ d.at = a.at /\ d.step = a.step /\ d.hook = a.hook /\ d.req = a.req
        /\ d.resent = a.resent /\ d.first = a.first /\ d.from = a.from /\ d.response = a.response
    BY <1>4, <1>7 DEF CallsInside
  <1> HIDE DEF d
  <1>9. call'[t] = d /\ local'[t] = Used(local[t])
    BY <1>0 DEF DigestTypeOK
  <1>10. Moves(t)
    BY <1>0, <1>4, <1>6, <1>8, <1>9 DEF Moves
  <1>11. DigestTypeOK'
    <2>1. /\ nonce' \in Nat /\ free' \in Nat /\ calls' \in Nat
          /\ request' \in [Requests -> [hooks : 0..MaxHooks, auth : Headers, at : Nat]]
      BY <1>0 DEF DigestTypeOK
    <2>2. built' \in [Threads -> Seq(Headers)]
      BY <1>0, <1>2, LogTypes
    <2> QED
      BY <1>10, <2>1, <2>2, MovesTypes
  <1> QED
    BY <1>0, <1>1, <1>3, <1>4, <1>8, <1>9, <1>10, <1>11 DEF Offline

\* A header that cannot be made ends the send; it may have been counted.
LEMMA BuildFailsEffect ==
    ASSUME DigestTypeOK, NEW t \in Threads, BuildFails(t)
    PROVE  /\ DigestTypeOK' /\ Moves(t) /\ Offline /\ UNCHANGED <<built, request>>
           /\ call'[t].at = "idle"
           /\ local'[t].owner = local[t].owner /\ local'[t].pos = local[t].pos
           /\ local'[t] = local[t] \/ local'[t] = Counted(local[t])
  <1>0. local[t] \in Locals
    BY DEF DigestTypeOK
  <1>1. Counted(local[t]) \in Locals /\ Counted(local[t]).owner = local[t].owner /\ Counted(local[t]).pos = local[t].pos
    BY <1>0, HeaderTypes, HeaderFrame
  <1>2. /\ local'[t] = local[t] \/ local'[t] = Counted(local[t])
        /\ local' = [local EXCEPT ![t] = local'[t]]
        /\ call'[t] = Idle /\ call' = [call EXCEPT ![t] = call'[t]]
        /\ free' = free + Release(call[t]) /\ UNCHANGED <<request, nonce, built, calls>>
    BY <1>0 DEF BuildFails, DigestTypeOK
  <1>3. call'[t].at = "idle"
    BY <1>2 DEF Idle
  <1>4. Moves(t)
    BY <1>0, <1>1, <1>2, <1>3 DEF Moves
  <1>5. DigestTypeOK'
    <2>1. /\ built' \in [Threads -> Seq(Headers)] /\ nonce' \in Nat /\ free' \in Nat /\ calls' \in Nat
          /\ request' \in [Requests -> [hooks : 0..MaxHooks, auth : Headers, at : Nat]]
      BY <1>2, ReleaseTypes DEF DigestTypeOK
    <2> QED
      BY <1>4, <2>1, MovesTypes
  <1> QED
    BY <1>0, <1>1, <1>2, <1>3, <1>4, <1>5 DEF Offline

\* A redirect is followed with the body at its start, or the send ends.
LEMMA FollowEffect ==
    ASSUME DigestTypeOK, NEW t \in Threads, Follow(t)
    PROVE  /\ DigestTypeOK' /\ Moves(t) /\ UNCHANGED <<local, built, nonce>>
           /\ call[t].at = "hooks"
           /\ \/ call'[t].at = "idle"
              \/ /\ call'[t].at = "send" /\ call'[t].req = call[t].req
                 /\ call'[t].resent = call[t].resent
                 /\ call'[t].first = call[t].first /\ call'[t].from = call[t].from
           /\ LET r == call[t].req
              IN  request' = [request EXCEPT ![r].at = IF BodyOf[r] = "file" THEN 0 ELSE @]
  <1> DEFINE c == call[t]
             r == call[t].req
             d == [c EXCEPT !.at = "send", !.hops = @ + 1, !.response = NoResponse]
             n == IF BodyOf[r] = "file" THEN 0 ELSE request[r].at
  <1>0. /\ c.at = "hooks" /\ free' = free + Release(c)
        /\ call' = [call EXCEPT ![t] = IF BodyOf[r] = "tell" THEN Idle ELSE d]
        /\ request' = [request EXCEPT ![r].at = IF BodyOf[r] = "file" THEN 0 ELSE @]
        /\ UNCHANGED <<local, nonce, built, calls>>
    BY DEF Follow
  <1>1. c \in CallsInside
    BY <1>0, InsideTypes
  <1>2. r \in Requests /\ c.hops + 1 \in Nat
    BY <1>1 DEF CallsInside
  <1>3. NoResponse \in Responses
    BY DEF NoResponse, NoChallenge, Responses, Challenges
  <1>4. /\ d \in CallsInside /\ d.at = "send" /\ d.req = r /\ d.resent = c.resent
        /\ d.first = c.first /\ d.from = c.from
    <2>1. d \in CallsInside
      BY <1>1, <1>2, <1>3 DEF CallsInside
    <2> QED
      BY <1>1, <2>1 DEF CallsInside
  <1> HIDE DEF d
  <1>5. call'[t] \in {d, Idle} /\ call' = [call EXCEPT ![t] = call'[t]]
    BY <1>0 DEF DigestTypeOK
  <1>6. n \in Nat /\ request' = [request EXCEPT ![r].at = n]
    BY <1>0, <1>2 DEF DigestTypeOK
  <1> HIDE DEF n
  <1>7. Moves(t)
    BY <1>0, <1>4, <1>5 DEF Moves, DigestTypeOK, Idle
  <1>8. DigestTypeOK'
    <2>1. /\ built' \in [Threads -> Seq(Headers)] /\ nonce' \in Nat /\ free' \in Nat /\ calls' \in Nat
          /\ request' \in [Requests -> [hooks : 0..MaxHooks, auth : Headers, at : Nat]]
      BY <1>0, <1>2, <1>6, RequestMoves, ReleaseTypes DEF DigestTypeOK
    <2> QED
      BY <1>7, <2>1, MovesTypes
  <1>9. call'[t].at = "idle" \/ call'[t] = d
    BY <1>5 DEF Idle
  <1> QED
    BY <1>0, <1>4, <1>7, <1>8, <1>9

\* The state has its types at the start.
LEMMA DigestTypeInit == DigestInit => DigestTypeOK
  <1> SUFFICES ASSUME DigestInit PROVE DigestTypeOK
    OBVIOUS
  <1> DEFINE l == [init |-> FALSE, last_nonce |-> 0, nonce_count |-> 0, chal |-> NoChallenge,
                   pos |-> NoPos, num_401_calls |-> 0, owner |-> "nobody"]
             q == [hooks |-> 0, auth |-> NoHeader, at |-> 0]
  <1>1. NoChallenge \in Challenges /\ NoHeader \in Headers
    BY DEF NoChallenge, Challenges, NoHeader, Headers
  <1>2. l \in Locals
    BY <1>1 DEF Locals
  <1>3. q \in [hooks : 0..MaxHooks, auth : Headers, at : Nat]
    BY <1>1, DigestAssumption
  <1> HIDE DEF l, q
  <1>4. local \in [Threads -> Locals]
    BY <1>2 DEF DigestInit, l
  <1>5. request \in [Requests -> [hooks : 0..MaxHooks, auth : Headers, at : Nat]]
    BY <1>3 DEF DigestInit, q
  <1>6. call \in [Threads -> CallsInside \cup {Idle}] /\ \A t \in Threads : call[t] = Idle
    BY DEF DigestInit
  <1>7. ASSUME NEW t \in Threads PROVE call[t].at # "401"
    <2>1. call[t] = Idle /\ Idle.at = "idle"
      BY <1>6 DEF Idle
    <2> QED
      BY <2>1
  <1>8. nonce \in Nat /\ free \in Nat /\ calls \in Nat /\ built \in [Threads -> Seq(Headers)]
    BY DigestAssumption DEF DigestInit
  <1> QED
    BY <1>4, <1>5, <1>6, <1>7, <1>8 DEF DigestTypeOK

\* Every step keeps the types.
LEMMA DigestTypeStep ==
    ASSUME DigestTypeOK, [DigestNext]_digestVars
    PROVE  DigestTypeOK'
  <1>1. CASE UNCHANGED digestVars
    BY <1>1 DEF digestVars, DigestTypeOK
  <1>2. ASSUME NEW t \in Threads,
               \/ Work(t) \/ Fail(t)
               \/ \E r \in Requests : Authenticate(t, r) \/ AuthenticateFails(t, r) \/ Start(t, r)
        PROVE  DigestTypeOK'
    <2>1. CASE Transmit(t)
      BY <2>1, TransmitEffect
    <2>2. CASE Resend(t)
      BY <2>2, ResendEffect
    <2>3. CASE Handle401(t)
      BY <2>3, Handle401Effect
    <2>4. CASE HandleRedirect(t)
      BY <2>4, HandleRedirectEffect
    <2>5. CASE Seek(t)
      BY <2>5, SeekEffect
    <2>6. CASE Increment(t)
      BY <2>6, IncrementEffect
    <2>7. CASE Parse(t)
      BY <2>7, ParseEffect
    <2>8. CASE ConsumeOrClose(t)
      BY <2>8, ConsumeOrCloseEffect
    <2>9. CASE BuildDigestHeader(t)
      BY <2>9, BuildDigestHeaderEffect
    <2>10. CASE BuildFails(t)
      BY <2>10, BuildFailsEffect
    <2>11. CASE Follow(t)
      BY <2>11, FollowEffect
    <2>12. CASE Fail(t) \/ Deliver(t)
      BY <2>12, EndEffect
    <2>13. ASSUME NEW r \in Requests, Authenticate(t, r) PROVE DigestTypeOK'
      BY <2>13, AuthenticateEffect
    <2>14. ASSUME NEW r \in Requests, AuthenticateFails(t, r) PROVE DigestTypeOK'
      BY <2>14, AuthenticateFailsEffect
    <2>15. ASSUME NEW r \in Requests, Start(t, r) PROVE DigestTypeOK'
      BY <2>15, StartEffect
    <2> QED
      BY <1>2, <2>1, <2>2, <2>3, <2>4, <2>5, <2>6, <2>7, <2>8, <2>9, <2>10, <2>11, <2>12, <2>13,
         <2>14, <2>15 DEF Work
  <1> QED
    BY <1>1, <1>2 DEF DigestNext

\* Type correctness: the worker of handle_401 stops only at the seven steps that
\* do something, and a thread inside its machine is at one of them.
THEOREM DigestTypeCorrect == DigestSpec => []DigestTypeOK
  BY DigestTypeInit, DigestTypeStep, PTL DEF DigestSpec

----------------------------------------------------------------------------
(* No count of a nonce is used twice.                                       *)

\* The counter of a thread is ahead of every header it made for the nonce it
\* counts.  The counts of an older nonce cannot come back: a header that failed
\* after its count was stored has moved nonce_count but not last_nonce, so what
\* nonce_count says of last_nonce matters only while the challenge repeats it.
Ahead(l, b) ==
    /\ l.last_nonce <= l.chal.nonce
    /\ \A i \in 1..Len(b) : b[i].nonce <= l.last_nonce
    /\ l.chal.nonce = l.last_nonce =>
         \A i \in 1..Len(b) : b[i].nonce = l.last_nonce => b[i].count <= l.nonce_count
    /\ \A i, j \in 1..Len(b) : i # j => b[i] # b[j]

\* The challenges a thread has kept, and the one it is being handed, are no newer
\* than the server's nonce and come in their order.
InOrder(t) ==
    /\ local[t].chal.nonce <= nonce
    /\ call[t].at \in {"hooks", "401"} =>
         /\ local[t].chal.nonce <= call[t].response.chal.nonce
         /\ call[t].response.chal.nonce <= nonce

CountInv == \A t \in Threads : Ahead(local[t], built[t]) /\ InOrder(t)

\* No thread has come to the end of its counter: below it the count does not wrap.
CountsLeft == \A t \in Threads : local[t].nonce_count + 1 < CountLimit

\* Fields that Ahead does not look at may change.
LEMMA AheadSame ==
    ASSUME NEW l, NEW m, NEW b, SameCounts(l, m), Ahead(l, b)
    PROVE  Ahead(m, b)
  BY DEF SameCounts, Ahead

\* The next count is larger, if it does not wrap.
LEMMA CountGrows ==
    ASSUME NEW l \in Locals, l.nonce_count + 1 < CountLimit
    PROVE  /\ l.chal.nonce = l.last_nonce => NextCount(l) = l.nonce_count + 1
           /\ l.chal.nonce # l.last_nonce => NextCount(l) = 1
  <1>1. l.nonce_count \in Nat /\ CountLimit \in Nat
    BY DigestAssumption DEF Locals
  <1>2. (l.nonce_count + 1) % CountLimit = l.nonce_count + 1
    BY <1>1
  <1> QED
    BY <1>2 DEF NextCount

\* The entries of a log are headers.
LEMMA LoggedTypes ==
    ASSUME NEW b \in Seq(Headers), NEW i \in 1..Len(b)
    PROVE  b[i].count \in Nat /\ b[i].nonce \in Nat
  <1>1. b[i] \in Headers
    OBVIOUS
  <1> QED
    BY <1>1 DEF Headers

\* A header that failed after its count was stored spends the count.
LEMMA AheadCounted ==
    ASSUME NEW l \in Locals, NEW b \in Seq(Headers), Ahead(l, b), l.nonce_count + 1 < CountLimit
    PROVE  Ahead(Counted(l), b)
  <1>1. Counted(l).chal = l.chal /\ Counted(l).last_nonce = l.last_nonce
    BY HeaderFrame
  <1>2. l.nonce_count \in Nat
    BY DEF Locals
  <1>3. Counted(l).nonce_count = IF l.chal.known THEN NextCount(l) ELSE l.nonce_count
    BY DEF Counted, Locals
  <1>4. l.chal.nonce = l.last_nonce => Counted(l).nonce_count >= l.nonce_count
    BY <1>2, <1>3, CountGrows
  <1>5. Counted(l).nonce_count \in Nat
    BY HeaderTypes DEF Locals
  <1>6. \A i \in 1..Len(b) : b[i].count \in Nat
    BY LoggedTypes
  <1> QED
    BY <1>1, <1>2, <1>4, <1>5, <1>6 DEF Ahead

\* A header that was made has a count or a nonce that no earlier one has.
LEMMA AheadUsed ==
    ASSUME NEW l \in Locals, NEW b \in Seq(Headers), Ahead(l, b), l.nonce_count + 1 < CountLimit
    PROVE  /\ Ahead(Used(l), b)
           /\ MakesHeader(l) /\ l.chal.qop = "auth" => Ahead(Used(l), Append(b, HeaderOf(l)))
  <1>1. /\ Used(l).chal = l.chal /\ Used(l).nonce_count = Counted(l).nonce_count
        /\ Used(l).last_nonce = IF MakesHeader(l) THEN l.chal.nonce ELSE l.last_nonce
    BY HeaderFrame
  <1>2. /\ l.nonce_count \in Nat /\ l.last_nonce \in Nat /\ l.chal \in Challenges
    BY DEF Locals
  <1>3. l.chal.nonce \in Nat
    BY <1>2 DEF Challenges
  <1>4. Ahead(Counted(l), b) /\ Counted(l).chal = l.chal /\ Counted(l).last_nonce = l.last_nonce
    BY AheadCounted, HeaderFrame
  <1>5. MakesHeader(l) => Counted(l).nonce_count = NextCount(l)
    BY DEF Counted, Locals, MakesHeader
  <1>6. \A i \in 1..Len(b) : b[i].count \in Nat /\ b[i].nonce \in Nat
    BY LoggedTypes
  <1>7. Ahead(Used(l), b)
    <2>1. CASE ~MakesHeader(l)
      BY <1>1, <1>4, <2>1, AheadSame DEF SameCounts
    <2>2. CASE MakesHeader(l) /\ l.chal.nonce = l.last_nonce
      BY <1>1, <1>4, <2>2, AheadSame DEF SameCounts
    <2>3. CASE MakesHeader(l) /\ l.chal.nonce # l.last_nonce
      <3>1. Used(l).last_nonce = l.chal.nonce /\ l.last_nonce < l.chal.nonce
        BY <1>1, <1>2, <1>3, <2>3 DEF Ahead
      <3>2. \A i \in 1..Len(b) : b[i].nonce < l.chal.nonce
        BY <1>2, <1>3, <1>6, <3>1 DEF Ahead
      <3> QED
        BY <1>1, <1>3, <1>6, <3>1, <3>2 DEF Ahead
    <2> QED
      BY <2>1, <2>2, <2>3
  <1>8. ASSUME MakesHeader(l), l.chal.qop = "auth"
        PROVE  Ahead(Used(l), Append(b, HeaderOf(l)))
    <2> DEFINE h == HeaderOf(l)
               c == Append(b, h)
    <2>1. h = [nonce |-> l.chal.nonce, count |-> NextCount(l)]
      BY <1>8 DEF HeaderOf
    <2>2. h \in Headers /\ h.nonce = l.chal.nonce /\ h.count = NextCount(l) /\ NextCount(l) \in Nat
      BY <2>1, HeaderTypes
    <2>3. Used(l).last_nonce = l.chal.nonce /\ Used(l).nonce_count = NextCount(l)
      BY <1>1, <1>5, <1>8
    <2>4. ASSUME NEW i \in 1..Len(b) PROVE b[i] # h
      <3>1. b[i].nonce <= l.last_nonce /\ l.last_nonce <= l.chal.nonce
        BY DEF Ahead
      <3>2. CASE l.chal.nonce = l.last_nonce
        <4>1. b[i].nonce = l.last_nonce => b[i].count <= l.nonce_count
          BY <3>2 DEF Ahead
        <4>2. h.count = l.nonce_count + 1
          BY <2>2, <3>2, CountGrows
        <4> QED
          BY <1>2, <1>6, <2>2, <3>2, <4>1, <4>2
      <3>3. CASE l.chal.nonce # l.last_nonce
        BY <1>2, <1>3, <1>6, <2>2, <3>1, <3>3
      <3> QED
        BY <3>2, <3>3
    <2> HIDE DEF h
    <2>5. /\ Len(c) = Len(b) + 1 /\ c[Len(b) + 1] = h /\ \A i \in 1..Len(b) : c[i] = b[i]
          /\ Len(b) \in Nat
      BY <2>2
    <2> HIDE DEF c
    <2>6. \A i \in 1..Len(c) : i = Len(b) + 1 \/ i \in 1..Len(b)
      BY <2>5
    <2>7. \A i \in 1..Len(c) : c[i].nonce <= Used(l).last_nonce
      BY <1>3, <1>7, <2>2, <2>3, <2>5, <2>6 DEF Ahead
    <2>8. Used(l).chal.nonce = Used(l).last_nonce =>
            \A i \in 1..Len(c) : c[i].nonce = Used(l).last_nonce => c[i].count <= Used(l).nonce_count
      BY <1>7, <2>2, <2>3, <2>5, <2>6 DEF Ahead
    <2>9. \A i, j \in 1..Len(c) : i # j => c[i] # c[j]
      BY <1>7, <2>4, <2>5, <2>6 DEF Ahead
    <2>10. Used(l).last_nonce <= Used(l).chal.nonce
      BY <1>7 DEF Ahead
    <2> QED
      BY <2>7, <2>8, <2>9, <2>10 DEF Ahead, c, h
  <1> QED
    BY <1>7, <1>8

\* A newer challenge is counted from one, the same one goes on.
LEMMA AheadParsed ==
    ASSUME NEW l \in Locals, NEW m \in Locals, NEW b, Ahead(l, b),
           l.chal.nonce <= m.chal.nonce, m.last_nonce = l.last_nonce, m.nonce_count = l.nonce_count
    PROVE  Ahead(m, b)
  <1>1. l.last_nonce \in Nat /\ l.chal \in Challenges /\ m.chal \in Challenges
    BY DEF Locals
  <1>2. l.chal.nonce \in Nat /\ m.chal.nonce \in Nat
    BY <1>1 DEF Challenges
  <1> QED
    BY <1>1, <1>2 DEF Ahead

\* A step of thread t keeps the invariant if it keeps it for t: the nonces of the
\* server only grow.
LEMMA CountStep ==
    ASSUME DigestTypeOK, DigestTypeOK', CountInv, NEW t \in Threads, Moves(t), nonce' >= nonce,
           \A u \in Threads : u # t => built'[u] = built[u],
           Ahead(local'[t], built'[t]), local'[t].chal.nonce <= nonce',
           call'[t].at \in {"hooks", "401"} =>
             /\ local'[t].chal.nonce <= call'[t].response.chal.nonce
             /\ call'[t].response.chal.nonce <= nonce'
    PROVE  CountInv'
  <1>1. ASSUME NEW u \in Threads PROVE Ahead(local'[u], built'[u]) /\ InOrder(u)'
    <2>1. CASE u = t
      BY <2>1 DEF InOrder
    <2>2. CASE u # t
      <3>1. local'[u] = local[u] /\ call'[u] = call[u] /\ built'[u] = built[u]
        BY <2>2 DEF Moves, DigestTypeOK
      <3>2. Ahead(local[u], built[u]) /\ InOrder(u)
        BY DEF CountInv
      <3>3. local[u] \in Locals /\ nonce \in Nat /\ nonce' \in Nat
        BY DEF DigestTypeOK
      <3>4. local[u].chal \in Challenges
        BY <3>3 DEF Locals
      <3>5. local[u].chal.nonce \in Nat
        BY <3>4 DEF Challenges
      <3>6. CASE call[u].at \in {"hooks", "401"}
        <4>1. call[u] \in CallsInside
          BY <3>6, InsideTypes
        <4>2. call[u].response \in Responses
          BY <4>1 DEF CallsInside
        <4>3. call[u].response.chal \in Challenges
          BY <4>2 DEF Responses
        <4>4. call[u].response.chal.nonce \in Nat
          BY <4>3 DEF Challenges
        <4> QED
          BY <3>1, <3>2, <3>3, <3>5, <3>6, <4>4 DEF InOrder
      <3>7. CASE call[u].at \notin {"hooks", "401"}
        BY <3>1, <3>2, <3>3, <3>5, <3>7 DEF InOrder
      <3> QED
        BY <3>6, <3>7
    <2> QED
      BY <2>1, <2>2
  <1> QED
    BY <1>1 DEF CountInv

\* A step that meets no server and keeps the thread's challenge.
LEMMA CountOffline ==
    ASSUME DigestTypeOK, DigestTypeOK', CountInv, NEW t \in Threads, Moves(t), nonce' = nonce,
           \A u \in Threads : u # t => built'[u] = built[u],
           Ahead(local'[t], built'[t]), local'[t].chal = local[t].chal,
           call'[t].at \in {"hooks", "401"} =>
             /\ call[t].at \in {"hooks", "401"}
             /\ call'[t].response.chal = call[t].response.chal
    PROVE  CountInv'
  <1>1. InOrder(t) /\ nonce \in Nat
    BY DEF CountInv, DigestTypeOK
  <1>2. nonce' >= nonce
    BY <1>1
  <1>3. local'[t].chal.nonce <= nonce'
    BY <1>1 DEF InOrder
  <1>4. call'[t].at \in {"hooks", "401"} =>
          /\ local'[t].chal.nonce <= call'[t].response.chal.nonce
          /\ call'[t].response.chal.nonce <= nonce'
    BY <1>1 DEF InOrder
  <1> QED
    BY <1>2, <1>3, <1>4, CountStep

\* An answer brings a nonce that is no older than any the thread has kept.
LEMMA CountOnline ==
    ASSUME DigestTypeOK, DigestTypeOK', CountInv, NEW t \in Threads, Moves(t), nonce' >= nonce,
           built' = built, local' = local, call'[t].response.chal.nonce = nonce'
    PROVE  CountInv'
  <1>1. InOrder(t) /\ nonce \in Nat /\ nonce' \in Nat /\ local[t] \in Locals /\ Ahead(local[t], built[t])
    BY DEF CountInv, DigestTypeOK
  <1>2. local[t].chal \in Challenges
    BY <1>1 DEF Locals
  <1>3. local[t].chal.nonce \in Nat
    BY <1>2 DEF Challenges
  <1>4. local[t].chal.nonce <= nonce'
    BY <1>1, <1>3 DEF InOrder
  <1>5. Ahead(local'[t], built'[t]) /\ local'[t].chal.nonce <= nonce'
    BY <1>1, <1>4
  <1>6. /\ local'[t].chal.nonce <= call'[t].response.chal.nonce
        /\ call'[t].response.chal.nonce <= nonce'
    BY <1>1, <1>4
  <1> QED
    BY <1>5, <1>6, CountStep

\* A header of thread t is logged, with the state it was made from.
LEMMA AheadLogged ==
    ASSUME DigestTypeOK, NEW t \in Threads, NEW l \in Locals, Ahead(l, built[t]), Log(t, l),
           l.nonce_count + 1 < CountLimit
    PROVE  /\ Ahead(Used(l), built'[t])
           /\ \A u \in Threads : u # t => built'[u] = built[u]
  <1>1. built[t] \in Seq(Headers)
    BY DEF DigestTypeOK
  <1>2. /\ Ahead(Used(l), built[t])
        /\ MakesHeader(l) /\ l.chal.qop = "auth" => Ahead(Used(l), Append(built[t], HeaderOf(l)))
    BY <1>1, AheadUsed
  <1>3. /\ \A u \in Threads : u # t => built'[u] = built[u]
        /\ built'[t] = IF MakesHeader(l) /\ l.chal.qop = "auth"
                       THEN Append(built[t], HeaderOf(l)) ELSE built[t]
    BY LogTypes
  <1> QED
    BY <1>2, <1>3

\* Every step keeps the counters ahead, until one of them is about to wrap.
LEMMA CountPreserved ==
    ASSUME DigestTypeOK, CountInv, CountsLeft, [DigestNext]_digestVars
    PROVE  CountInv'
  <1>1. CASE UNCHANGED digestVars
    BY <1>1 DEF digestVars, CountInv, InOrder
  <1>2. ASSUME NEW t \in Threads,
               \/ Work(t) \/ Fail(t)
               \/ \E r \in Requests : Authenticate(t, r) \/ AuthenticateFails(t, r) \/ Start(t, r)
        PROVE  CountInv'
    <2>1. /\ Ahead(local[t], built[t]) /\ InOrder(t) /\ local[t] \in Locals
          /\ built[t] \in Seq(Headers) /\ local[t].nonce_count + 1 < CountLimit
      BY DEF CountInv, DigestTypeOK, CountsLeft
    <2>2. Ahead(Counted(local[t]), built[t]) /\ Counted(local[t]).chal = local[t].chal
      BY <2>1, AheadCounted, HeaderFrame
    <2>3. CASE Transmit(t)
      <3>1. DigestTypeOK' /\ Moves(t) /\ nonce' >= nonce /\ local' = local /\ built' = built
            /\ call'[t].response.chal.nonce = nonce'
        BY <2>3, TransmitEffect
      <3> QED
        BY <3>1, CountOnline
    <2>4. CASE Resend(t)
      <3>1. DigestTypeOK' /\ Moves(t) /\ nonce' >= nonce /\ local' = local /\ built' = built
            /\ call'[t].response.chal.nonce = nonce'
        BY <2>4, ResendEffect
      <3> QED
        BY <3>1, CountOnline
    <2>5. CASE Handle401(t)
      <3>1. /\ DigestTypeOK' /\ Moves(t) /\ nonce' = nonce /\ built' = built
            /\ call[t].at = "hooks" /\ SameCounts(local[t], local'[t])
            /\ call'[t].at # "idle" => call'[t].response = call[t].response
        BY <2>5, Handle401Effect DEF Offline
      <3>2. Ahead(local'[t], built'[t]) /\ local'[t].chal = local[t].chal
        BY <2>1, <3>1, AheadSame DEF SameCounts
      <3> QED
        BY <3>1, <3>2, CountOffline
    <2>6. CASE HandleRedirect(t)
      <3>1. /\ DigestTypeOK' /\ Moves(t) /\ nonce' = nonce /\ built' = built
            /\ call[t].at = "hooks" /\ SameCounts(local[t], local'[t])
            /\ call'[t].response = call[t].response
        BY <2>6, HandleRedirectEffect DEF Offline
      <3>2. Ahead(local'[t], built'[t]) /\ local'[t].chal = local[t].chal
        BY <2>1, <3>1, AheadSame DEF SameCounts
      <3> QED
        BY <3>1, <3>2, CountOffline
    <2>7. CASE Seek(t)
      <3>1. /\ DigestTypeOK' /\ Moves(t) /\ nonce' = nonce /\ built' = built /\ local' = local
            /\ call[t].at = "401" /\ call'[t].response = call[t].response
        BY <2>7, SeekEffect
      <3> QED
        BY <2>1, <3>1, CountOffline
    <2>8. CASE Increment(t)
      <3>1. /\ DigestTypeOK' /\ Moves(t) /\ nonce' = nonce /\ built' = built
            /\ call[t].at = "401" /\ SameCounts(local[t], local'[t])
            /\ call'[t].response = call[t].response
        BY <2>8, IncrementEffect DEF Offline
      <3>2. Ahead(local'[t], built'[t]) /\ local'[t].chal = local[t].chal
        BY <2>1, <3>1, AheadSame DEF SameCounts
      <3> QED
        BY <3>1, <3>2, CountOffline
    <2>9. CASE Parse(t)
      <3>1. /\ DigestTypeOK' /\ Moves(t) /\ nonce' = nonce /\ built' = built /\ nonce \in Nat
            /\ call[t].at = "401" /\ local'[t].chal = call[t].response.chal
            /\ local'[t].last_nonce = local[t].last_nonce
            /\ local'[t].nonce_count = local[t].nonce_count
            /\ call'[t].response = call[t].response
        BY <2>9, ParseEffect DEF Offline, DigestTypeOK
      <3>2. local'[t] \in Locals /\ local[t].chal.nonce <= local'[t].chal.nonce
            /\ local'[t].chal.nonce <= nonce
        BY <2>1, <3>1 DEF Moves, InOrder
      <3>3. local'[t].chal \in Challenges
        BY <3>2 DEF Locals
      <3>4. local'[t].chal.nonce \in Nat
        BY <3>3 DEF Challenges
      <3>5. Ahead(local'[t], built[t])
        BY <2>1, <3>1, <3>2, AheadParsed
      <3>6. Ahead(local'[t], built'[t]) /\ nonce' >= nonce /\ local'[t].chal.nonce <= nonce'
            /\ \A u \in Threads : u # t => built'[u] = built[u]
        BY <3>1, <3>2, <3>5
      <3>7. local'[t].chal.nonce <= call'[t].response.chal.nonce /\ call'[t].response.chal.nonce <= nonce'
        BY <3>1, <3>2, <3>4
      <3> QED
        BY <3>1, <3>6, <3>7, CountStep
    <2>10. CASE ConsumeOrClose(t)
      <3>1. /\ DigestTypeOK' /\ Moves(t) /\ nonce' = nonce /\ built' = built /\ local' = local
            /\ call[t].at = "401" /\ call'[t].response.chal = call[t].response.chal
        BY <2>10, ConsumeOrCloseEffect DEF Offline
      <3> QED
        BY <2>1, <3>1, CountOffline
    <2>11. CASE BuildDigestHeader(t)
      <3>1. /\ DigestTypeOK' /\ Moves(t) /\ nonce' = nonce /\ local'[t] = Used(local[t])
            /\ Log(t, local[t]) /\ call[t].at = "401" /\ call'[t].response = call[t].response
        BY <2>11, BuildDigestHeaderEffect DEF Offline
      <3>2. /\ Ahead(local'[t], built'[t]) /\ \A u \in Threads : u # t => built'[u] = built[u]
        BY <2>1, <3>1, AheadLogged
      <3>3. local'[t].chal = local[t].chal
        BY <2>1, <3>1, HeaderFrame
      <3> QED
        BY <3>1, <3>2, <3>3, CountOffline
    <2>12. CASE BuildFails(t)
      <3>1. /\ DigestTypeOK' /\ Moves(t) /\ nonce' = nonce /\ built' = built /\ call'[t].at = "idle"
            /\ local'[t] = local[t] \/ local'[t] = Counted(local[t])
        BY <2>12, BuildFailsEffect DEF Offline
      <3>2. Ahead(local'[t], built'[t]) /\ local'[t].chal = local[t].chal
        BY <2>1, <2>2, <3>1
      <3> QED
        BY <3>1, <3>2, CountOffline
    <2>13. CASE Follow(t)
      <3>1. /\ DigestTypeOK' /\ Moves(t) /\ nonce' = nonce /\ built' = built /\ local' = local
            /\ call'[t].at \in {"idle", "send"}
        BY <2>13, FollowEffect
      <3> QED
        BY <2>1, <3>1, CountOffline
    <2>14. CASE Fail(t) \/ Deliver(t)
      <3>1. /\ DigestTypeOK' /\ Moves(t) /\ nonce' = nonce /\ built' = built /\ local' = local
            /\ call'[t].at = "idle"
        BY <2>14, EndEffect DEF Offline
      <3> QED
        BY <2>1, <3>1, CountOffline
    <2>15. ASSUME NEW r \in Requests, Authenticate(t, r) PROVE CountInv'
      <3>1. /\ DigestTypeOK' /\ Moves(t) /\ nonce' = nonce /\ call' = call /\ call[t].at = "idle"
        BY <2>15, AuthenticateEffect DEF Offline
      <3>2. PICK l \in Locals :
              /\ SameCounts(local[t], l)
              /\ \/ SameCounts(l, local'[t]) /\ built' = built
                 \/ SameCounts(Used(l), local'[t]) /\ Log(t, l)
        BY <2>15, AuthenticateEffect
      <3>3. Ahead(l, built[t]) /\ l.nonce_count + 1 < CountLimit
        BY <2>1, <3>2, AheadSame DEF SameCounts
      <3>4. CASE SameCounts(l, local'[t]) /\ built' = built
        <4>1. Ahead(local'[t], built'[t]) /\ local'[t].chal = local[t].chal
          BY <3>2, <3>3, <3>4, AheadSame DEF SameCounts
        <4> QED
          BY <3>1, <3>4, <4>1, CountOffline
      <3>5. CASE SameCounts(Used(l), local'[t]) /\ Log(t, l)
        <4>1. Ahead(Used(l), built'[t]) /\ \A u \in Threads : u # t => built'[u] = built[u]
          BY <3>3, <3>5, AheadLogged
        <4>2. Ahead(local'[t], built'[t])
          BY <3>5, <4>1, AheadSame
        <4>3. local'[t].chal = local[t].chal
          BY <3>2, <3>5, HeaderFrame DEF SameCounts
        <4> QED
          BY <3>1, <4>1, <4>2, <4>3, CountOffline
      <3> QED
        BY <3>2, <3>4, <3>5
    <2>16. ASSUME NEW r \in Requests, AuthenticateFails(t, r) PROVE CountInv'
      <3>1. /\ DigestTypeOK' /\ Moves(t) /\ nonce' = nonce /\ built' = built /\ call' = call
            /\ call[t].at = "idle"
            /\ local'[t] = local[t] \/ local'[t] = Counted(local[t])
        BY <2>16, AuthenticateFailsEffect DEF Offline
      <3>2. Ahead(local'[t], built'[t]) /\ local'[t].chal = local[t].chal
        BY <2>1, <2>2, <3>1
      <3> QED
        BY <3>1, <3>2, CountOffline
    <2>17. ASSUME NEW r \in Requests, Start(t, r) PROVE CountInv'
      <3>1. /\ DigestTypeOK' /\ Moves(t) /\ nonce' = nonce /\ built' = built /\ local' = local
            /\ call'[t].at = "send"
        BY <2>17, StartEffect DEF Offline
      <3> QED
        BY <2>1, <3>1, CountOffline
    <2> QED
      BY <1>2, <2>3, <2>4, <2>5, <2>6, <2>7, <2>8, <2>9, <2>10, <2>11, <2>12, <2>13, <2>14, <2>15,
         <2>16, <2>17 DEF Work
  <1> QED
    BY <1>1, <1>2 DEF DigestNext

\* Nothing is counted at the start.
LEMMA CountInit == DigestInit => CountInv
  <1> SUFFICES ASSUME DigestInit, NEW t \in Threads PROVE Ahead(local[t], built[t]) /\ InOrder(t)
    BY DEF CountInv
  <1>1. /\ local[t].last_nonce = 0 /\ local[t].chal.nonce = 0 /\ call[t].at = "idle" /\ nonce = 1
        /\ built[t] = <<>>
    BY DEF DigestInit, NoChallenge, Idle
  <1> QED
    BY <1>1 DEF Ahead, InOrder

\* Until a thread's counter is about to wrap, it never puts the same count of the
\* same nonce into two headers, for any number of threads, requests and redirects,
\* whatever fails in between: the count is spent before the callbacks that may
\* raise, the nonce is taken over only after them (prepare_digest, DigestPlan).
THEOREM DigestCountNeverRepeats == DigestSpec /\ []CountsLeft => []CountNeverRepeats
  <1>1. CountInv => CountNeverRepeats
    BY DEF CountInv, Ahead, CountNeverRepeats
  <1>2. DigestTypeOK /\ CountInv /\ CountsLeft /\ [DigestNext]_digestVars => CountInv'
    BY CountPreserved
  <1> QED
    BY <1>1, <1>2, CountInit, DigestTypeCorrect, PTL DEF DigestSpec

----------------------------------------------------------------------------
(* One resend for each hop.                                                  *)

\* A thread that has prepared a request counts its 401s from one.
Begun(l) == l.init => l.num_401_calls >= 1

\* Of a call c, by a thread that has counted n 401s: a resend follows the count of
\* two, and the second handle_401 (hook 3) finds the answer to it at two or more.
Once(c, n) ==
    c.at # "idle" =>
      /\ c.resent <= 1
      /\ c.at = "401" => c.hook \in {1, 3} /\ n >= 1
      /\ c.at = "401" /\ c.step > 3 => n >= 2 /\ c.resent = 0
      /\ c.at = "401" /\ c.resent > 0 => n >= 2 /\ c.hook = 3
      /\ c.at = "hooks" /\ c.resent > 0 => c.hook >= 2
      /\ c.at = "hooks" /\ c.resent > 0 /\ c.response.status = "unauthorized" => n >= 2 \/ c.hook >= 4

ResendInv == \A t \in Threads : Begun(local[t]) /\ Once(call[t], local[t].num_401_calls)

\* The numbers a call is counted with.
LEMMA CallNumbers ==
    ASSUME DigestTypeOK, NEW t \in Threads
    PROVE  /\ local[t].num_401_calls \in Nat
           /\ call[t].at # "idle" => call[t].resent \in Nat /\ call[t].hook \in Nat /\ call[t].req \in Requests
  <1>1. local[t].num_401_calls \in Nat
    BY DEF DigestTypeOK, Locals
  <1>2. CASE call[t].at # "idle"
    <2>1. call[t] \in CallsInside
      BY <1>2, InsideTypes
    <2> QED
      BY <1>1, <2>1 DEF CallsInside
  <1> QED
    BY <1>1, <1>2

\* A step of thread t keeps the invariant if it keeps it for t.
LEMMA ResendStep ==
    ASSUME DigestTypeOK, ResendInv, NEW t \in Threads, Moves(t),
           Begun(local'[t]), Once(call'[t], local'[t].num_401_calls)
    PROVE  ResendInv'
  <1>1. ASSUME NEW u \in Threads PROVE Begun(local'[u]) /\ Once(call'[u], local'[u].num_401_calls)
    <2>1. CASE u = t
      BY <2>1
    <2>2. CASE u # t
      <3>1. local'[u] = local[u] /\ call'[u] = call[u]
        BY <2>2 DEF Moves, DigestTypeOK
      <3> QED
        BY <3>1 DEF ResendInv
    <2> QED
      BY <2>1, <2>2
  <1> QED
    BY <1>1 DEF ResendInv

\* A header, made or not, leaves the count of 401s alone.
LEMMA BegunHeader ==
    ASSUME NEW l \in Locals, Begun(l)
    PROVE  Begun(Counted(l)) /\ Begun(Used(l))
  BY HeaderFrame DEF Begun

\* Every step keeps the invariant, if the auth object is applied at most twice to
\* a request.
LEMMA ResendPreserved ==
    ASSUME MaxHooks <= 2, DigestTypeOK, ResendInv, [DigestNext]_digestVars
    PROVE  ResendInv'
  <1>1. CASE UNCHANGED digestVars
    BY <1>1 DEF digestVars, ResendInv
  <1>2. ASSUME NEW t \in Threads,
               \/ Work(t) \/ Fail(t)
               \/ \E r \in Requests : Authenticate(t, r) \/ AuthenticateFails(t, r) \/ Start(t, r)
        PROVE  ResendInv'
    <2> DEFINE c == call[t]
               d == call'[t]
               n == local[t].num_401_calls
               m == local'[t].num_401_calls
    <2>1. /\ Begun(local[t]) /\ Once(c, n) /\ local[t] \in Locals /\ n \in Nat
          /\ c.at # "idle" => c.resent \in Nat /\ c.hook \in Nat /\ c.req \in Requests
      BY CallNumbers DEF ResendInv, DigestTypeOK
    <2>2. Begun(Counted(local[t])) /\ Begun(Used(local[t]))
      BY <2>1, BegunHeader
    <2>3. CASE Transmit(t)
      <3>1. Moves(t) /\ local' = local /\ d.at = "hooks" /\ d.resent = 0
        BY <2>3, TransmitEffect
      <3>2. Begun(local'[t]) /\ Once(d, m)
        BY <2>1, <3>1 DEF Once
      <3> QED
        BY <3>1, <3>2, ResendStep
    <2>4. CASE Resend(t)
      <3>1. /\ Moves(t) /\ local' = local /\ c.at = "401" /\ c.step = 11 /\ d.at = "hooks"
            /\ d.resent = c.resent + 1 /\ d.hook = c.hook + 1
        BY <2>4, ResendEffect
      <3>2. n >= 2 /\ c.resent = 0 /\ c.hook \in {1, 3}
        BY <2>1, <3>1 DEF Once
      <3>3. Begun(local'[t]) /\ Once(d, m)
        BY <2>1, <3>1, <3>2 DEF Once
      <3> QED
        BY <3>1, <3>3, ResendStep
    <2>5. CASE Handle401(t)
      <3>1. Moves(t) /\ c.at = "hooks"
        BY <2>5, Handle401Effect
      <3>2. CASE d.at = "idle"
        <4>1. m = 1 \/ local' = local
          BY <2>5, Handle401Effect
        <4>2. Begun(local'[t]) /\ Once(d, m)
          BY <2>1, <3>2, <4>1 DEF Begun, Once
        <4> QED
          BY <3>1, <4>2, ResendStep
      <3>3. CASE d.at = "hooks"
        <4>1. d.at # "idle"
          BY <3>3
        <4>2. /\ c.response.status # "unauthorized" /\ d.hook = c.hook + 1 /\ m = 1
              /\ d.resent = c.resent /\ d.response = c.response
          BY <2>5, <3>3, <4>1, Handle401Effect
        <4>3. Begun(local'[t]) /\ Once(d, m)
          BY <2>1, <3>1, <3>3, <4>2 DEF Begun, Once
        <4> QED
          BY <3>1, <4>3, ResendStep
      <3>4. CASE d.at = "401"
        <4>1. d.at # "idle" /\ d.at # "hooks"
          BY <3>4
        <4>2. /\ c.response.status = "unauthorized" /\ local' = local /\ d.step = 1
              /\ d.hook = c.hook /\ local[t].init /\ c.hook % 2 = 1
              /\ c.hook <= 2 * request[c.req].hooks
              /\ d.resent = c.resent
          BY <2>5, <4>1, Handle401Effect
        <4>3. n >= 1
          BY <2>1, <4>2 DEF Begun
        <4>4. request[c.req].hooks \in 0..MaxHooks
          BY <2>1, <3>1 DEF DigestTypeOK
        <4>5. c.hook \in {1, 3}
          <5>1. c.hook \in Nat /\ c.hook <= 4
            BY <2>1, <3>1, <4>2, <4>4, DigestAssumption
          <5>2. c.hook \in {0, 1, 2, 3, 4}
            BY <5>1
          <5> QED
            BY <4>2, <5>2
        <4>6. c.resent > 0 => n >= 2 /\ c.hook = 3
          BY <2>1, <3>1, <4>2, <4>5 DEF Once
        <4>7. Begun(local'[t]) /\ Once(d, m)
          BY <2>1, <3>1, <3>4, <4>2, <4>3, <4>5, <4>6 DEF Once
        <4> QED
          BY <3>1, <4>7, ResendStep
      <3>5. d.at \in {"idle", "hooks", "401"}
        BY <2>5, Handle401Effect
      <3> QED
        BY <3>2, <3>3, <3>4, <3>5
    <2>6. CASE HandleRedirect(t)
      <3>1. /\ Moves(t) /\ c.at = "hooks" /\ d.at = "hooks" /\ d.hook = c.hook + 1
            /\ d.resent = c.resent /\ d.response = c.response /\ local'[t].init = local[t].init
            /\ m = IF c.response.status = "redirect" THEN 1 ELSE n
        BY <2>6, HandleRedirectEffect
      <3>2. Begun(local'[t])
        BY <2>1, <3>1 DEF Begun
      <3>3. Once(d, m)
        BY <2>1, <3>1 DEF Once
      <3> QED
        BY <3>1, <3>2, <3>3, ResendStep
    <2>7. CASE Seek(t)
      <3>1. /\ Moves(t) /\ local' = local /\ c.at = "401" /\ d.at = "401" /\ d.step = 3
            /\ d.hook = c.hook /\ d.resent = c.resent
        BY <2>7, SeekEffect
      <3>2. Begun(local'[t]) /\ Once(d, m)
        BY <2>1, <3>1 DEF Once
      <3> QED
        BY <3>1, <3>2, ResendStep
    <2>8. CASE Increment(t)
      <3>1. /\ Moves(t) /\ c.at = "401" /\ d.resent = c.resent /\ m >= 1
            /\ \/ d.at = "hooks" /\ d.hook = c.hook + 1
               \/ n < 2 /\ m = n + 1 /\ d.at = "401" /\ d.hook = c.hook
        BY <2>8, IncrementEffect
      <3>2. /\ c.hook \in {1, 3} /\ n >= 1 /\ c.resent <= 1
            /\ c.resent > 0 => n >= 2 /\ c.hook = 3
        BY <2>1, <3>1 DEF Once
      <3>3. Begun(local'[t])
        BY <3>1 DEF Begun
      <3>4. CASE d.at = "hooks" /\ d.hook = c.hook + 1
        <4>1. Once(d, m)
          BY <2>1, <3>1, <3>2, <3>4 DEF Once
        <4> QED
          BY <3>1, <3>3, <4>1, ResendStep
      <3>5. CASE n < 2 /\ m = n + 1 /\ d.at = "401" /\ d.hook = c.hook
        <4>1. Once(d, m)
          BY <2>1, <3>1, <3>2, <3>5 DEF Once
        <4> QED
          BY <3>1, <3>3, <4>1, ResendStep
      <3> QED
        BY <3>1, <3>4, <3>5
    <2>9. CASE Parse(t)
      <3>1. /\ Moves(t) /\ c.at = "401" /\ c.step = 4 /\ d.at = "401"
            /\ d.hook = c.hook /\ d.resent = c.resent /\ m = n /\ local'[t].init = local[t].init
        BY <2>9, ParseEffect
      <3>2. Begun(local'[t])
        BY <2>1, <3>1 DEF Begun
      <3>3. Once(d, m)
        BY <2>1, <3>1 DEF Once
      <3> QED
        BY <3>1, <3>2, <3>3, ResendStep
    <2>10. CASE ConsumeOrClose(t)
      <3>1. /\ Moves(t) /\ local' = local /\ c.at = "401" /\ c.step \in {5, 6} /\ d.at = "401"
            /\ d.hook = c.hook /\ d.resent = c.resent
        BY <2>10, ConsumeOrCloseEffect
      <3>2. Begun(local'[t]) /\ Once(d, m)
        BY <2>1, <3>1 DEF Once
      <3> QED
        BY <3>1, <3>2, ResendStep
    <2>11. CASE BuildDigestHeader(t)
      <3>1. /\ Moves(t) /\ local'[t] = Used(local[t]) /\ c.at = "401" /\ c.step = 10 /\ d.at = "401"
            /\ d.hook = c.hook /\ d.resent = c.resent
        BY <2>11, BuildDigestHeaderEffect
      <3>2. m = n
        BY <2>1, <3>1, HeaderFrame
      <3>3. Begun(local'[t]) /\ Once(d, m)
        BY <2>1, <2>2, <3>1, <3>2 DEF Once
      <3> QED
        BY <3>1, <3>3, ResendStep
    <2>12. CASE BuildFails(t)
      <3>1. /\ Moves(t) /\ d.at = "idle"
            /\ local'[t] = local[t] \/ local'[t] = Counted(local[t])
        BY <2>12, BuildFailsEffect
      <3>2. Begun(local'[t]) /\ Once(d, m)
        BY <2>1, <2>2, <3>1 DEF Once
      <3> QED
        BY <3>1, <3>2, ResendStep
    <2>13. CASE Follow(t)
      <3>1. /\ Moves(t) /\ local' = local /\ c.at = "hooks"
            /\ d.at = "idle" \/ (d.at = "send" /\ d.resent = c.resent)
        BY <2>13, FollowEffect
      <3>2. Begun(local'[t]) /\ Once(d, m)
        BY <2>1, <3>1 DEF Once
      <3> QED
        BY <3>1, <3>2, ResendStep
    <2>14. CASE Fail(t) \/ Deliver(t)
      <3>1. Moves(t) /\ local' = local /\ d.at = "idle"
        BY <2>14, EndEffect
      <3>2. Begun(local'[t]) /\ Once(d, m)
        BY <2>1, <3>1 DEF Once
      <3> QED
        BY <3>1, <3>2, ResendStep
    <2>15. ASSUME NEW r \in Requests, Authenticate(t, r) PROVE ResendInv'
      <3>1. Moves(t) /\ d.at = "idle" /\ m = 1
        BY <2>15, AuthenticateEffect
      <3>2. Begun(local'[t]) /\ Once(d, m)
        BY <3>1 DEF Begun, Once
      <3> QED
        BY <3>1, <3>2, ResendStep
    <2>16. ASSUME NEW r \in Requests, AuthenticateFails(t, r) PROVE ResendInv'
      <3>1. /\ Moves(t) /\ d.at = "idle"
            /\ local'[t] = local[t] \/ local'[t] = Counted(local[t])
        BY <2>16, AuthenticateFailsEffect
      <3>2. Begun(local'[t]) /\ Once(d, m)
        BY <2>1, <2>2, <3>1 DEF Once
      <3> QED
        BY <3>1, <3>2, ResendStep
    <2>17. ASSUME NEW r \in Requests, Start(t, r) PROVE ResendInv'
      <3>1. Moves(t) /\ local' = local /\ d.at = "send" /\ d.resent = 0
        BY <2>17, StartEffect
      <3>2. Begun(local'[t]) /\ Once(d, m)
        BY <2>1, <3>1 DEF Once
      <3> QED
        BY <3>1, <3>2, ResendStep
    <2> QED
      BY <1>2, <2>3, <2>4, <2>5, <2>6, <2>7, <2>8, <2>9, <2>10, <2>11, <2>12, <2>13, <2>14, <2>15,
         <2>16, <2>17 DEF Work
  <1> QED
    BY <1>1, <1>2 DEF DigestNext

----------------------------------------------------------------------------
(* A resend starts where the body starts.                                    *)

\* A thread's saved position is the start of the body it belongs to.
SavedStart(l) ==
    l.owner \in Requests => l.pos = IF BodyOf[l.owner] = "bytes" THEN NoPos ELSE 0

\* Between the rewind and the resend the body of the thread's own request is at its
\* start, and a resend began there.
Rewound(t) ==
    /\ call[t].at = "401" /\ call[t].step > 1 /\ BodyOf[call[t].req] = "file"
         /\ local[t].owner = call[t].req => request[call[t].req].at = 0
    /\ call[t].at # "idle" /\ call[t].resent > 0 /\ BodyOf[call[t].req] # "tell"
         /\ local[t].owner = call[t].req => call[t].from = 0

\* No body is read by two sends at a time; bytes have no position.
OwnBodies ==
    /\ \A r \in Requests : BodyOf[r] = "bytes" => request[r].at = 0
    /\ \A t, u \in Threads :
         t # u /\ call[t].at # "idle" /\ call[u].at # "idle" => call[t].req # call[u].req

BodyInv == OwnBodies /\ \A t \in Threads : SavedStart(local[t]) /\ Rewound(t)

\* A step of thread t keeps the invariant if it moves no body but that of its own
\* send, and keeps the invariant for t.
LEMMA BodyStep ==
    ASSUME DigestTypeOK, BodyInv, NEW t \in Threads, Moves(t),
           \A r \in Requests : request'[r].at = request[r].at
                               \/ (call[t].at # "idle" /\ r = call[t].req),
           \A r \in Requests : BodyOf[r] = "bytes" => request'[r].at = 0,
           call'[t].at # "idle" =>
             \A u \in Threads : u # t /\ call[u].at # "idle" => call[u].req # call'[t].req,
           SavedStart(local'[t]), Rewound(t)'
    PROVE  BodyInv'
  <1>1. ASSUME NEW u \in Threads, u # t
        PROVE  local'[u] = local[u] /\ call'[u] = call[u]
    BY <1>1 DEF Moves, DigestTypeOK
  <1>2. ASSUME NEW u \in Threads PROVE SavedStart(local'[u]) /\ Rewound(u)'
    <2>1. CASE u = t
      BY <2>1
    <2>2. CASE u # t
      <3>1. local'[u] = local[u] /\ call'[u] = call[u]
        BY <1>1, <2>2
      <3>2. SavedStart(local[u]) /\ Rewound(u)
        BY DEF BodyInv
      <3>3. CASE call[u].at = "idle"
        BY <3>1, <3>2, <3>3 DEF Rewound
      <3>4. CASE call[u].at # "idle"
        <4>1. call[u].req \in Requests
          BY <3>4, CallNumbers
        <4>2. call[t].at # "idle" => call[t].req # call[u].req
          BY <2>2, <3>4 DEF BodyInv, OwnBodies
        <4>3. request'[call[u].req].at = request[call[u].req].at
          BY <4>1, <4>2
        <4> QED
          BY <3>1, <3>2, <4>3 DEF Rewound
      <3> QED
        BY <3>3, <3>4
    <2> QED
      BY <2>1, <2>2
  <1>3. ASSUME NEW u \in Threads, NEW v \in Threads, u # v, call'[u].at # "idle", call'[v].at # "idle"
        PROVE  call'[u].req # call'[v].req
    <2>1. CASE u = t
      BY <1>1, <1>3, <2>1
    <2>2. CASE v = t
      BY <1>1, <1>3, <2>2
    <2>3. CASE u # t /\ v # t
      <3>1. call'[u] = call[u] /\ call'[v] = call[v]
        BY <1>1, <2>3
      <3> QED
        BY <1>3, <3>1 DEF BodyInv, OwnBodies
    <2> QED
      BY <2>1, <2>2, <2>3
  <1> QED
    BY <1>2, <1>3 DEF BodyInv, OwnBodies

\* A step that reads and rewinds no body, and keeps or leaves the send it is in.
LEMMA BodyStays ==
    ASSUME DigestTypeOK, BodyInv, NEW t \in Threads, Moves(t),
           \A r \in Requests : request'[r].at = request[r].at,
           local'[t].owner = local[t].owner, local'[t].pos = local[t].pos,
           call'[t].at # "idle" =>
             /\ call[t].at # "idle" /\ call'[t].req = call[t].req /\ call'[t].from = call[t].from
             /\ call'[t].resent = call[t].resent
             /\ call'[t].at = "401" /\ call'[t].step > 1 => call[t].at = "401" /\ call[t].step > 1
    PROVE  BodyInv'
  <1>1. SavedStart(local[t]) /\ Rewound(t) /\ OwnBodies
    BY DEF BodyInv
  <1>2. SavedStart(local'[t])
    BY <1>1 DEF SavedStart
  <1>3. \A r \in Requests : BodyOf[r] = "bytes" => request'[r].at = 0
    BY <1>1 DEF OwnBodies
  <1>4. call'[t].at # "idle" =>
          \A u \in Threads : u # t /\ call[u].at # "idle" => call[u].req # call'[t].req
    BY <1>1 DEF OwnBodies
  <1>5. Rewound(t)'
    <2>1. CASE call'[t].at = "idle"
      BY <2>1 DEF Rewound
    <2>2. CASE call'[t].at # "idle"
      <3>1. /\ call[t].at # "idle" /\ call'[t].req = call[t].req /\ call'[t].from = call[t].from
            /\ call'[t].resent = call[t].resent
            /\ call'[t].at = "401" /\ call'[t].step > 1 => call[t].at = "401" /\ call[t].step > 1
        BY <2>2
      <3>2. request'[call[t].req].at = request[call[t].req].at
        BY <3>1, CallNumbers
      <3> QED
        BY <1>1, <3>1, <3>2 DEF Rewound
    <2> QED
      BY <2>1, <2>2
  <1> QED
    BY <1>2, <1>3, <1>4, <1>5, BodyStep

\* Every step keeps the invariant.
LEMMA BodyPreserved ==
    ASSUME DigestTypeOK, BodyInv, [DigestNext]_digestVars
    PROVE  BodyInv'
  <1>1. CASE UNCHANGED digestVars
    BY <1>1 DEF digestVars, BodyInv, OwnBodies, Rewound
  <1>2. ASSUME NEW t \in Threads,
               \/ Work(t) \/ Fail(t)
               \/ \E r \in Requests : Authenticate(t, r) \/ AuthenticateFails(t, r) \/ Start(t, r)
        PROVE  BodyInv'
    <2> DEFINE c == call[t]
               d == call'[t]
               q == call[t].req
    <2>1. /\ SavedStart(local[t]) /\ Rewound(t) /\ local[t] \in Locals
          /\ c.at # "idle" => q \in Requests
          /\ \A r \in Requests : BodyOf[r] = "bytes" => request[r].at = 0
          /\ c.at # "idle" => \A u \in Threads : u # t /\ call[u].at # "idle" => call[u].req # q
      BY CallNumbers DEF BodyInv, OwnBodies, DigestTypeOK
    <2>2. ASSUME NEW n \in Nat, request' = [request EXCEPT ![q].at = n], c.at # "idle",
                 BodyOf[q] = "bytes" => n = 0, Moves(t), local' = local,
                 d.at # "idle" => d.req = q, Rewound(t)'
          PROVE  BodyInv'
      <3>1. /\ request'[q].at = n
            /\ \A r \in Requests : r # q => request'[r].at = request[r].at
        BY <2>1, <2>2, RequestMoves
      <3>2. \A r \in Requests : BodyOf[r] = "bytes" => request'[r].at = 0
        BY <2>1, <2>2, <3>1
      <3>3. \A r \in Requests : request'[r].at = request[r].at \/ (c.at # "idle" /\ r = q)
        BY <2>2, <3>1
      <3>4. d.at # "idle" => \A u \in Threads : u # t /\ call[u].at # "idle" => call[u].req # d.req
        BY <2>1, <2>2
      <3>5. SavedStart(local'[t])
        BY <2>1, <2>2
      <3> QED
        BY <2>2, <3>2, <3>3, <3>4, <3>5, BodyStep
    <2>3. CASE Transmit(t)
      <3>1. /\ Moves(t) /\ local' = local /\ c.at = "send" /\ d.at = "hooks" /\ d.req = q
            /\ d.resent = 0 /\ request' = [request EXCEPT ![q].at = AfterSending(q)]
        BY <2>3, TransmitEffect
      <3>2. AfterSending(q) \in Nat /\ (BodyOf[q] = "bytes" => AfterSending(q) = 0)
        BY DEF AfterSending
      <3>3. Rewound(t)'
        BY <3>1 DEF Rewound
      <3> QED
        BY <2>2, <3>1, <3>2, <3>3
    <2>4. CASE Resend(t)
      <3>1. /\ Moves(t) /\ local' = local /\ c.at = "401" /\ c.step = 11 /\ d.at = "hooks" /\ d.req = q
            /\ d.from = request[q].at /\ request' = [request EXCEPT ![q].at = AfterSending(q)]
        BY <2>4, ResendEffect
      <3>2. AfterSending(q) \in Nat /\ (BodyOf[q] = "bytes" => AfterSending(q) = 0)
        BY DEF AfterSending
      <3>3. q \in Requests /\ BodyOf[q] \in {"bytes", "file", "tell"}
        BY <2>1, <3>1, DigestAssumption
      <3>4. BodyOf[q] # "tell" /\ local[t].owner = q => d.from = 0
        BY <2>1, <3>1, <3>3 DEF Rewound
      <3>5. Rewound(t)'
        BY <3>1, <3>4 DEF Rewound
      <3> QED
        BY <2>2, <3>1, <3>2, <3>5
    <2>5. CASE Seek(t)
      <3> DEFINE n == IF local[t].pos # NoPos /\ BodyOf[q] = "file" THEN local[t].pos ELSE request[q].at
      <3>1. /\ Moves(t) /\ local' = local /\ c.at = "401" /\ d.at = "401" /\ d.req = q
            /\ d.from = c.from /\ d.resent = c.resent
            /\ request' = [request EXCEPT ![q].at = IF local[t].pos # NoPos /\ BodyOf[q] = "file"
                                                    THEN local[t].pos ELSE @]
        BY <2>5, SeekEffect
      <3>2. q \in Requests
        BY <2>1, <3>1
      <3>3. n \in Nat /\ request' = [request EXCEPT ![q].at = n]
        BY <2>1, <3>1, <3>2 DEF DigestTypeOK, Locals
      <3>4. BodyOf[q] = "bytes" => n = 0
        BY <2>1, <3>2
      <3>5. BodyOf[q] = "file" /\ local[t].owner = q => n = 0
        BY <2>1, <3>2 DEF SavedStart, NoPos
      <3> HIDE DEF n
      <3>6. request'[q].at = n
        BY <3>2, <3>3, RequestMoves
      <3>7. Rewound(t)'
        BY <2>1, <3>1, <3>5, <3>6 DEF Rewound
      <3> QED
        BY <2>2, <3>1, <3>3, <3>4, <3>7
    <2>6. CASE Follow(t)
      <3> DEFINE n == IF BodyOf[q] = "file" THEN 0 ELSE request[q].at
      <3>1. /\ Moves(t) /\ local' = local /\ c.at = "hooks"
            /\ \/ d.at = "idle"
               \/ d.at = "send" /\ d.req = q /\ d.resent = c.resent /\ d.from = c.from
            /\ request' = [request EXCEPT ![q].at = IF BodyOf[q] = "file" THEN 0 ELSE @]
        BY <2>6, FollowEffect
      <3>2. q \in Requests
        BY <2>1, <3>1
      <3>3. n \in Nat /\ request' = [request EXCEPT ![q].at = n]
        BY <3>1, <3>2 DEF DigestTypeOK
      <3>4. BodyOf[q] = "bytes" => n = 0
        BY <2>1, <3>2
      <3> HIDE DEF n
      <3>5. Rewound(t)'
        BY <2>1, <3>1 DEF Rewound
      <3>6. d.at # "idle" => d.req = q
        BY <3>1
      <3> QED
        BY <2>2, <3>1, <3>3, <3>4, <3>5, <3>6
    <2>7. CASE Handle401(t)
      <3>1. /\ Moves(t) /\ c.at = "hooks" /\ local'[t].owner = local[t].owner
            /\ local'[t].pos = local[t].pos /\ \A r \in Requests : request'[r].at = request[r].at
            /\ d.at # "idle" => d.req = q /\ d.resent = c.resent /\ d.from = c.from
            /\ d.at = "401" => d.step = 1
        BY <2>7, Handle401Effect DEF Offline
      <3> QED
        BY <3>1, BodyStays
    <2>8. CASE HandleRedirect(t)
      <3>1. /\ Moves(t) /\ c.at = "hooks" /\ local'[t].owner = local[t].owner
            /\ local'[t].pos = local[t].pos /\ \A r \in Requests : request'[r].at = request[r].at
            /\ d.at = "hooks" /\ d.req = q /\ d.resent = c.resent /\ d.from = c.from
        BY <2>8, HandleRedirectEffect DEF Offline
      <3> QED
        BY <3>1, BodyStays
    <2>9. CASE Increment(t)
      <3>1. /\ Moves(t) /\ c.at = "401" /\ c.step = 3 /\ local'[t].owner = local[t].owner
            /\ local'[t].pos = local[t].pos /\ \A r \in Requests : request'[r].at = request[r].at
            /\ d.req = q /\ d.resent = c.resent /\ d.from = c.from
        BY <2>9, IncrementEffect DEF Offline
      <3> QED
        BY <3>1, BodyStays
    <2>10. CASE Parse(t)
      <3>1. /\ Moves(t) /\ c.at = "401" /\ c.step = 4 /\ local'[t].owner = local[t].owner
            /\ local'[t].pos = local[t].pos /\ \A r \in Requests : request'[r].at = request[r].at
            /\ d.req = q /\ d.resent = c.resent /\ d.from = c.from
        BY <2>10, ParseEffect DEF Offline
      <3> QED
        BY <3>1, BodyStays
    <2>11. CASE ConsumeOrClose(t)
      <3>1. /\ Moves(t) /\ c.at = "401" /\ c.step \in {5, 6} /\ local' = local
            /\ \A r \in Requests : request'[r].at = request[r].at
            /\ d.req = q /\ d.resent = c.resent /\ d.from = c.from
        BY <2>11, ConsumeOrCloseEffect DEF Offline
      <3>2. c.step > 1
        BY <3>1
      <3> QED
        BY <3>1, <3>2, BodyStays
    <2>12. CASE BuildDigestHeader(t)
      <3>1. /\ Moves(t) /\ c.at = "401" /\ c.step = 10 /\ local'[t] = Used(local[t])
            /\ \A r \in Requests : request'[r].at = request[r].at
            /\ d.req = q /\ d.resent = c.resent /\ d.from = c.from
        BY <2>12, BuildDigestHeaderEffect DEF Offline
      <3>2. local'[t].owner = local[t].owner /\ local'[t].pos = local[t].pos
        BY <2>1, <3>1, HeaderFrame
      <3> QED
        BY <3>1, <3>2, BodyStays
    <2>13. CASE BuildFails(t)
      <3>1. /\ Moves(t) /\ d.at = "idle" /\ local'[t].owner = local[t].owner
            /\ local'[t].pos = local[t].pos /\ \A r \in Requests : request'[r].at = request[r].at
        BY <2>13, BuildFailsEffect DEF Offline
      <3> QED
        BY <3>1, BodyStays
    <2>14. CASE Fail(t) \/ Deliver(t)
      <3>1. /\ Moves(t) /\ d.at = "idle" /\ local' = local
            /\ \A r \in Requests : request'[r].at = request[r].at
        BY <2>14, EndEffect DEF Offline
      <3> QED
        BY <3>1, BodyStays
    <2>15. ASSUME NEW r \in Requests, Authenticate(t, r) PROVE BodyInv'
      <3>1. /\ Moves(t) /\ d.at = "idle" /\ \A s \in Requests : request'[s].at = request[s].at
            /\ local'[t].owner = IF request[r].at = 0 THEN r ELSE "nobody"
            /\ local'[t].pos = TellOf(r)
        BY <2>15, AuthenticateEffect DEF Offline
      <3>2. SavedStart(local'[t])
        BY <3>1, DigestAssumption DEF SavedStart, TellOf
      <3>3. Rewound(t)'
        BY <3>1 DEF Rewound
      <3> QED
        BY <2>1, <3>1, <3>2, <3>3, BodyStep
    <2>16. ASSUME NEW r \in Requests, AuthenticateFails(t, r) PROVE BodyInv'
      <3>1. /\ Moves(t) /\ d.at = "idle" /\ local'[t].owner = local[t].owner
            /\ local'[t].pos = local[t].pos /\ \A s \in Requests : request'[s].at = request[s].at
        BY <2>16, AuthenticateFailsEffect DEF Offline
      <3> QED
        BY <3>1, BodyStays
    <2>17. ASSUME NEW r \in Requests, Start(t, r) PROVE BodyInv'
      <3>1. /\ Moves(t) /\ d.at = "send" /\ d.req = r /\ d.resent = 0 /\ local' = local
            /\ \A s \in Requests : request'[s].at = request[s].at
            /\ \A u \in Threads : call[u].at # "idle" => call[u].req # r
        BY <2>17, StartEffect DEF Offline
      <3>2. Rewound(t)'
        BY <3>1 DEF Rewound
      <3>3. SavedStart(local'[t])
        BY <2>1, <3>1
      <3> QED
        BY <2>1, <3>1, <3>2, <3>3, BodyStep
    <2> QED
      BY <1>2, <2>3, <2>4, <2>5, <2>6, <2>7, <2>8, <2>9, <2>10, <2>11, <2>12, <2>13, <2>14, <2>15,
         <2>16, <2>17 DEF Work
  <1> QED
    BY <1>1, <1>2 DEF DigestNext

\* At the start no send runs and no body was read.
LEMMA ResendInit == DigestInit => ResendInv /\ BodyInv
  <1> SUFFICES ASSUME DigestInit PROVE ResendInv /\ BodyInv
    OBVIOUS
  <1>1. /\ \A t \in Threads : call[t].at = "idle" /\ ~local[t].init /\ local[t].owner = "nobody"
        /\ \A r \in Requests : request[r].at = 0
    BY DEF DigestInit, Idle
  <1>2. ResendInv
    BY <1>1 DEF ResendInv, Begun, Once
  <1>3. BodyInv
    BY <1>1, DigestAssumption DEF BodyInv, OwnBodies, SavedStart, Rewound
  <1> QED
    BY <1>2, <1>3

\* A resend starts no later in its body than the send it repeats, for any number of
\* threads, requests and redirects, if the body can seek and the thread prepared no
\* other request in between: the saved position is one field of the thread.
THEOREM DigestResendsWholeBody == DigestSpec => []ResendsWholeBody
  <1>1. DigestTypeOK /\ BodyInv => ResendsWholeBody
    <2> SUFFICES ASSUME DigestTypeOK, BodyInv, NEW t \in Threads, call[t].at # "idle",
                        call[t].resent > 0, BodyOf[call[t].req] # "tell",
                        local[t].owner = call[t].req
                 PROVE  call[t].from <= call[t].first
      BY DEF ResendsWholeBody
    <2>1. call[t].from = 0
      BY DEF BodyInv, Rewound
    <2>2. call[t] \in CallsInside
      BY InsideTypes
    <2>3. call[t].first \in Nat
      BY <2>2 DEF CallsInside
    <2> QED
      BY <2>1, <2>3
  <1> QED
    BY <1>1, ResendInit, BodyPreserved, DigestTypeCorrect, PTL DEF DigestSpec

\* With the auth object applied at most twice to a request, the answer to an
\* authenticated resend is not authenticated again, and a resend starts no later in
\* its body than the send it repeats: num_401_calls, which handle_401 resets when it
\* gives up, still ends the exchange, because the hook that gives up is the last.
THEOREM DigestResendIsSound ==
    ASSUME MaxHooks <= 2
    PROVE  DigestSpec => []ResendIsSound
  <1>1. ResendInv => OneResendPerHop
    BY DEF ResendInv, Once, OneResendPerHop
  <1>2. DigestTypeOK /\ ResendInv /\ [DigestNext]_digestVars => ResendInv'
    BY ResendPreserved
  <1>3. DigestSpec => []OneResendPerHop
    BY <1>1, <1>2, ResendInit, DigestTypeCorrect, PTL DEF DigestSpec
  <1>4. OneResendPerHop /\ ResendsWholeBody => ResendIsSound
    BY DEF ResendIsSound
  <1> QED
    BY <1>3, <1>4, DigestResendsWholeBody, PTL
=============================================================================
