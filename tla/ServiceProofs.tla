---------------------------- MODULE ServiceProofs ----------------------------
(***************************************************************************)
(* Proofs about the parts of Parts, components in which several tasks      *)
(* share what answers come through: the mutex of the version queries, the  *)
(* queues of the link, a broadcast channel, the backend of a memory.       *)
(*                                                                         *)
(* A component is an instance here, and its constants are what its         *)
(* ConstantsOK says: the hypothesis of its theorem.                        *)
(*                                                                         *)
(* Platform.  The mutex does not follow a query that is given up: its      *)
(* answer still comes, and the next query takes it for its own.  What can  *)
(* be counted on is how far an answer is behind, and that needs an account *)
(* of all that is under way: OrderOK, the requests and the answers in the  *)
(* queues are consecutive and end with the last one sent; and KindOK, of   *)
(* these only the last is for the query that waits.  HandOutInv is about   *)
(* the app channel, which nothing of this disturbs.                        *)
(*                                                                         *)
(* LinkService.  As long as no test was abandoned, what is under way in a  *)
(* queue is for the one test that has its mutex, and is no more than that  *)
(* test still expects (Flight); nothing is under way in a queue that is    *)
(* free (Quiet).  What the uplink test sends comes before its echo request *)
(* (Last), thus all of it was delivered when it ends (Gone).               *)
(*                                                                         *)
(* Localization.  An angle that came in is in one of three places: with    *)
(* the stream, in the channel or in the queue of the task.  AnglesSent,    *)
(* AnglesComing and AnglesGot say that the channel and the queue are the   *)
(* angles that came in, cut in two, and that a stream has all of the       *)
(* channel that is before it but what was dropped.                         *)
(*                                                                         *)
(* Pages.  While a call goes through the pages the Crazyflie changes them: *)
(* PageHad, what is remembered of the call has what is there now, and      *)
(* PageReads, PageWrites and PageAnchors say of the pages that the call    *)
(* has passed what its result has to say of all of them.                   *)
(*                                                                         *)
(* Deck.  A section keeps the addresses of the slot it was read from, and  *)
(* nothing of the deck that is there now: Found says that it is that deck, *)
(* and DeckHolds that a call has the section it was made on, and that its  *)
(* address reaches that deck and, by Apart, no other.                      *)
(***************************************************************************)
EXTENDS Parts, Integers, Sequences, FiniteSets, FiniteSetTheorems, SequenceTheorems,
        QueueProofs, TLAPS

-----------------------------------------------------------------------------
(* Platform: the types *)

\* A query as a record, and a version packet.
PlatQuery == [kind : Plat!Versions, stage : {"idle", "lock", "wait"},
              request : Nat, answer : Nat, lag : Nat,
              outcome : {"none", "ok", "protocol", "disconnected", "dropped"}]
PlatPacket == [kind : Plat!Versions, request : Nat]

\* The types in two groups, of which an action changes one.
PlatQueryTypes ==
    /\ query \in [Clients -> PlatQuery]
    /\ commGuard \in Clients \union {NoOne}
    /\ asked \in Seq(PlatPacket) /\ versions \in Seq(PlatPacket)
    /\ behind \in Nat /\ requests \in Nat
    /\ queries \in 0..MaxQueries /\ givenUp \in 0..MaxGivenUp
PlatAppTypes ==
    /\ appHome \in BOOLEAN /\ appOwner \in Clients \union {NoOne}
    /\ appQueue \in Seq(Nat) /\ appGot \in [Clients -> Seq(Nat)] /\ appSent \in 0..MaxApp

LEMMA PlatGroups == Plat!TypeOK <=> PlatQueryTypes /\ PlatAppTypes /\ online \in BOOLEAN
  BY DEF Plat!TypeOK, PlatQueryTypes, PlatAppTypes, PlatQuery, PlatPacket

LEMMA PlatGroupsNext ==
    Plat!TypeOK' <=> PlatQueryTypes' /\ PlatAppTypes' /\ (online \in BOOLEAN)'
  BY DEF Plat!TypeOK, PlatQueryTypes, PlatAppTypes, PlatQuery, PlatPacket

\* What a query is about, and its end, for one task and for the others.
LEMMA PlatEnds ==
    ASSUME Plat!ConstantsOK, PlatQueryTypes, NEW t \in Clients,
           NEW o \in {"none", "ok", "protocol", "disconnected", "dropped"}, Plat!End(t, o)
    PROVE  /\ query' \in [Clients -> PlatQuery] /\ commGuard' \in Clients \union {NoOne}
           /\ query'[t].stage = "idle" /\ query'[t].outcome = o
           /\ \A s \in Clients \ {t} : query'[s] = query[s]
  BY DEF PlatQueryTypes, PlatQuery, Plat!End

LEMMA PlatInitTypes == ASSUME Plat!ConstantsOK, Plat!Init PROVE Plat!TypeOK
  BY EmptyFacts DEF Plat!ConstantsOK, Plat!Init, Plat!TypeOK, Plat!Versions

LEMMA PlatNextTypes ==
    ASSUME Plat!ConstantsOK, Plat!TypeOK, [Plat!Next]_Plat!vars
    PROVE  Plat!TypeOK'
<1> USE PlatGroups DEF Plat!ConstantsOK
<1>1. ASSUME NEW t \in Clients, NEW k \in Plat!Versions, Plat!Query(t, k) PROVE Plat!TypeOK'
  <2>1. queries' \in 0..MaxQueries
    BY <1>1 DEF Plat!Query, PlatQueryTypes
  <2>2. query' \in [Clients -> PlatQuery]
    BY <1>1 DEF Plat!Query, PlatQueryTypes, PlatQuery
  <2> QED BY <1>1, <2>1, <2>2, PlatGroupsNext
          DEF Plat!Query, PlatQueryTypes, PlatAppTypes, Plat!appVars
<1>2. ASSUME NEW t \in Clients, Plat!Request(t) PROVE Plat!TypeOK'
  <2>1. CASE Plat!End(t, "disconnected") /\ UNCHANGED <<asked, requests>>
    BY <1>2, <2>1, PlatEnds, PlatGroupsNext
       DEF Plat!Request, PlatQueryTypes, PlatAppTypes, Plat!appVars
  <2>2. CASE requests' = requests + 1 /\ query' = [query EXCEPT ![t].stage = "wait", ![t].request = requests + 1]
                /\ commGuard' = t
                /\ asked' = IF online THEN Append(asked, [kind |-> query[t].kind,
                                                    request |-> requests + 1])
                      ELSE asked
    <3>1. [kind |-> query[t].kind, request |-> requests + 1] \in PlatPacket
      BY DEF PlatQueryTypes, PlatQuery, PlatPacket
    <3>2. asked' \in Seq(PlatPacket)
      BY <2>2, <3>1, AppendFacts DEF PlatQueryTypes
    <3>0. query[t] \in PlatQuery /\ requests + 1 \in Nat
      BY DEF PlatQueryTypes
    <3>3. [query[t] EXCEPT !.stage = "wait", !.request = requests + 1] \in PlatQuery
      BY <3>0 DEF PlatQuery
    <3>4. query' \in [Clients -> PlatQuery]
      BY <2>2, <3>3 DEF PlatQueryTypes
    <3> QED BY <1>2, <2>2, <3>2, <3>4, PlatGroupsNext
            DEF Plat!Request, PlatQueryTypes, PlatAppTypes, Plat!appVars
  <2> QED BY <1>2, <2>1, <2>2 DEF Plat!Request
<1>3. ASSUME NEW t \in Clients, Plat!Answered(t) PROVE Plat!TypeOK'
  <2>1. Head(versions) \in PlatPacket /\ Tail(versions) \in Seq(PlatPacket)
    BY <1>3, QueueFacts DEF Plat!Answered, PlatQueryTypes
  <2>2. \A o \in {"ok", "protocol"} :
          [query[t] EXCEPT !.stage = "idle", !.answer = Head(versions).request,
                           !.lag = behind, !.outcome = o] \in PlatQuery
    BY <2>1 DEF PlatQueryTypes, PlatQuery, PlatPacket
  <2>3. query' \in [Clients -> PlatQuery]
    BY <1>3, <2>2 DEF Plat!Answered, PlatQueryTypes
  <2> QED BY <1>3, <2>1, <2>3, PlatGroupsNext
          DEF Plat!Answered, PlatQueryTypes, PlatAppTypes, Plat!appVars
<1>4. ASSUME NEW t \in Clients, Plat!Closed(t) PROVE Plat!TypeOK'
  <2>1. query' \in [Clients -> PlatQuery] /\ commGuard' \in Clients \union {NoOne}
    BY <1>4, PlatEnds DEF Plat!Closed
  <2>2. PlatQueryTypes' /\ UNCHANGED online
    BY <1>4, <2>1 DEF Plat!Closed, PlatQueryTypes
  <2>3. PlatAppTypes'
    BY <1>4 DEF Plat!Closed, Plat!appVars, PlatAppTypes
  <2> QED BY <2>2, <2>3, PlatGroupsNext
<1>5. ASSUME NEW t \in Clients, Plat!GiveUp(t) PROVE Plat!TypeOK'
  <2>1. query' \in [Clients -> PlatQuery] /\ commGuard' \in Clients \union {NoOne}
    BY <1>5, PlatEnds DEF Plat!GiveUp
  <2>2. behind' \in Nat /\ givenUp' \in 0..MaxGivenUp
    BY <1>5 DEF Plat!GiveUp, PlatQueryTypes
  <2>3. PlatQueryTypes' /\ UNCHANGED online
    BY <1>5, <2>1, <2>2 DEF Plat!GiveUp, PlatQueryTypes
  <2>4. PlatAppTypes'
    BY <1>5 DEF Plat!GiveUp, Plat!appVars, PlatAppTypes
  <2> QED BY <2>3, <2>4, PlatGroupsNext
<1>6. ASSUME NEW t \in Clients, Plat!GetAppChannel(t) PROVE Plat!TypeOK'
  BY <1>6, PlatGroupsNext
     DEF Plat!GetAppChannel, Plat!TakePair, PlatQueryTypes, PlatAppTypes, Plat!queryVars
<1>7. ASSUME NEW t \in Clients, Plat!AppReceive(t) PROVE Plat!TypeOK'
  <2>1. Head(appQueue) \in Nat /\ Tail(appQueue) \in Seq(Nat)
    BY <1>7, QueueFacts DEF Plat!AppReceive, PlatAppTypes
  <2>2. Append(appGot[t], Head(appQueue)) \in Seq(Nat)
    BY <2>1, AppendFacts DEF PlatAppTypes
  <2> QED BY <1>7, <2>1, <2>2, PlatGroupsNext
          DEF Plat!AppReceive, PlatQueryTypes, PlatAppTypes, Plat!queryVars
<1>8. CASE Plat!Serve
  <2>1. Head(asked) \in PlatPacket /\ Tail(asked) \in Seq(PlatPacket)
    BY <1>8, QueueFacts DEF Plat!Serve, PlatQueryTypes
  <2>2. Append(versions, Head(asked)) \in Seq(PlatPacket)
    BY <2>1, AppendFacts DEF PlatQueryTypes
  <2> QED BY <1>8, <2>1, <2>2, PlatGroupsNext
          DEF Plat!Serve, PlatQueryTypes, PlatAppTypes, Plat!appVars
<1>9. CASE Plat!AppArrive
  <2>1. Append(appQueue, appSent + 1) \in Seq(Nat)
    BY AppendFacts DEF PlatAppTypes
  <2>2. appSent' \in 0..MaxApp
    BY <1>9 DEF Plat!AppArrive, PlatAppTypes
  <2> QED BY <1>9, <2>1, <2>2, PlatGroupsNext
          DEF Plat!AppArrive, PlatQueryTypes, PlatAppTypes, Plat!queryVars
<1>10. CASE Plat!Lose
  BY <1>10, EmptyFacts, PlatGroupsNext
     DEF Plat!Lose, PlatQueryTypes, PlatAppTypes, Plat!appVars
<1>11. CASE UNCHANGED Plat!vars
  BY <1>11, PlatGroupsNext
     DEF Plat!vars, Plat!appVars, Plat!queryVars, PlatQueryTypes, PlatAppTypes
<1> QED BY <1>1, <1>2, <1>3, <1>4, <1>5, <1>6, <1>7, <1>8, <1>9, <1>10, <1>11
        DEF Plat!Next, Plat!Step

-----------------------------------------------------------------------------
(* Platform: the answers of the version queries.  The requests are numbered *)
(* as they are sent, and the answers come in that order.                    *)

\* One if a query waits, and the number of the first request whose answer
\* nobody has taken: what is under way begins with it.
Waiting == IF commGuard = NoOne THEN 0 ELSE 1
First == requests + 1 - behind - Waiting

\* The query that waits is the one that has the mutex, and the last to send.
GuardOK ==
    /\ \A t \in Clients : commGuard = t <=> query[t].stage = "wait"
    /\ \A t \in Clients : query[t].stage = "wait" => query[t].request = requests
    /\ \A t \in Clients : query[t].stage # "idle" => query[t].outcome = "none"

\* What is under way is in order, and as long as the link is up complete.
OrderOK ==
    /\ \A i \in 1..Len(versions) : versions[i].request = First + i - 1
    /\ \A i \in 1..Len(asked) : asked[i].request = First + Len(versions) + i - 1
    /\ IF online THEN Len(versions) + Len(asked) = behind + Waiting ELSE asked = <<>>

\* No packet is about a request to come, and the one about the request of the
\* query that waits is of its kind.
Fits(p, last, q) ==
    /\ p.request <= last
    /\ \A t \in Clients : q[t].stage = "wait" /\ p.request = last => p.kind = q[t].kind
KindOK ==
    /\ \A i \in 1..Len(versions) : Fits(versions[i], requests, query)
    /\ \A i \in 1..Len(asked) : Fits(asked[i], requests, query)

QueryInv == GuardOK /\ OrderOK /\ KindOK /\ Plat!AnswersLag /\ Plat!NoProtocolError

LEMMA PlatQueryInit == ASSUME Plat!ConstantsOK, Plat!Init PROVE QueryInv
<1>1. versions = <<>> /\ asked = <<>> /\ Len(<<>>) = 0 /\ Waiting = 0 /\ behind = 0 /\ online
  BY EmptyFacts DEF Plat!Init, Waiting
<1>2. OrderOK /\ KindOK
  BY <1>1 DEF OrderOK, KindOK
<1> QED BY <1>2 DEF QueryInv, GuardOK, Plat!ConstantsOK, Plat!Init, Plat!AnswersLag,
               Plat!NoProtocolError

\* A query ends that waits for nothing, or for an answer that will not come or
\* that stays behind.
LEMMA PlatEndKeeps ==
    ASSUME Plat!ConstantsOK, Plat!TypeOK, Plat!TypeOK', QueryInv,
           NEW t \in Clients, NEW o \in {"disconnected", "dropped"}, Plat!End(t, o),
           UNCHANGED <<requests, online, asked, versions>>,
           \/ behind' = behind /\ commGuard # t
           \/ behind' = behind + 1 /\ commGuard = t
           \/ behind' = behind /\ versions = <<>> /\ ~online
    PROVE  QueryInv'
<1>1. /\ query'[t].stage = "idle" /\ query'[t].outcome = o
      /\ \A s \in Clients \ {t} : query'[s] = query[s]
      /\ commGuard' = IF commGuard = t THEN NoOne ELSE commGuard
  BY PlatEnds, PlatGroups DEF Plat!End
<1>2. behind \in Nat /\ requests \in Nat /\ behind' \in Nat /\ NoOne \notin Clients
  BY PlatGroups DEF PlatQueryTypes, Plat!ConstantsOK
<1>3. GuardOK'
  BY <1>1, <1>2 DEF QueryInv, GuardOK
<1>4. \/ First' = First /\ behind' + Waiting' = behind + Waiting
      \/ asked = <<>> /\ versions = <<>> /\ ~online
  <2>1. CASE behind' = behind /\ versions = <<>> /\ ~online
    BY <2>1 DEF QueryInv, OrderOK
  <2>2. CASE behind' = behind /\ commGuard # t
    BY <1>1, <2>2 DEF First, Waiting
  <2>3. CASE behind' = behind + 1 /\ commGuard = t
    <3>1. Waiting' = 0 /\ Waiting = 1
      BY <1>1, <1>2, <2>3 DEF Waiting
    <3> QED BY <1>2, <2>3, <3>1 DEF First
  <2> QED BY <2>1, <2>2, <2>3
<1>5. Len(<<>>) = 0
  BY EmptyFacts
<1>6. OrderOK'
  BY <1>4, <1>5 DEF OrderOK, QueryInv
<1>7. KindOK'
  <2>1. \A p : Fits(p, requests, query) => Fits(p, requests', query')
    BY <1>1 DEF Fits
  <2> QED BY <2>1 DEF QueryInv, KindOK
<1>8. Plat!AnswersLag' /\ Plat!NoProtocolError'
  BY <1>1, <1>2 DEF QueryInv, Plat!AnswersLag, Plat!NoProtocolError
<1> QED BY <1>3, <1>6, <1>7, <1>8 DEF QueryInv

LEMMA PlatRequestKeeps ==
    ASSUME Plat!ConstantsOK, Plat!TypeOK, Plat!TypeOK', QueryInv,
           NEW t \in Clients, Plat!Request(t)
    PROVE  QueryInv'
<1>1. CASE ~online /\ Plat!End(t, "disconnected") /\ UNCHANGED <<asked, requests>>
  <2>1. commGuard # t /\ UNCHANGED <<requests, online, asked, versions, behind>>
    BY <1>1 DEF Plat!Request, Plat!CommFree, Plat!ConstantsOK
  <2> QED BY <1>1, <2>1, PlatEndKeeps
<1>2. CASE /\ commGuard' = t
           /\ requests' = requests + 1
           /\ query' = [query EXCEPT ![t].stage = "wait", ![t].request = requests + 1]
           /\ asked' = IF online THEN Append(asked, [kind |-> query[t].kind,
                                                    request |-> requests + 1])
                       ELSE asked
  <2>1. /\ behind \in Nat /\ requests \in Nat /\ NoOne \notin Clients
        /\ asked \in Seq(PlatPacket) /\ versions \in Seq(PlatPacket)
        /\ query \in [Clients -> PlatQuery] /\ UNCHANGED <<versions, online, behind>>
        /\ commGuard = NoOne /\ Len(versions) \in Nat /\ Len(asked) \in Nat
    BY <1>2, PlatGroups, QueueFacts
       DEF PlatQueryTypes, Plat!ConstantsOK, Plat!Request, Plat!CommFree
  <2>2. /\ query'[t].stage = "wait" /\ query'[t].request = requests + 1
        /\ query'[t].kind = query[t].kind /\ query'[t].outcome = query[t].outcome
        /\ query'[t].answer = query[t].answer /\ query'[t].lag = query[t].lag
        /\ \A s \in Clients \ {t} : query'[s] = query[s]
    BY <1>2, <2>1 DEF PlatQuery
  <2>3. GuardOK'
    BY <1>2, <2>1, <2>2 DEF QueryInv, GuardOK, Plat!Request, Plat!At
  <2>4. First' = First /\ Waiting' = 1 /\ Waiting = 0 /\ First = requests + 1 - behind
    <3>1. Waiting' = 1 /\ Waiting = 0
      BY <1>2, <2>1 DEF Waiting
    <3>2. behind' = behind /\ requests' = requests + 1
      BY <1>2, <2>1
    <3> QED BY <2>1, <3>1, <3>2 DEF First
  <2>5. \A i \in 1..Len(versions) : versions[i] \in PlatPacket
    BY <2>1, QueueFacts
  <2>6. \A i \in 1..Len(asked) : asked[i] \in PlatPacket
    BY <2>1, QueueFacts
  <2>7. \A p \in PlatPacket : Fits(p, requests, query) => Fits(p, requests', query')
    <3> SUFFICES ASSUME NEW p \in PlatPacket, Fits(p, requests, query)
                 PROVE  Fits(p, requests', query')
      OBVIOUS
    <3>1. p.request \in Nat /\ p.request <= requests
      BY DEF Fits, PlatPacket
    <3> QED BY <1>2, <2>1, <3>1 DEF Fits
  <2>8. Plat!AnswersLag' /\ Plat!NoProtocolError'
    BY <2>1, <2>2, <2>3 DEF QueryInv, GuardOK, Plat!AnswersLag, Plat!NoProtocolError
  <2>9. CASE ~online
    <3>1. OrderOK'
      BY <1>2, <2>1, <2>4, <2>9 DEF QueryInv, OrderOK
    <3>2. KindOK'
      BY <1>2, <2>1, <2>5, <2>6, <2>7, <2>9 DEF QueryInv, KindOK
    <3> QED BY <2>3, <2>8, <3>1, <3>2 DEF QueryInv
  <2>10. CASE online
    <3> DEFINE p == [kind |-> query[t].kind, request |-> requests + 1]
    <3>1. p \in PlatPacket /\ p.request = requests + 1 /\ p.kind = query'[t].kind
      BY <2>1, <2>2 DEF PlatPacket, PlatQuery
    <3>2. asked' = Append(asked, p)
      BY <1>2, <2>10
    <3> HIDE DEF p
    <3>3. /\ Len(asked') = Len(asked) + 1 /\ asked'[Len(asked) + 1] = p
          /\ \A i \in 1..Len(asked) : asked'[i] = asked[i]
          /\ \A i \in 1..Len(asked') : i \in 1..Len(asked) \/ i = Len(asked) + 1
      BY <2>1, <3>1, <3>2, AppendFacts
    <3>4. Len(versions) + Len(asked) = behind
      BY <2>1, <2>4, <2>10 DEF QueryInv, OrderOK
    <3>5. p.request = First + Len(versions) + (Len(asked) + 1) - 1
      BY <2>1, <2>4, <3>1, <3>4
    <3>6. OrderOK'
      <4>1. Len(versions') + Len(asked') = behind' + Waiting'
        <5>1. versions' = versions /\ behind' = behind
          BY <2>1
        <5>2. Waiting' = 1 /\ Len(asked') = Len(asked) + 1
          BY <2>4, <3>3
        <5>3. Len(versions) \in Nat /\ Len(asked) \in Nat /\ behind \in Nat
          BY <2>1
        <5> QED BY <3>4, <5>1, <5>2, <5>3
      <4>2. \A i \in 1..Len(asked') : asked'[i].request = First' + Len(versions') + i - 1
        BY <2>1, <2>4, <3>3, <3>5 DEF QueryInv, OrderOK
      <4>3. \A i \in 1..Len(versions') : versions'[i].request = First' + i - 1
        BY <2>1, <2>4 DEF QueryInv, OrderOK
      <4> QED BY <2>1, <2>10, <4>1, <4>2, <4>3 DEF OrderOK
    <3>7. Fits(p, requests', query')
      <4>1. \A s \in Clients : query'[s].stage = "wait" => s = t
        BY <1>2, <2>3 DEF GuardOK
      <4>2. p.request <= requests'
        BY <1>2, <2>1, <3>1
      <4> QED BY <3>1, <4>1, <4>2 DEF Fits
    <3>8. KindOK'
      BY <2>1, <2>5, <2>6, <2>7, <3>3, <3>7 DEF QueryInv, KindOK
    <3> QED BY <2>3, <2>8, <3>6, <3>8 DEF QueryInv
  <2> QED BY <2>9, <2>10
<1> QED BY <1>1, <1>2 DEF Plat!Request

\* The first answer is that to the request made as many before as there are
\* answers left behind.
LEMMA PlatAnsweredKeeps ==
    ASSUME Plat!ConstantsOK, Plat!TypeOK, Plat!TypeOK', QueryInv,
           NEW t \in Clients, Plat!Answered(t)
    PROVE  QueryInv'
<1>1. /\ behind \in Nat /\ requests \in Nat /\ NoOne \notin Clients
      /\ asked \in Seq(PlatPacket) /\ versions \in Seq(PlatPacket)
      /\ query \in [Clients -> PlatQuery] /\ versions # <<>>
      /\ behind' = behind /\ requests' = requests /\ asked' = asked /\ online' = online
      /\ versions' = Tail(versions) /\ query[t].stage = "wait" /\ commGuard = t
      /\ commGuard' = NoOne
  BY PlatGroups DEF PlatQueryTypes, Plat!ConstantsOK, Plat!Answered, Plat!At, QueryInv, GuardOK
<1>2. PICK p : p = versions[1]
  OBVIOUS
<1>3. /\ p \in PlatPacket /\ Head(versions) = p
      /\ Len(versions) \in Nat \ {0} /\ Len(asked) \in Nat /\ Len(versions') = Len(versions) - 1
      /\ \A i \in 1..Len(versions') : versions'[i] = versions[i + 1] /\ i + 1 \in 1..Len(versions)
      /\ 1 \in 1..Len(versions)
  BY <1>1, <1>2, QueueFacts
<1>4. Waiting = 1 /\ Waiting' = 0
  BY <1>1 DEF Waiting
<1>5. First' = First + 1 /\ First = requests - behind
  BY <1>1, <1>4 DEF First
<1>6. p.request = requests - behind
  <2>1. p.request = First + 1 - 1
    BY <1>2, <1>3 DEF QueryInv, OrderOK
  <2> QED BY <1>1, <1>5, <2>1
<1>7. /\ query'[t].stage = "idle" /\ query'[t].request = requests
      /\ query'[t].answer = p.request /\ query'[t].lag = behind
      /\ query'[t].outcome = IF p.kind = query[t].kind THEN "ok" ELSE "protocol"
      /\ \A s \in Clients \ {t} : query'[s] = query[s]
  BY <1>1, <1>3 DEF Plat!Answered, PlatQuery, QueryInv, GuardOK
<1>8. GuardOK'
  BY <1>1, <1>7 DEF QueryInv, GuardOK
<1>9. OrderOK'
  <2>1. Len(versions') + Len(asked') = behind' + Waiting' \/ ~online
    BY <1>1, <1>3, <1>4 DEF QueryInv, OrderOK
  <2>2. First' \in Int /\ First \in Int
    BY <1>1, <1>5
  <2>3. \A i \in 1..Len(versions') : versions'[i].request = First' + i - 1
    <3> SUFFICES ASSUME NEW i \in 1..Len(versions') PROVE versions'[i].request = First' + i - 1
      OBVIOUS
    <3>1. versions'[i].request = First + (i + 1) - 1
      BY <1>3 DEF QueryInv, OrderOK
    <3>2. i \in Nat
      BY <1>3
    <3> QED BY <1>5, <2>2, <3>1, <3>2
  <2>4. \A i \in 1..Len(asked') : asked'[i].request = First' + Len(versions') + i - 1
    <3> SUFFICES ASSUME NEW i \in 1..Len(asked)
                 PROVE  asked[i].request = First' + Len(versions') + i - 1
      BY <1>1
    <3>1. asked[i].request = First + Len(versions) + i - 1
      BY DEF QueryInv, OrderOK
    <3> QED BY <1>3, <1>5, <2>2, <3>1
  <2>5. ~online => asked = <<>>
    BY DEF QueryInv, OrderOK
  <2> QED BY <1>1, <2>1, <2>3, <2>4, <2>5 DEF OrderOK
<1>10. KindOK'
  <2>1. \A x : Fits(x, requests, query) => Fits(x, requests', query')
    BY <1>1, <1>7 DEF Fits
  <2> QED BY <1>1, <1>3, <2>1 DEF QueryInv, KindOK
<1>11. Plat!AnswersLag'
  BY <1>1, <1>6, <1>7 DEF QueryInv, Plat!AnswersLag
<1>12. Plat!NoProtocolError'
  <2>1. behind = 0 => p.kind = query[t].kind
    BY <1>1, <1>2, <1>3, <1>6 DEF QueryInv, KindOK, Fits
  <2> QED BY <1>1, <1>7, <2>1 DEF QueryInv, Plat!NoProtocolError
<1> QED BY <1>8, <1>9, <1>10, <1>11, <1>12 DEF QueryInv

LEMMA PlatServeKeeps ==
    ASSUME Plat!ConstantsOK, Plat!TypeOK, QueryInv, Plat!Serve
    PROVE  QueryInv'
<1>1. /\ asked \in Seq(PlatPacket) /\ versions \in Seq(PlatPacket) /\ asked # <<>>
      /\ asked' = Tail(asked) /\ versions' = Append(versions, Head(asked))
      /\ UNCHANGED <<query, commGuard, requests, behind, online>>
      /\ behind \in Nat /\ requests \in Nat
  BY PlatGroups DEF PlatQueryTypes, Plat!Serve
<1>2. PICK p : p = asked[1]
  OBVIOUS
<1>3. /\ p \in PlatPacket /\ Head(asked) = p /\ 1 \in 1..Len(asked)
      /\ Len(asked) \in Nat \ {0} /\ Len(asked') = Len(asked) - 1
      /\ \A i \in 1..Len(asked') : asked'[i] = asked[i + 1] /\ i + 1 \in 1..Len(asked)
  BY <1>1, <1>2, QueueFacts
<1>4. /\ Len(versions) \in Nat /\ Len(versions') = Len(versions) + 1
      /\ versions'[Len(versions) + 1] = p
      /\ \A i \in 1..Len(versions) : versions'[i] = versions[i]
      /\ \A i \in 1..Len(versions') : i \in 1..Len(versions) \/ i = Len(versions) + 1
  BY <1>1, <1>3, QueueFacts, AppendFacts
<1>5. Waiting' = Waiting /\ First' = First /\ First \in Int
  BY <1>1 DEF Waiting, First
<1>6. GuardOK' /\ Plat!AnswersLag' /\ Plat!NoProtocolError'
  BY <1>1 DEF QueryInv, GuardOK, Plat!AnswersLag, Plat!NoProtocolError
<1>7. KindOK'
  BY <1>1, <1>2, <1>3, <1>4 DEF QueryInv, KindOK
<1>8. OrderOK'
  <2>1. \A i \in 1..Len(versions') : versions'[i].request = First' + i - 1
    BY <1>2, <1>3, <1>4, <1>5 DEF QueryInv, OrderOK
  <2>2. \A i \in 1..Len(asked') : asked'[i].request = First' + Len(versions') + i - 1
    <3> SUFFICES ASSUME NEW i \in 1..Len(asked')
                 PROVE  asked'[i].request = First' + Len(versions') + i - 1
      OBVIOUS
    <3>1. asked'[i].request = First + Len(versions) + (i + 1) - 1
      BY <1>3 DEF QueryInv, OrderOK
    <3> QED BY <1>3, <1>4, <1>5, <3>1
  <2>3. online /\ Len(versions) + Len(asked) = behind + Waiting
    BY <1>1 DEF QueryInv, OrderOK
  <2>4. Len(versions') + Len(asked') = behind' + Waiting'
    BY <1>1, <1>3, <1>4, <1>5, <2>3
  <2> QED BY <1>1, <2>1, <2>2, <2>3, <2>4 DEF OrderOK
<1> QED BY <1>6, <1>7, <1>8 DEF QueryInv

LEMMA PlatQueryNext ==
    ASSUME Plat!ConstantsOK, Plat!TypeOK, Plat!TypeOK', QueryInv, [Plat!Next]_Plat!vars
    PROVE  QueryInv'
<1>0. ASSUME UNCHANGED <<query, commGuard, asked, versions, requests, behind, online>>
      PROVE  QueryInv'
  BY <1>0 DEF QueryInv, GuardOK, OrderOK, KindOK, First, Waiting, Plat!AnswersLag,
              Plat!NoProtocolError
<1>1. ASSUME NEW t \in Clients, NEW k \in Plat!Versions, Plat!Query(t, k) PROVE QueryInv'
  <2>1. /\ query'[t].stage = "lock" /\ query'[t].outcome = "none" /\ query[t].stage = "idle"
        /\ \A s \in Clients \ {t} : query'[s] = query[s]
        /\ UNCHANGED <<commGuard, asked, versions, requests, behind, online>>
    BY <1>1, PlatGroups DEF Plat!Query, Plat!At, PlatQueryTypes
  <2>2. \A x : Fits(x, requests, query) => Fits(x, requests', query')
    BY <2>1 DEF Fits
  <2>3. GuardOK' /\ Plat!AnswersLag' /\ Plat!NoProtocolError'
    BY <2>1 DEF QueryInv, GuardOK, Plat!AnswersLag, Plat!NoProtocolError
  <2>4. OrderOK' /\ KindOK'
    BY <2>1, <2>2 DEF QueryInv, OrderOK, KindOK, First, Waiting
  <2> QED BY <2>3, <2>4 DEF QueryInv
<1>2. ASSUME NEW t \in Clients, Plat!Closed(t) PROVE QueryInv'
  BY <1>2, PlatEndKeeps DEF Plat!Closed
<1>3. ASSUME NEW t \in Clients, Plat!GiveUp(t) PROVE QueryInv'
  <2>1. commGuard = t <=> Plat!At(t, "wait")
    BY DEF QueryInv, GuardOK, Plat!At
  <2> QED BY <1>3, <2>1, PlatEndKeeps DEF Plat!GiveUp
<1>4. CASE Plat!Lose
  <2>1. Len(<<>>) = 0
    BY EmptyFacts
  <2> QED BY <1>4, <2>1
          DEF Plat!Lose, QueryInv, GuardOK, OrderOK, KindOK, First, Waiting, Plat!AnswersLag,
              Plat!NoProtocolError
<1>5. CASE Plat!AppArrive \/ \E t \in Clients : Plat!GetAppChannel(t) \/ Plat!AppReceive(t)
  BY <1>0, <1>5 DEF Plat!AppArrive, Plat!GetAppChannel, Plat!AppReceive, Plat!queryVars
<1>6. CASE UNCHANGED Plat!vars
  BY <1>0, <1>6 DEF Plat!vars, Plat!queryVars
<1> QED BY <1>1, <1>2, <1>3, <1>4, <1>5, <1>6, PlatRequestKeeps, PlatAnsweredKeeps,
           PlatServeKeeps
        DEF Plat!Next, Plat!Step

-----------------------------------------------------------------------------
(* Platform: the app channel *)

\* Until the channel is handed out nobody has read from it.
HandOutInv ==
    /\ appHome => /\ appOwner = NoOne
                  /\ \A t \in Clients : appGot[t] = <<>>
                  /\ appQueue = [i \in 1..appSent |-> i]
    /\ Plat!AppStreamWhole

LEMMA PlatAppInit == ASSUME Plat!ConstantsOK, Plat!Init PROVE HandOutInv
<1>1. <<>> = [i \in 1..0 |-> i]
  OBVIOUS
<1> QED BY <1>1 DEF Plat!Init, HandOutInv, Plat!AppStreamWhole, Plat!ConstantsOK

LEMMA PlatAppNext ==
    ASSUME Plat!ConstantsOK, Plat!TypeOK, Plat!TypeOK', HandOutInv, [Plat!Next]_Plat!vars
    PROVE  HandOutInv'
<1>0. ASSUME UNCHANGED Plat!appVars PROVE HandOutInv'
  BY <1>0 DEF HandOutInv, Plat!AppStreamWhole, Plat!appVars
<1>1. ASSUME NEW t \in Clients, Plat!GetAppChannel(t) PROVE HandOutInv'
  <2>1. appGot[t] \o appQueue = appQueue
    BY <1>1, ConcatEmptySeq, PlatGroups DEF HandOutInv, Plat!GetAppChannel, PlatAppTypes
  <2> QED BY <1>1, <2>1
          DEF HandOutInv, Plat!AppStreamWhole, Plat!GetAppChannel, Plat!TakePair
<1>2. ASSUME NEW t \in Clients, Plat!AppReceive(t) PROVE HandOutInv'
  <2>1. /\ appGot[t] \in Seq(Nat) /\ appQueue \in Seq(Nat) /\ appQueue # <<>>
        /\ appGot'[t] = Append(appGot[t], Head(appQueue)) /\ appQueue' = Tail(appQueue)
    BY <1>2, PlatGroups DEF PlatAppTypes, Plat!AppReceive
  <2>2. /\ Head(appQueue) \in Nat /\ Tail(appQueue) \in Seq(Nat)
        /\ <<Head(appQueue)>> \o Tail(appQueue) = appQueue
        /\ <<Head(appQueue)>> \in Seq(Nat)
    <3>1. Head(appQueue) \in Nat /\ Tail(appQueue) \in Seq(Nat)
      BY <2>1, QueueFacts
    <3> DEFINE q == <<Head(appQueue)>> \o Tail(appQueue)
    <3>2. <<Head(appQueue)>> \in Seq(Nat)
      BY <3>1
    <3>3. q \in Seq(Nat) /\ Len(q) = 1 + Len(Tail(appQueue))
          /\ \A i \in 1..(1 + Len(Tail(appQueue))) :
                q[i] = IF i <= 1 THEN Head(appQueue) ELSE Tail(appQueue)[i - 1]
      BY <3>1, <3>2, ConcatProperties
    <3>4. q = appQueue
      <4> HIDE DEF q
      <4>1. Len(q) = Len(appQueue) /\ Len(appQueue) \in Nat
        BY <2>1, <3>3, QueueFacts
      <4>2. \A i \in 1..Len(q) : q[i] = appQueue[i]
        <5> SUFFICES ASSUME NEW i \in 1..Len(q) PROVE q[i] = appQueue[i]
          OBVIOUS
        <5>1. CASE i = 1
          BY <2>1, <3>3, <4>1, <5>1, QueueFacts
        <5>2. CASE i # 1
          <6>1. i - 1 \in 1..Len(Tail(appQueue)) /\ i - 1 + 1 = i
            BY <2>1, <4>1, <5>2, QueueFacts
          <6>2. Tail(appQueue)[i - 1] = appQueue[i - 1 + 1]
            BY <2>1, <6>1, QueueFacts
          <6>3. i \in 1..(1 + Len(Tail(appQueue))) /\ ~(i <= 1)
            BY <3>3, <4>1, <5>2
          <6>4. q[i] = Tail(appQueue)[i - 1]
            BY <3>3, <6>3
          <6> QED BY <6>1, <6>2, <6>4
        <5> QED BY <5>1, <5>2
      <4> QED BY <2>1, <3>3, <4>1, <4>2, SeqEqual
    <3> QED BY <3>1, <3>2, <3>4
  <2>3. appGot'[t] \o appQueue' = appGot[t] \o appQueue
    <3>1. appGot'[t] = appGot[t] \o <<Head(appQueue)>>
      BY <2>1, <2>2, AppendIsConcat
    <3>2. \A q, r, s \in Seq(Nat) : (q \o r) \o s = q \o (r \o s)
      BY ConcatAssociative
    <3>3. PICK q \in Seq(Nat), h \in Seq(Nat), r \in Seq(Nat) :
              q = appGot[t] /\ h = <<Head(appQueue)>> /\ r = Tail(appQueue)
      BY <2>1, <2>2, Zenon
    <3>4. (q \o h) \o r = q \o (h \o r)
      BY <3>2
    <3>5. appGot'[t] = q \o h /\ appQueue' = r /\ appQueue = h \o r
      BY <2>1, <2>2, <3>1, <3>3, Zenon
    <3> QED BY <3>3, <3>4, <3>5, Zenon
  <2> QED BY <1>2, <2>3, PlatGroups
          DEF HandOutInv, Plat!AppStreamWhole, Plat!AppReceive, Plat!ConstantsOK, PlatAppTypes
<1>3. CASE Plat!AppArrive
  <2> DEFINE count(n) == [i \in 1..n |-> i]
  <2>1. appSent \in Nat /\ appQueue \in Seq(Nat) /\ appGot \in [Clients -> Seq(Nat)]
        /\ appQueue' = Append(appQueue, appSent + 1) /\ appSent' = appSent + 1
        /\ UNCHANGED <<appHome, appOwner, appGot>>
    BY <1>3, PlatGroups DEF PlatAppTypes, Plat!AppArrive, Plat!ConstantsOK
  <2>2. Append(count(appSent), appSent + 1) = count(appSent + 1)
    BY <2>1
  <2>3. \A t \in Clients : appGot[t] \o appQueue' = Append(appGot[t] \o appQueue, appSent + 1)
    <3> SUFFICES ASSUME NEW t \in Clients
                 PROVE  appGot[t] \o appQueue' = Append(appGot[t] \o appQueue, appSent + 1)
      OBVIOUS
    <3>1. <<appSent + 1>> \in Seq(Nat) /\ appQueue' = appQueue \o <<appSent + 1>>
      BY <2>1, AppendIsConcat
    <3>2. appGot[t] \o appQueue \in Seq(Nat)
      BY <2>1, ConcatProperties
    <3> QED BY <2>1, <3>1, <3>2, AppendIsConcat, ConcatAssociative
  <2> QED BY <2>1, <2>2, <2>3 DEF HandOutInv, Plat!AppStreamWhole
<1>4. CASE Plat!Serve \/ Plat!Lose \/ \E t \in Clients :
              Plat!Step(t) \/ Plat!GiveUp(t) \/ \E k \in Plat!Versions : Plat!Query(t, k)
  BY <1>0, <1>4 DEF Plat!Serve, Plat!Lose, Plat!Step, Plat!GiveUp, Plat!Query, Plat!Request,
                    Plat!Answered, Plat!Closed
<1>5. CASE UNCHANGED Plat!vars
  BY <1>0, <1>5 DEF Plat!vars
<1> QED BY <1>1, <1>2, <1>3, <1>4, <1>5 DEF Plat!Next

\* What comes in for a query or an app is kept for it, for any number of tasks,
\* queries and packets: an answer is as many requests old as queries were given
\* up with an answer to come, no query has a protocol error before one is, and
\* the stream of the app channel is whole (AnswersKept; platform.rs:64,
\* platform.rs:133).
THEOREM AnswersAreKept == Plat!ConstantsOK => (Plat!Spec => []AnswersKept)
<1> SUFFICES ASSUME Plat!ConstantsOK PROVE Plat!Spec => []AnswersKept
  OBVIOUS
<1>1. Plat!Init => Plat!TypeOK /\ QueryInv /\ HandOutInv
  BY PlatInitTypes, PlatQueryInit, PlatAppInit
<1>2. /\ Plat!TypeOK /\ QueryInv /\ HandOutInv /\ [Plat!Next]_Plat!vars
      => Plat!TypeOK' /\ QueryInv' /\ HandOutInv'
  BY PlatNextTypes, PlatQueryNext, PlatAppNext
<1>3. QueryInv /\ HandOutInv => AnswersKept
  BY DEF QueryInv, HandOutInv, Plat!AnswersKept, AnswersKept
<1> QED BY <1>1, <1>2, <1>3, PTL DEF Plat!Spec

-----------------------------------------------------------------------------
(* LinkService: the types *)

\* A call, as a record.
LinkTest == [call : 0..MaxTests, kind : Link!Kinds,
             stage : {"idle", "sink", "lock", "send", "wait"},
             n : Nat, left : Nat, due : Nat, outcome : Link!Outcomes]

\* What a call has sent and not received, as its stage says.
Settled(x) ==
    /\ x.stage = "idle" \/ (x.outcome = "none" /\ x.call # 0)
    /\ x.stage = "sink" => x.n # 0 /\ x.kind = "uplink"
    /\ x.stage = "send" => x.left # 0 /\ x.left <= x.due /\ x.due = Link!Asked(x.kind, x.n)
    /\ x.stage = "wait" => x.left = 0 /\ x.due # 0 /\ x.due <= Link!Asked(x.kind, x.n)
    /\ x.stage \notin {"send", "wait"} => x.left = 0 /\ x.due = 0

LinkTypes == Link!TypeOK /\ \A t \in Clients : Settled(test[t])

LEMMA LinkKinds ==
    ASSUME NEW k \in Link!Kinds
    PROVE  /\ Link!Queue(k) \in Link!Queues /\ Link!Payload(k) \in {0, 1, 32, 170}
           /\ \A n \in Nat : Link!Asked(k, n) \in Nat
  BY DEF Link!Kinds, Link!Queue, Link!Queues, Link!Payload, Link!Asked

LEMMA LinkInitTypes == ASSUME Link!ConstantsOK, Link!Init PROVE LinkTypes
<1>1. [call |-> 0, kind |-> "ping", stage |-> "idle", n |-> 0, left |-> 0, due |-> 0,
       outcome |-> "none"] \in LinkTest
  BY DEF LinkTest, Link!Kinds, Link!Outcomes, Link!ConstantsOK
<1>2. \A q \in Link!Queues : <<>> \in Seq(Link!Packet)
  BY EmptyFacts
<1>3. test \in [Clients -> LinkTest] /\ \A t \in Clients : Settled(test[t])
  BY <1>1 DEF Link!Init, Settled
<1>4. /\ guard \in [Link!Queues -> Clients \union {NoOne}] /\ outgoing \in Seq(Link!Packet)
      /\ incoming \in [Link!Queues -> Seq(Link!Packet)]
      /\ linked \in BOOLEAN /\ foreign \in BOOLEAN /\ abandoned \in BOOLEAN
      /\ tests \in 0..MaxTests /\ drops \in 0..MaxDrops
  <2>1. outgoing \in Seq(Link!Packet)
    BY EmptyFacts DEF Link!Init
  <2>2. incoming \in [Link!Queues -> Seq(Link!Packet)]
    BY <1>2 DEF Link!Init
  <2>3. guard \in [Link!Queues -> Clients \union {NoOne}]
    BY DEF Link!Init
  <2>4. tests \in 0..MaxTests /\ drops \in 0..MaxDrops
    BY DEF Link!Init, Link!ConstantsOK
  <2>5. linked \in BOOLEAN /\ foreign \in BOOLEAN /\ abandoned \in BOOLEAN
    BY DEF Link!Init
  <2> QED BY <2>1, <2>2, <2>3, <2>4, <2>5
<1> QED BY <1>3, <1>4 DEF LinkTypes, Link!TypeOK, LinkTest

\* Queues is not empty of either, and a packet that is sent is a packet.
LEMMA LinkPackets ==
    ASSUME LinkTypes, NEW t \in Clients, NEW q \in Link!Queues \union {"sink"}
    PROVE  /\ Link!PacketOf(t, q) \in Link!Packet
           /\ Link!PacketOf(t, q).queue = q /\ Link!PacketOf(t, q).call = test[t].call
           /\ q # "sink" => Link!PacketOf(t, q).data = Link!Payload(test[t].kind)
<1>1. test[t] \in LinkTest
  BY DEF LinkTypes, Link!TypeOK, LinkTest
<1>2. test[t].kind \in Link!Kinds /\ test[t].call \in Nat
  BY <1>1 DEF LinkTest
<1> QED BY <1>2, LinkKinds DEF Link!PacketOf, Link!Packet

\* The end of a call, for its task and for the others.
LEMMA LinkEnds ==
    ASSUME Link!ConstantsOK, LinkTypes, NEW t \in Clients, NEW o \in Link!Outcomes, Link!End(t, o)
    PROVE  /\ test' \in [Clients -> LinkTest] /\ guard' \in [Link!Queues -> Clients \union {NoOne}]
           /\ \A s \in Clients : Settled(test'[s])
           /\ test'[t].stage = "idle" /\ test'[t].outcome = o
           /\ test'[t].call = test[t].call /\ test'[t].kind = test[t].kind
           /\ \A s \in Clients \ {t} : test'[s] = test[s]
           /\ \A q \in Link!Queues : guard'[q] = IF guard[q] = t THEN NoOne ELSE guard[q]
<1>1. test \in [Clients -> LinkTest] /\ guard \in [Link!Queues -> Clients \union {NoOne}]
      /\ \A s \in Clients : Settled(test[s])
  BY DEF LinkTypes, Link!TypeOK, LinkTest
<1>2. PICK x : x = [test[t] EXCEPT !.stage = "idle", !.outcome = o, !.left = 0, !.due = 0]
  OBVIOUS
<1>3. x \in LinkTest /\ Settled(x) /\ x.stage = "idle" /\ x.outcome = o
      /\ x.call = test[t].call /\ x.kind = test[t].kind
  BY <1>1, <1>2 DEF LinkTest, Settled
<1>4. test' = [test EXCEPT ![t] = x]
  BY <1>2 DEF Link!End
<1>5. guard' \in [Link!Queues -> Clients \union {NoOne}]
      /\ \A q \in Link!Queues : guard'[q] = IF guard[q] = t THEN NoOne ELSE guard[q]
  BY <1>1 DEF Link!End
<1>6. test' \in [Clients -> LinkTest] /\ test'[t] = x /\ \A s \in Clients \ {t} : test'[s] = test[s]
  BY <1>1, <1>3, <1>4
<1> QED BY <1>1, <1>3, <1>5, <1>6

\* Types of everything, from those of what an action changes.
LEMMA LinkTypesNext ==
    ASSUME test' \in [Clients -> LinkTest], guard' \in [Link!Queues -> Clients \union {NoOne}],
           \A t \in Clients : Settled(test'[t]),
           outgoing' \in Seq(Link!Packet), incoming' \in [Link!Queues -> Seq(Link!Packet)],
           linked' \in BOOLEAN, foreign' \in BOOLEAN, abandoned' \in BOOLEAN,
           tests' \in 0..MaxTests, drops' \in 0..MaxDrops
    PROVE  LinkTypes'
  BY DEF LinkTypes, Link!TypeOK, LinkTest

LEMMA LinkTypesNow ==
    ASSUME LinkTypes
    PROVE  /\ test \in [Clients -> LinkTest] /\ guard \in [Link!Queues -> Clients \union {NoOne}]
           /\ \A t \in Clients : Settled(test[t])
           /\ outgoing \in Seq(Link!Packet) /\ incoming \in [Link!Queues -> Seq(Link!Packet)]
           /\ linked \in BOOLEAN /\ foreign \in BOOLEAN /\ abandoned \in BOOLEAN
           /\ tests \in 0..MaxTests /\ drops \in 0..MaxDrops
  BY DEF LinkTypes, Link!TypeOK, LinkTest

\* A task takes a step of its call, with the others as they were.
LEMMA LinkMoves ==
    ASSUME LinkTypes, NEW t \in Clients, NEW x \in LinkTest, Settled(x),
           test' = [test EXCEPT ![t] = x]
    PROVE  /\ test' \in [Clients -> LinkTest] /\ \A s \in Clients : Settled(test'[s])
           /\ test'[t] = x /\ \A s \in Clients \ {t} : test'[s] = test[s]
  BY LinkTypesNow

LEMMA LinkAccepted ==
    ASSUME LinkTypes, NEW p \in Link!Packet, Link!Accepted(p)
    PROVE  /\ outgoing' \in Seq(Link!Packet)
           /\ UNCHANGED <<incoming, linked, foreign, abandoned, tests, drops>>
  BY LinkTypesNow, AppendFacts DEF Link!Accepted

LEMMA LinkAbandons ==
    ASSUME LinkTypes, NEW t \in Clients, Link!Abandons(t)
    PROVE  /\ abandoned' \in BOOLEAN
           /\ ~abandoned' => ~abandoned /\ test[t].left = test[t].due
  BY LinkTypesNow DEF Link!Abandons

\* What each step makes of the record of its call, if the call goes on.
LEMMA LinkStart ==
    ASSUME Link!ConstantsOK, LinkTypes, NEW t \in Clients, NEW k \in Link!Kinds,
           NEW n \in Link!SizesOf(k), Link!Start(t, k, n)
    PROVE  /\ tests' = tests + 1 /\ tests' \in 0..MaxTests
           /\ \E x \in LinkTest :
                /\ Settled(x) /\ test' = [test EXCEPT ![t] = x]
                /\ x.call = tests + 1 /\ x.kind = k /\ x.stage \in {"sink", "lock"}
                /\ x.outcome = "none"
<1> DEFINE x == [call |-> tests + 1, kind |-> k,
                 stage |-> IF k = "uplink" /\ n > 0 THEN "sink" ELSE "lock",
                 n |-> n, left |-> 0, due |-> 0, outcome |-> "none"]
<1>1. tests + 1 \in 0..MaxTests /\ tests' = tests + 1 /\ tests + 1 # 0
  BY LinkTypesNow DEF Link!Start, Link!ConstantsOK
<1>2. n \in Nat
  BY DEF Link!SizesOf, Link!ConstantsOK
<1>3. x \in LinkTest /\ Settled(x)
  BY <1>1, <1>2 DEF LinkTest, Link!Outcomes, Settled
<1>4. test' = [test EXCEPT ![t] = x]
  BY DEF Link!Start
<1> QED BY <1>1, <1>3, <1>4

LEMMA LinkSink ==
    ASSUME Link!ConstantsOK, LinkTypes, NEW t \in Clients, Link!Sink(t)
    PROVE  \/ Link!SendFails(t)
           \/ /\ Link!Accepted(Link!PacketOf(t, "sink")) /\ UNCHANGED guard
              /\ \E x \in LinkTest :
                   /\ Settled(x) /\ test' = [test EXCEPT ![t] = x]
                   /\ x.call = test[t].call /\ x.kind = test[t].kind
                   /\ x.stage \in {"sink", "lock"} /\ x.outcome = "none"
<1> SUFFICES ASSUME ~Link!SendFails(t) PROVE
              /\ Link!Accepted(Link!PacketOf(t, "sink")) /\ UNCHANGED guard
              /\ \E x \in LinkTest :
                   /\ Settled(x) /\ test' = [test EXCEPT ![t] = x]
                   /\ x.call = test[t].call /\ x.kind = test[t].kind
                   /\ x.stage \in {"sink", "lock"} /\ x.outcome = "none"
  OBVIOUS
<1>1. PICK x : x = [test[t] EXCEPT !.n = @ - 1,
                                  !.stage = IF test[t].n = 1 THEN "lock" ELSE "sink"]
  OBVIOUS
<1>2. test[t] \in LinkTest /\ Settled(test[t]) /\ test[t].stage = "sink"
  BY LinkTypesNow DEF Link!Sink, Link!At
<1>3. /\ x \in LinkTest /\ x.call = test[t].call /\ x.kind = test[t].kind
      /\ x.stage \in {"sink", "lock"} /\ x.outcome = "none" /\ x.left = 0 /\ x.due = 0
      /\ x.stage = "sink" => x.n # 0 /\ x.kind = "uplink"
  <2>1. /\ test[t].n \in Nat \ {0} /\ test[t].kind = "uplink" /\ test[t].outcome = "none"
        /\ test[t].left = 0 /\ test[t].due = 0
    BY <1>2 DEF LinkTest, Settled
  <2>2. PICK n, s : n = test[t].n - 1 /\ s = IF test[t].n = 1 THEN "lock" ELSE "sink"
    OBVIOUS
  <2>3. n \in Nat /\ s \in {"sink", "lock"} /\ (s = "sink" => n # 0)
    BY <2>1, <2>2
  <2>4. x = [test[t] EXCEPT !.n = n, !.stage = s]
    BY <1>1, <2>2
  <2> QED BY <1>2, <2>1, <2>3, <2>4 DEF LinkTest
<1>4. Settled(x)
  BY <1>2, <1>3 DEF Settled
<1>5. test' = [test EXCEPT ![t] = x]
  BY <1>1 DEF Link!Sink
<1> QED BY <1>3, <1>4, <1>5 DEF Link!Sink

LEMMA LinkLock ==
    ASSUME Link!ConstantsOK, LinkTypes, NEW t \in Clients, Link!Lock(t)
    PROVE  LET q == Link!Queue(test[t].kind) IN
           /\ guard[q] = NoOne
           /\ \/ Link!End(t, "ok") /\ Link!Asked(test[t].kind, test[t].n) = 0
              \/ /\ guard' = [guard EXCEPT ![q] = t]
                 /\ \E x \in LinkTest :
                      /\ Settled(x) /\ test' = [test EXCEPT ![t] = x]
                      /\ x.call = test[t].call /\ x.kind = test[t].kind
                      /\ x.stage = "send" /\ x.outcome = "none" /\ x.left = x.due
<1>1. test[t] \in LinkTest /\ Settled(test[t]) /\ test[t].stage = "lock"
      /\ test[t].kind \in Link!Kinds /\ test[t].n \in Nat
  BY LinkTypesNow DEF Link!Lock, Link!At, LinkTest
<1>2. PICK a : a = Link!Asked(test[t].kind, test[t].n)
  OBVIOUS
<1>3. a \in Nat
  BY <1>1, <1>2, LinkKinds
<1>4. ASSUME a > 0, guard' = [guard EXCEPT ![Link!Queue(test[t].kind)] = t],
             test' = [test EXCEPT ![t].stage = "send", ![t].left = a, ![t].due = a]
      PROVE  \E x \in LinkTest :
                      /\ Settled(x) /\ test' = [test EXCEPT ![t] = x]
                      /\ x.call = test[t].call /\ x.kind = test[t].kind
                      /\ x.stage = "send" /\ x.outcome = "none" /\ x.left = x.due
  <2>1. PICK x : x = [test[t] EXCEPT !.stage = "send", !.left = a, !.due = a]
    OBVIOUS
  <2>2. /\ x \in LinkTest /\ x.call = test[t].call /\ x.kind = test[t].kind /\ x.n = test[t].n
        /\ x.stage = "send" /\ x.outcome = test[t].outcome /\ x.left = a /\ x.due = a
    BY <1>1, <1>3, <2>1 DEF LinkTest
  <2>3. Settled(x)
    BY <1>1, <1>2, <1>3, <1>4, <2>2 DEF Settled
  <2>4. test' = [test EXCEPT ![t] = x]
    BY <1>4, <2>1
  <2> QED BY <1>1, <2>2, <2>3, <2>4 DEF Settled
<1> QED BY <1>2, <1>4 DEF Link!Lock, Link!Free

LEMMA LinkSend ==
    ASSUME Link!ConstantsOK, LinkTypes, NEW t \in Clients, Link!Send(t)
    PROVE  \/ Link!SendFails(t)
           \/ /\ Link!Accepted(Link!PacketOf(t, Link!Queue(test[t].kind))) /\ UNCHANGED guard
              /\ \E x \in LinkTest :
                   /\ Settled(x) /\ test' = [test EXCEPT ![t] = x]
                   /\ x.call = test[t].call /\ x.kind = test[t].kind
                   /\ x.stage = IF x.left = 0 THEN "wait" ELSE "send"
                   /\ x.outcome = "none" /\ x.left = test[t].left - 1 /\ x.due = test[t].due
<1> SUFFICES ASSUME ~Link!SendFails(t)
             PROVE
              /\ Link!Accepted(Link!PacketOf(t, Link!Queue(test[t].kind))) /\ UNCHANGED guard
              /\ \E x \in LinkTest :
                   /\ Settled(x) /\ test' = [test EXCEPT ![t] = x]
                   /\ x.call = test[t].call /\ x.kind = test[t].kind
                   /\ x.stage = IF x.left = 0 THEN "wait" ELSE "send"
                   /\ x.outcome = "none" /\ x.left = test[t].left - 1 /\ x.due = test[t].due
  OBVIOUS
<1>1. /\ test[t] \in LinkTest /\ Settled(test[t]) /\ test[t].stage = "send"
      /\ test[t].left \in Nat \ {0} /\ test[t].due \in Nat /\ test[t].left <= test[t].due
      /\ test[t].due = Link!Asked(test[t].kind, test[t].n) /\ test[t].outcome = "none"
      /\ test[t].call # 0
  BY LinkTypesNow DEF Link!Send, Link!At, LinkTest, Settled
<1>2. PICK l, s : l = test[t].left - 1 /\ s = IF test[t].left = 1 THEN "wait" ELSE "send"
  OBVIOUS
<1>3. l \in Nat /\ s = (IF l = 0 THEN "wait" ELSE "send") /\ l <= test[t].due /\ test[t].due # 0
  BY <1>1, <1>2
<1>4. PICK x : x = [test[t] EXCEPT !.left = l, !.stage = s]
  OBVIOUS
<1>5. /\ x \in LinkTest /\ x.call = test[t].call /\ x.kind = test[t].kind /\ x.n = test[t].n
      /\ x.stage = s /\ x.outcome = test[t].outcome /\ x.left = l /\ x.due = test[t].due
  BY <1>1, <1>3, <1>4 DEF LinkTest
<1>6. Settled(x)
  BY <1>1, <1>3, <1>5 DEF Settled
<1>7. test' = [test EXCEPT ![t] = x]
  BY <1>2, <1>4 DEF Link!Send
<1> QED BY <1>1, <1>2, <1>3, <1>5, <1>6, <1>7 DEF Link!Send

LEMMA LinkReceive ==
    ASSUME Link!ConstantsOK, LinkTypes, NEW t \in Clients, Link!Receive(t)
    PROVE  LET q == Link!Queue(test[t].kind)
               p == Head(incoming[q]) IN
           /\ test[t].stage = "wait" /\ q \in Link!Queues /\ incoming[q] # <<>>
           /\ incoming' = [incoming EXCEPT ![q] = Tail(@)]
           /\ foreign' = (foreign \/ p.call # test[t].call)
           /\ UNCHANGED <<outgoing, linked, tests, drops>>
           /\ \/ /\ Link!Matches(test[t].kind, p) /\ UNCHANGED <<guard, abandoned>>
                 /\ \E x \in LinkTest :
                      /\ Settled(x) /\ test' = [test EXCEPT ![t] = x]
                      /\ x.call = test[t].call /\ x.kind = test[t].kind /\ x.stage = "wait"
                      /\ x.outcome = "none" /\ x.left = 0 /\ x.due = test[t].due - 1
              \/ /\ Link!Matches(test[t].kind, p) /\ test[t].due = 1
                 /\ Link!End(t, "ok") /\ UNCHANGED abandoned
              \/ /\ ~Link!Matches(test[t].kind, p)
                 /\ Link!End(t, "protocol") /\ Link!Abandons(t)
<1>1. /\ test[t] \in LinkTest /\ Settled(test[t]) /\ test[t].stage = "wait"
      /\ test[t].left = 0 /\ test[t].due \in Nat \ {0} /\ test[t].kind \in Link!Kinds
      /\ test[t].due <= Link!Asked(test[t].kind, test[t].n) /\ test[t].outcome = "none"
      /\ test[t].call # 0 /\ Link!Asked(test[t].kind, test[t].n) \in Nat
  <2>1. test[t] \in LinkTest /\ Settled(test[t]) /\ test[t].stage = "wait"
    BY LinkTypesNow DEF Link!Receive, Link!At
  <2>2. test[t].kind \in Link!Kinds /\ test[t].n \in Nat /\ test[t].due \in Nat
    BY <2>1 DEF LinkTest
  <2> QED BY <2>1, <2>2, LinkKinds DEF Settled
<1>2. ASSUME test[t].due > 1, test' = [test EXCEPT ![t].due = @ - 1]
      PROVE  \E x \in LinkTest :
                      /\ Settled(x) /\ test' = [test EXCEPT ![t] = x]
                      /\ x.call = test[t].call /\ x.kind = test[t].kind /\ x.stage = "wait"
                      /\ x.outcome = "none" /\ x.left = 0 /\ x.due = test[t].due - 1
  <2>1. PICK d : d = test[t].due - 1
    OBVIOUS
  <2>2. d \in Nat /\ d # 0 /\ d <= Link!Asked(test[t].kind, test[t].n)
    BY <1>1, <1>2, <2>1
  <2>3. PICK x : x = [test[t] EXCEPT !.due = d]
    OBVIOUS
  <2>4. /\ x \in LinkTest /\ x.call = test[t].call /\ x.kind = test[t].kind /\ x.n = test[t].n
        /\ x.stage = test[t].stage /\ x.outcome = test[t].outcome /\ x.left = test[t].left
        /\ x.due = d
    BY <1>1, <2>2, <2>3 DEF LinkTest
  <2>5. Settled(x)
    BY <1>1, <2>2, <2>4 DEF Settled
  <2>6. test' = [test EXCEPT ![t] = x]
    BY <1>2, <2>1, <2>3
  <2> QED BY <1>1, <2>1, <2>4, <2>5, <2>6
<1> QED BY <1>1, <1>2, LinkKinds DEF Link!Receive

LEMMA LinkNextTypes ==
    ASSUME Link!ConstantsOK, LinkTypes, [Link!Next]_Link!vars
    PROVE  LinkTypes'
<1> USE LinkTypesNow, LinkTypesNext
<1>0. {"none", "ok", "timeout", "protocol", "disconnected", "dropped"} \subseteq Link!Outcomes
  BY DEF Link!Outcomes
<1>1. ASSUME NEW t \in Clients, NEW k \in Link!Kinds, NEW n \in Link!SizesOf(k),
             Link!Start(t, k, n)
      PROVE  LinkTypes'
  BY <1>1, LinkStart, LinkMoves DEF Link!Start
<1>2. ASSUME NEW t \in Clients, Link!SendFails(t) PROVE LinkTypes'
  BY <1>0, <1>2, LinkEnds, LinkAbandons DEF Link!SendFails
<1>3. ASSUME NEW t \in Clients, Link!Sink(t) PROVE LinkTypes'
  <2>1. Link!PacketOf(t, "sink") \in Link!Packet
    BY LinkPackets
  <2> QED BY <1>2, <1>3, <2>1, LinkSink, LinkMoves, LinkAccepted
<1>4. ASSUME NEW t \in Clients, Link!Lock(t) PROVE LinkTypes'
  <2>1. UNCHANGED <<outgoing, incoming, linked, foreign, abandoned, tests, drops>>
    BY <1>4 DEF Link!Lock
  <2>2. CASE Link!End(t, "ok")
    BY <1>0, <2>1, <2>2, LinkEnds
  <2>3. ASSUME NEW q, guard' = [guard EXCEPT ![q] = t], NEW x \in LinkTest, Settled(x),
               test' = [test EXCEPT ![t] = x]
        PROVE  LinkTypes'
    <3>1. guard' \in [Link!Queues -> Clients \union {NoOne}]
      BY <2>3
    <3> QED BY <2>1, <2>3, <3>1, LinkMoves
  <2> QED BY <1>4, <2>2, <2>3, LinkLock
<1>5. ASSUME NEW t \in Clients, Link!Send(t) PROVE LinkTypes'
  <2>1. test[t].kind \in Link!Kinds
    BY DEF LinkTest
  <2>2. Link!PacketOf(t, Link!Queue(test[t].kind)) \in Link!Packet
    BY <2>1, LinkKinds, LinkPackets
  <2> QED BY <1>2, <1>5, <2>2, LinkSend, LinkMoves, LinkAccepted
<1>6. ASSUME NEW t \in Clients, Link!Receive(t) PROVE LinkTypes'
  <2>1. incoming' \in [Link!Queues -> Seq(Link!Packet)] /\ foreign' \in BOOLEAN
        /\ UNCHANGED <<outgoing, linked, tests, drops>>
    <3> DEFINE q == Link!Queue(test[t].kind)
    <3>1. /\ q \in Link!Queues /\ incoming[q] # <<>>
          /\ incoming' = [incoming EXCEPT ![q] = Tail(@)]
          /\ foreign' = (foreign \/ Head(incoming[q]).call # test[t].call)
          /\ UNCHANGED <<outgoing, linked, tests, drops>>
      BY <1>6, LinkReceive
    <3> HIDE DEF q
    <3>2. Tail(incoming[q]) \in Seq(Link!Packet)
      BY <3>1, QueueFacts
    <3> QED BY <3>1, <3>2
  <2>2. ASSUME NEW o \in {"ok", "protocol"}, Link!End(t, o),
               UNCHANGED abandoned \/ Link!Abandons(t)
        PROVE  LinkTypes'
    BY <1>0, <2>1, <2>2, LinkEnds, LinkAbandons
  <2>3. ASSUME NEW x \in LinkTest, Settled(x), test' = [test EXCEPT ![t] = x],
               UNCHANGED <<guard, abandoned>>
        PROVE  LinkTypes'
    BY <2>1, <2>3, LinkMoves
  <2> QED BY <1>6, <2>2, <2>3, LinkReceive
<1>7. ASSUME NEW t \in Clients, Link!Timeout(t) \/ Link!Closed(t) PROVE LinkTypes'
  BY <1>0, <1>7, LinkEnds, LinkAbandons DEF Link!Timeout, Link!Closed, Link!GiveUp
<1>8. ASSUME NEW t \in Clients, Link!Drop(t) PROVE LinkTypes'
  <2>1. drops' \in 0..MaxDrops
    BY <1>8 DEF Link!Drop, Link!ConstantsOK
  <2> QED BY <1>0, <1>8, <2>1, LinkEnds, LinkAbandons DEF Link!Drop
<1>9. CASE Link!Answer
  <2>1. Tail(outgoing) \in Seq(Link!Packet) /\ Head(outgoing) \in Link!Packet
    BY <1>9, QueueFacts DEF Link!Answer
  <2>2. incoming' \in [Link!Queues -> Seq(Link!Packet)]
    BY <1>9, <2>1, AppendFacts DEF Link!Answer
  <2> QED BY <1>9, <2>1, <2>2 DEF Link!Answer
<1>10. CASE Link!Lose
  BY <1>10, EmptyFacts DEF Link!Lose
<1>11. CASE UNCHANGED Link!vars
  BY <1>11 DEF Link!vars
<1> QED BY <1>1, <1>3, <1>4, <1>5, <1>6, <1>7, <1>8, <1>9, <1>10, <1>11
        DEF Link!Next, Link!Step

-----------------------------------------------------------------------------
(* LinkService: what is under way on a queue *)

\* Where the packets of a queue are among those that go out.
Positions(out, q) == {i \in 1..Len(out) : out[i].queue = q}

LEMMA PositionsFinite ==
    ASSUME NEW out \in Seq(Link!Packet), NEW q
    PROVE  IsFiniteSet(Positions(out, q)) /\ Cardinality(Positions(out, q)) \in Nat
<1>1. IsFiniteSet(1..Len(out)) /\ Positions(out, q) \subseteq 1..Len(out)
  BY LenProperties, FS_Interval DEF Positions
<1> QED BY <1>1, FS_Subset, FS_CardinalityType

LEMMA PositionsEmpty == ASSUME NEW q PROVE Positions(<<>>, q) = {}
  BY EmptyFacts DEF Positions

LEMMA PositionsAppend ==
    ASSUME NEW out \in Seq(Link!Packet), NEW p \in Link!Packet, NEW q
    PROVE  Cardinality(Positions(Append(out, p), q))
              = Cardinality(Positions(out, q)) + IF p.queue = q THEN 1 ELSE 0
<1> DEFINE a == Append(out, p)
           n == Len(out) + 1
<1>1. /\ Len(a) = n /\ Len(out) \in Nat /\ a[n] = p
      /\ \A i \in 1..Len(out) : a[i] = out[i]
  BY AppendFacts, LenProperties
<1> HIDE DEF a
<1>2. n \notin Positions(out, q)
  BY <1>1 DEF Positions
<1>3. CASE p.queue = q
  <2>1. Positions(a, q) = Positions(out, q) \union {n}
    BY <1>1, <1>3 DEF Positions
  <2> HIDE DEF n
  <2> QED BY <1>2, <1>3, <2>1, PositionsFinite, FS_AddElement DEF a
<1>4. CASE p.queue # q
  <2>1. Positions(a, q) = Positions(out, q)
    BY <1>1, <1>4 DEF Positions
  <2> QED BY <1>4, <2>1, PositionsFinite DEF a
<1> QED BY <1>3, <1>4

LEMMA PositionsTail ==
    ASSUME NEW out \in Seq(Link!Packet), out # <<>>, NEW q
    PROVE  Cardinality(Positions(out, q))
              = Cardinality(Positions(Tail(out), q)) + IF Head(out).queue = q THEN 1 ELSE 0
<1> DEFINE r == Tail(out)
           S == Positions(r, q)
           T == Positions(out, q) \ {1}
           f == [i \in S |-> i + 1]
<1>1. /\ r \in Seq(Link!Packet) /\ Len(out) \in Nat \ {0} /\ Len(r) = Len(out) - 1
      /\ \A i \in 1..Len(r) : r[i] = out[i + 1]
      /\ Head(out) = out[1]
  BY QueueFacts
<1>2. Cardinality(T) = Cardinality(S) /\ IsFiniteSet(T)
  <2> HIDE DEF r
  <2>1. \A i \in S : i \in Nat /\ i + 1 \in T
    BY <1>1 DEF Positions
  <2>2. \A j \in T : j - 1 \in S /\ j - 1 + 1 = j
    BY <1>1 DEF Positions
  <2>3. f \in [S -> T] /\ \A i, j \in S : f[i] = f[j] => i = j
    BY <2>1
  <2>4. \A j \in T : \E i \in S : f[i] = j
    BY <2>1, <2>2
  <2>5. f \in Bijection(S, T)
    <3> HIDE DEF S, T, f
    <3>1. f \in Injection(S, T)
      <4>1. f \in [S -> T] /\ DOMAIN f = S
        BY <2>3
      <4> QED BY <2>3, <4>1 DEF Injection, IsInjective
    <3>2. f \in Surjection(S, T)
      BY <2>3, <2>4 DEF Surjection
    <3> QED BY <3>1, <3>2 DEF Bijection
  <2>6. ExistsBijection(S, T)
    BY <2>5 DEF ExistsBijection
  <2>7. IsFiniteSet(S)
    BY <1>1, PositionsFinite
  <2> QED BY <2>6, <2>7, FS_Bijection
<1>3. 1 \in 1..Len(out)
  BY <1>1
<1>4. CASE Head(out).queue = q
  <2>1. Positions(out, q) = T \union {1} /\ 1 \notin T
    BY <1>1, <1>3, <1>4 DEF Positions
  <2> HIDE DEF T, S
  <2> QED BY <1>1, <1>2, <1>4, <2>1, FS_AddElement, FS_CardinalityType DEF S
<1>5. CASE Head(out).queue # q
  <2>1. Positions(out, q) = T
    BY <1>1, <1>3, <1>5 DEF Positions
  <2>2. Cardinality(S) \in Nat
    BY <1>1, PositionsFinite
  <2> HIDE DEF S, T
  <2> QED BY <1>2, <1>5, <2>1, <2>2 DEF S
<1> QED BY <1>4, <1>5

\* The packet is one that call x has asked for.
Mine(p, x) == p.call = x.call /\ p.data = Link!Payload(x.kind)

\* A queue that nobody reads is empty; the one that a call reads has only what
\* it has asked for, and no more of it than is due.
Quiet(q, out, inn) == inn = <<>> /\ Positions(out, q) = {}
Flight(q, x, out, inn) ==
    /\ \A i \in 1..Len(out) : out[i].queue = q => Mine(out[i], x)
    /\ \A i \in 1..Len(inn) : Mine(inn[i], x)
    /\ Len(inn) + Cardinality(Positions(out, q)) <= x.due - x.left

LEMMA FlightBegins ==
    ASSUME NEW q, NEW x \in LinkTest, NEW out \in Seq(Link!Packet), NEW inn, Quiet(q, out, inn),
           x.left = x.due
    PROVE  Flight(q, x, out, inn)
<1>1. Len(inn) = 0 /\ Cardinality(Positions(out, q)) = 0
  BY EmptyFacts, FS_EmptySet DEF Quiet
<1>2. \A i \in 1..Len(out) : out[i].queue # q
  BY DEF Quiet, Positions
<1> QED BY <1>1, <1>2 DEF Flight, LinkTest

LEMMA FlightEnds ==
    ASSUME NEW q, NEW x \in LinkTest, NEW out \in Seq(Link!Packet), NEW inn \in Seq(Link!Packet),
           Flight(q, x, out, inn), x.left = x.due
    PROVE  Quiet(q, out, inn)
<1>1. Len(inn) \in Nat /\ Cardinality(Positions(out, q)) \in Nat /\ IsFiniteSet(Positions(out, q))
  BY PositionsFinite, LenProperties
<1>2. Len(inn) = 0 /\ Cardinality(Positions(out, q)) = 0
  BY <1>1 DEF Flight, LinkTest
<1> QED BY <1>1, <1>2, EmptySeq, FS_EmptySet DEF Quiet

\* A packet is sent to the queue of the call, or to another.
LEMMA FlightSends ==
    ASSUME NEW q, NEW x \in LinkTest, NEW y \in LinkTest, NEW out \in Seq(Link!Packet),
           NEW inn \in Seq(Link!Packet), Flight(q, x, out, inn),
           NEW p \in Link!Packet, p.queue = q, Mine(p, x),
           y.call = x.call, y.kind = x.kind, y.due = x.due, y.left = x.left - 1
    PROVE  Flight(q, y, Append(out, p), inn)
<1> DEFINE a == Append(out, p)
<1>1. /\ \A i \in 1..Len(out) : a[i] = out[i]
      /\ \A i \in 1..Len(a) : i \in 1..Len(out) \/ i = Len(out) + 1
      /\ a[Len(out) + 1] = p
  BY AppendFacts
<1>2. Cardinality(Positions(a, q)) = Cardinality(Positions(out, q)) + 1
  BY PositionsAppend
<1>3. Len(inn) \in Nat /\ Cardinality(Positions(out, q)) \in Nat
  BY PositionsFinite, LenProperties
<1> HIDE DEF a
<1>4. Len(inn) + Cardinality(Positions(a, q)) <= y.due - y.left
  BY <1>2, <1>3 DEF Flight, LinkTest
<1>5. \A i \in 1..Len(a) : a[i].queue = q => Mine(a[i], y)
  BY <1>1 DEF Flight, Mine
<1>6. \A i \in 1..Len(inn) : Mine(inn[i], y)
  BY DEF Flight, Mine
<1> QED BY <1>4, <1>5, <1>6 DEF Flight, a

LEMMA FlightSentElsewhere ==
    ASSUME NEW q, NEW out \in Seq(Link!Packet), NEW inn, NEW p \in Link!Packet, p.queue # q
    PROVE  /\ \A x \in LinkTest : Flight(q, x, out, inn) => Flight(q, x, Append(out, p), inn)
           /\ Quiet(q, out, inn) => Quiet(q, Append(out, p), inn)
<1> DEFINE a == Append(out, p)
<1>1. /\ \A i \in 1..Len(out) : a[i] = out[i]
      /\ \A i \in 1..Len(a) : i \in 1..Len(out) \/ i = Len(out) + 1
      /\ a[Len(out) + 1] = p
  BY AppendFacts
<1>2. Cardinality(Positions(a, q)) = Cardinality(Positions(out, q))
  BY PositionsAppend, PositionsFinite
<1> HIDE DEF a
<1>3. ASSUME NEW x \in LinkTest, Flight(q, x, out, inn) PROVE Flight(q, x, a, inn)
  BY <1>1, <1>2, <1>3 DEF Flight
<1>4. Quiet(q, out, inn) => Quiet(q, a, inn)
  BY <1>1 DEF Quiet, Positions
<1> QED BY <1>3, <1>4 DEF a

\* The link accepts a packet that goes nowhere, or is lost.
LEMMA FlightLoses ==
    ASSUME NEW q, NEW x \in LinkTest, NEW y \in LinkTest, NEW out \in Seq(Link!Packet),
           NEW inn \in Seq(Link!Packet), Flight(q, x, out, inn),
           y.call = x.call, y.kind = x.kind, y.due = x.due, y.left = x.left - 1
    PROVE  Flight(q, y, out, inn)
<1>1. Len(inn) \in Nat /\ Cardinality(Positions(out, q)) \in Nat
  BY PositionsFinite, LenProperties
<1> QED BY <1>1 DEF Flight, Mine, LinkTest

LEMMA FlightLost ==
    ASSUME NEW q, NEW out \in Seq(Link!Packet), NEW inn \in Seq(Link!Packet)
    PROVE  /\ \A x \in LinkTest : Flight(q, x, out, inn) => Flight(q, x, <<>>, inn)
           /\ Quiet(q, out, inn) => Quiet(q, <<>>, inn)
<1>1. /\ Len(inn) \in Nat /\ Cardinality(Positions(out, q)) \in Nat
      /\ Positions(<<>>, q) = {} /\ Cardinality(Positions(<<>>, q)) = 0 /\ Len(<<>>) = 0
  BY PositionsFinite, PositionsEmpty, LenProperties, FS_EmptySet, EmptyFacts
<1>2. ASSUME NEW x \in LinkTest, Flight(q, x, out, inn) PROVE Flight(q, x, <<>>, inn)
  <2>1. Len(inn) + Cardinality(Positions(<<>>, q)) <= x.due - x.left
    BY <1>1, <1>2 DEF Flight, LinkTest
  <2>2. \A i \in 1..Len(<<>>) : FALSE
    BY <1>1
  <2> QED BY <1>2, <2>1, <2>2 DEF Flight
<1> QED BY <1>1, <1>2 DEF Quiet

\* An answer: the first packet goes to its queue.
LEMMA FlightAnswered ==
    ASSUME NEW q, NEW out \in Seq(Link!Packet), NEW inn \in Seq(Link!Packet), out # <<>>
    PROVE  /\ Head(out).queue = q =>
                 /\ ~Quiet(q, out, inn)
                 /\ \A x \in LinkTest :
                       Flight(q, x, out, inn) => Flight(q, x, Tail(out), Append(inn, Head(out)))
           /\ Head(out).queue # q =>
                 /\ Quiet(q, out, inn) => Quiet(q, Tail(out), inn)
                 /\ \A x \in LinkTest : Flight(q, x, out, inn) => Flight(q, x, Tail(out), inn)
<1> DEFINE r == Tail(out)
           h == Head(out)
           a == Append(inn, h)
<1>1. /\ h \in Link!Packet /\ h = out[1] /\ 1 \in 1..Len(out) /\ r \in Seq(Link!Packet)
      /\ \A i \in 1..Len(r) : r[i] = out[i + 1] /\ i + 1 \in 1..Len(out)
  BY QueueFacts
<1>2. /\ Cardinality(Positions(out, q)) = Cardinality(Positions(r, q)) + IF h.queue = q THEN 1 ELSE 0
      /\ Cardinality(Positions(r, q)) \in Nat /\ Cardinality(Positions(out, q)) \in Nat
  BY <1>1, PositionsTail, PositionsFinite
<1>3. /\ Len(a) = Len(inn) + 1 /\ a[Len(inn) + 1] = h /\ Len(inn) \in Nat
      /\ \A i \in 1..Len(inn) : a[i] = inn[i]
      /\ \A i \in 1..Len(a) : i \in 1..Len(inn) \/ i = Len(inn) + 1
  BY <1>1, AppendFacts, LenProperties
<1> HIDE DEF r, h, a
<1>4. ASSUME h.queue = q, NEW x \in LinkTest, Flight(q, x, out, inn) PROVE Flight(q, x, r, a)
  <2>1. Len(a) + Cardinality(Positions(r, q)) <= x.due - x.left
    <3>1. Len(a) + Cardinality(Positions(r, q)) = Len(inn) + Cardinality(Positions(out, q))
      BY <1>2, <1>3, <1>4
    <3> QED BY <1>4, <3>1 DEF Flight
  <2>2. \A i \in 1..Len(a) : Mine(a[i], x)
    BY <1>1, <1>3, <1>4 DEF Flight
  <2>3. \A i \in 1..Len(r) : r[i].queue = q => Mine(r[i], x)
    BY <1>1, <1>4 DEF Flight
  <2> QED BY <2>1, <2>2, <2>3 DEF Flight
<1>5. ASSUME h.queue # q, NEW x \in LinkTest, Flight(q, x, out, inn) PROVE Flight(q, x, r, inn)
  <2>1. Cardinality(Positions(r, q)) = Cardinality(Positions(out, q))
    BY <1>2, <1>5
  <2> QED BY <1>1, <1>5, <2>1 DEF Flight
<1>6. ASSUME h.queue # q, Quiet(q, out, inn) PROVE Quiet(q, r, inn)
  BY <1>1, <1>6 DEF Quiet, Positions
<1>7. h.queue = q => ~Quiet(q, out, inn)
  BY <1>1 DEF Quiet, Positions
<1> QED BY <1>4, <1>5, <1>6, <1>7 DEF r, h, a

\* A call receives the first answer of its queue.
LEMMA FlightReceives ==
    ASSUME NEW q, NEW x \in LinkTest, NEW out \in Seq(Link!Packet), NEW inn \in Seq(Link!Packet),
           inn # <<>>, Flight(q, x, out, inn), x.left = 0
    PROVE  /\ Mine(Head(inn), x)
           /\ \A y \in LinkTest :
                 y.call = x.call /\ y.kind = x.kind /\ y.left = 0 /\ y.due = x.due - 1
                 => Flight(q, y, out, Tail(inn))
           /\ x.due = 1 => Quiet(q, out, Tail(inn))
<1> DEFINE r == Tail(inn)
<1>1. /\ Head(inn) = inn[1] /\ 1 \in 1..Len(inn) /\ r \in Seq(Link!Packet)
      /\ Len(r) = Len(inn) - 1 /\ Len(inn) \in Nat \ {0} /\ Len(r) \in Nat
      /\ \A i \in 1..Len(r) : r[i] = inn[i + 1] /\ i + 1 \in 1..Len(inn)
  BY QueueFacts, LenProperties
<1>2. Cardinality(Positions(out, q)) \in Nat /\ IsFiniteSet(Positions(out, q))
  BY PositionsFinite
<1> HIDE DEF r
<1>3. Mine(Head(inn), x)
  BY <1>1 DEF Flight
<1>4. ASSUME NEW y \in LinkTest, y.call = x.call, y.kind = x.kind, y.left = 0, y.due = x.due - 1
      PROVE  Flight(q, y, out, r)
  <2>1. Len(r) + Cardinality(Positions(out, q)) <= y.due - y.left
    BY <1>1, <1>2, <1>4 DEF Flight, LinkTest
  <2>2. \A i \in 1..Len(r) : Mine(r[i], y)
    BY <1>1, <1>4 DEF Flight, Mine
  <2>3. \A i \in 1..Len(out) : out[i].queue = q => Mine(out[i], y)
    BY <1>4 DEF Flight, Mine
  <2> QED BY <2>1, <2>2, <2>3 DEF Flight
<1>5. ASSUME x.due = 1 PROVE Quiet(q, out, r)
  <2>1. Len(r) = 0 /\ Cardinality(Positions(out, q)) = 0
    BY <1>1, <1>2, <1>5 DEF Flight, LinkTest
  <2> QED BY <1>1, <1>2, <2>1, EmptySeq, FS_EmptySet DEF Quiet
<1> QED BY <1>3, <1>4, <1>5 DEF r

\* Nothing of an uplink test goes out after its echo request, nor once the
\* answer to that has come, nor after it has succeeded.
Gone(x, out) == \A j \in 1..Len(out) : out[j].call # x.call
Last(x, out, inn) ==
    /\ \A i, j \in 1..Len(out) : i < j /\ out[i].queue = "echo" => out[j].call # x.call
    /\ inn # <<>> => Gone(x, out)
SinkLast(x, out, inn) ==
    x.kind = "uplink" => /\ x.stage = "wait" => Last(x, out, inn)
                         /\ x.outcome = "ok" => Gone(x, out)

LEMMA SinkSentElsewhere ==
    ASSUME NEW x, NEW out \in Seq(Link!Packet), NEW inn, SinkLast(x, out, inn),
           NEW p \in Link!Packet, p.call # x.call
    PROVE  SinkLast(x, Append(out, p), inn)
<1> DEFINE a == Append(out, p)
<1>1. /\ \A i \in 1..Len(out) : a[i] = out[i]
      /\ \A i \in 1..Len(a) : i \in 1..Len(out) \/ i = Len(out) + 1
      /\ a[Len(out) + 1] = p /\ Len(out) \in Nat
  BY AppendFacts, LenProperties
<1> HIDE DEF a
<1>2. Gone(x, out) => Gone(x, a)
  BY <1>1 DEF Gone
<1>3. Last(x, out, inn) => Last(x, a, inn)
  <2> SUFFICES ASSUME Last(x, out, inn), NEW i \in 1..Len(a), NEW j \in 1..Len(a),
                      i < j, a[i].queue = "echo"
               PROVE  a[j].call # x.call
    BY <1>2 DEF Last
  <2>1. CASE j = Len(out) + 1
    BY <1>1, <2>1
  <2>2. CASE j \in 1..Len(out)
    <3>1. i \in 1..Len(out)
      BY <1>1, <2>2
    <3> QED BY <1>1, <2>2, <3>1 DEF Last
  <2> QED BY <1>1, <2>1, <2>2
<1> QED BY <1>2, <1>3 DEF SinkLast, a

\* The echo request goes out, or nowhere, with nothing before it on its queue.
LEMMA SinkSends ==
    ASSUME NEW x, NEW out \in Seq(Link!Packet), NEW inn, Quiet("echo", out, inn),
           NEW p \in Link!Packet, p.queue = "echo"
    PROVE  Last(x, out, inn) /\ Last(x, Append(out, p), inn)
<1> DEFINE a == Append(out, p)
<1>1. /\ \A i \in 1..Len(out) : a[i] = out[i]
      /\ \A i \in 1..Len(a) : i \in 1..Len(out) \/ i = Len(out) + 1
      /\ Len(a) = Len(out) + 1 /\ Len(out) \in Nat
  BY AppendFacts, LenProperties
<1> HIDE DEF a
<1>2. \A i \in 1..Len(out) : out[i].queue # "echo"
  BY DEF Quiet, Positions
<1>3. \A i, j \in 1..Len(a) : i < j => a[i].queue # "echo"
  BY <1>1, <1>2
<1> QED BY <1>2, <1>3 DEF Last, Quiet, a

LEMMA SinkAnswered ==
    ASSUME NEW x, NEW out \in Seq(Link!Packet), NEW inn, SinkLast(x, out, inn), out # <<>>
    PROVE  /\ Head(out).queue # "echo" => SinkLast(x, Tail(out), inn)
           /\ Head(out).queue = "echo" => \A new : SinkLast(x, Tail(out), new)
<1> DEFINE r == Tail(out)
<1>1. /\ Head(out) = out[1] /\ 1 \in 1..Len(out) /\ Len(out) \in Nat
      /\ \A i \in 1..Len(r) : r[i] = out[i + 1] /\ i + 1 \in 1..Len(out)
      /\ r \in Seq(Link!Packet) /\ Len(r) \in Nat
  BY QueueFacts, LenProperties
<1> HIDE DEF r
<1>2. Gone(x, out) => Gone(x, r)
  BY <1>1 DEF Gone
<1>3. ASSUME Last(x, out, inn) PROVE Last(x, r, inn)
  <2> SUFFICES ASSUME NEW i \in 1..Len(r), NEW j \in 1..Len(r), i < j, r[i].queue = "echo"
               PROVE  r[j].call # x.call
    BY <1>2, <1>3 DEF Last
  <2>1. i + 1 < j + 1 /\ i + 1 \in 1..Len(out) /\ j + 1 \in 1..Len(out)
    BY <1>1
  <2> QED BY <1>1, <1>3, <2>1 DEF Last
<1>4. ASSUME Last(x, out, inn), Head(out).queue = "echo", NEW new PROVE Last(x, r, new)
  <2>1. \A j \in 1..Len(r) : 1 < j + 1
    BY <1>1
  <2>2. Gone(x, r)
    BY <1>1, <1>4, <2>1 DEF Last, Gone
  <2> QED BY <2>2 DEF Last, Gone
<1> QED BY <1>2, <1>3, <1>4 DEF SinkLast, r

LEMMA SinkLost == ASSUME NEW x, NEW inn PROVE SinkLast(x, <<>>, inn)
<1>1. \A i \in 1..Len(<<>>) : FALSE
  BY EmptyFacts
<1> QED BY <1>1 DEF SinkLast, Last, Gone

-----------------------------------------------------------------------------
(* LinkService: the invariant *)

\* A call holds the mutex of its queue from its first request to its last answer.
LinkGuards ==
    \A t \in Clients, q \in Link!Queues :
        guard[q] = t <=> test[t].stage \in {"send", "wait"} /\ Link!Queue(test[t].kind) = q

\* A call has a number of its own.
LinkCalls ==
    /\ \A t \in Clients : test[t].call <= tests
    /\ \A s, t \in Clients : s # t /\ test[s].call = test[t].call => test[s].call = 0

\* What is under way is for the call that reads it.
LinkFlights ==
    ~abandoned =>
        /\ ~foreign /\ \A t \in Clients : test[t].outcome # "protocol"
        /\ \A q \in Link!Queues : guard[q] = NoOne => Quiet(q, outgoing, incoming[q])
        /\ \A q \in Link!Queues, t \in Clients :
              guard[q] = t => Flight(q, test[t], outgoing, incoming[q])
LinkSinks ==
    ~abandoned => \A t \in Clients : SinkLast(test[t], outgoing, incoming["echo"])

LinkRest == LinkGuards /\ LinkCalls /\ LinkFlights /\ LinkSinks

LEMMA LinkRestInit == ASSUME Link!ConstantsOK, Link!Init PROVE LinkRest
<1>1. /\ \A q \in Link!Queues : guard[q] = NoOne /\ incoming[q] = <<>>
      /\ outgoing = <<>> /\ tests = 0 /\ ~foreign /\ NoOne \notin Clients
      /\ \A t \in Clients : test[t].call = 0 /\ test[t].stage = "idle" /\ test[t].outcome = "none"
  BY DEF Link!Init, Link!ConstantsOK
<1>2. LinkSinks
  BY <1>1, SinkLost DEF LinkSinks
<1>3. \A q \in Link!Queues : Quiet(q, outgoing, incoming[q])
  BY <1>1, PositionsEmpty DEF Quiet
<1> QED BY <1>1, <1>2, <1>3 DEF LinkRest, LinkGuards, LinkCalls, LinkFlights

\* A call ends, and what is left behind is counted, if anything is.
LEMMA LinkEndKeeps ==
    ASSUME Link!ConstantsOK, LinkTypes, LinkRest, NEW t \in Clients,
           NEW o \in Link!Outcomes \ {"protocol"}, Link!End(t, o),
           UNCHANGED <<outgoing, incoming, foreign, tests>>,
           Link!Abandons(t) \/ (abandoned' = abandoned /\ test[t].left = test[t].due),
           o = "ok" => test[t].kind # "uplink"
    PROVE  LinkRest'
<1>1. /\ test'[t].stage = "idle" /\ test'[t].outcome = o
      /\ test'[t].call = test[t].call /\ test'[t].kind = test[t].kind
      /\ \A s \in Clients \ {t} : test'[s] = test[s]
      /\ \A q \in Link!Queues : guard'[q] = IF guard[q] = t THEN NoOne ELSE guard[q]
  BY LinkEnds
<1>2. ~abandoned' => ~abandoned /\ test[t].left = test[t].due
  BY LinkAbandons
<1>3. /\ NoOne \notin Clients /\ \A s \in Clients : test[s] \in LinkTest
      /\ outgoing \in Seq(Link!Packet) /\ \A q \in Link!Queues : incoming[q] \in Seq(Link!Packet)
  BY LinkTypesNow DEF Link!ConstantsOK
<1>4. LinkGuards' /\ LinkCalls'
  BY <1>1, <1>3 DEF LinkRest, LinkGuards, LinkCalls
<1>5. LinkFlights'
  <2> SUFFICES ASSUME ~abandoned' PROVE LinkFlights'
    BY DEF LinkFlights
  <2>1. \A q \in Link!Queues : guard'[q] = NoOne => Quiet(q, outgoing, incoming[q])
    BY <1>1, <1>2, <1>3, FlightEnds DEF LinkRest, LinkFlights
  <2>2. \A q \in Link!Queues, s \in Clients :
            guard'[q] = s => Flight(q, test'[s], outgoing, incoming[q])
    BY <1>1, <1>2, <1>3 DEF LinkRest, LinkFlights
  <2> QED BY <1>1, <1>2, <2>1, <2>2 DEF LinkRest, LinkFlights
<1>6. LinkSinks'
  BY <1>1, <1>2 DEF LinkRest, LinkSinks, SinkLast
<1> QED BY <1>4, <1>5, <1>6 DEF LinkRest

\* A call begins, or takes the mutex.
LEMMA LinkStartKeeps ==
    ASSUME Link!ConstantsOK, LinkTypes, LinkRest, NEW t \in Clients, NEW k \in Link!Kinds,
           NEW n \in Link!SizesOf(k), Link!Start(t, k, n)
    PROVE  LinkRest'
<1>1. PICK x \in LinkTest :
         /\ Settled(x) /\ test' = [test EXCEPT ![t] = x]
         /\ x.call = tests + 1 /\ x.kind = k /\ x.stage \in {"sink", "lock"} /\ x.outcome = "none"
  BY LinkStart
<1>2. /\ test'[t] = x /\ \A s \in Clients \ {t} : test'[s] = test[s]
      /\ tests' = tests + 1 /\ tests \in Nat /\ \A s \in Clients : test[s].call \in Nat
      /\ UNCHANGED <<guard, outgoing, incoming, foreign, abandoned>> /\ test[t].stage = "idle"
  BY <1>1, LinkTypesNow DEF Link!Start, Link!At, Link!ConstantsOK, LinkTest
<1>3. LinkGuards'
  BY <1>1, <1>2 DEF LinkRest, LinkGuards
<1>4. LinkCalls'
  BY <1>1, <1>2 DEF LinkRest, LinkCalls
<1>5. LinkFlights'
  BY <1>1, <1>2 DEF LinkRest, LinkGuards, LinkFlights
<1>6. LinkSinks'
  BY <1>1, <1>2 DEF LinkRest, LinkSinks, SinkLast
<1> QED BY <1>3, <1>4, <1>5, <1>6 DEF LinkRest

LEMMA LinkLockKeeps ==
    ASSUME Link!ConstantsOK, LinkTypes, LinkRest, NEW t \in Clients, Link!Lock(t)
    PROVE  LinkRest'
<1> DEFINE q == Link!Queue(test[t].kind)
<1>0. /\ test[t] \in LinkTest /\ Settled(test[t]) /\ test[t].stage = "lock"
      /\ test[t].kind \in Link!Kinds /\ q \in Link!Queues /\ guard[q] = NoOne
      /\ UNCHANGED <<outgoing, incoming, foreign, abandoned, tests>>
      /\ NoOne \notin Clients /\ outgoing \in Seq(Link!Packet)
  BY LinkTypesNow, LinkKinds, LinkLock DEF Link!Lock, Link!At, LinkTest, Link!ConstantsOK
<1>1. CASE Link!End(t, "ok") /\ Link!Asked(test[t].kind, test[t].n) = 0
  <2>1. test[t].left = test[t].due /\ test[t].kind # "uplink"
    BY <1>0, <1>1 DEF Settled, Link!Asked
  <2> QED BY <1>0, <1>1, <2>1, LinkEndKeeps DEF Link!Outcomes
<1>2. ASSUME guard' = [guard EXCEPT ![q] = t], NEW x \in LinkTest, Settled(x),
             test' = [test EXCEPT ![t] = x], x.call = test[t].call, x.kind = test[t].kind,
             x.stage = "send", x.outcome = "none", x.left = x.due
      PROVE  LinkRest'
  <2>1. /\ test'[t] = x /\ \A s \in Clients \ {t} : test'[s] = test[s]
        /\ guard'[q] = t /\ \A r \in Link!Queues \ {q} : guard'[r] = guard[r]
    BY <1>0, <1>2, LinkTypesNow
  <2> HIDE DEF q
  <2>2. LinkGuards'
    BY <1>0, <1>2, <2>1 DEF LinkRest, LinkGuards, q
  <2>3. LinkCalls'
    BY <1>0, <1>2, <2>1 DEF LinkRest, LinkCalls
  <2>4. LinkFlights'
    <3> SUFFICES ASSUME ~abandoned PROVE LinkFlights'
      BY <1>0 DEF LinkFlights
    <3>1. Flight(q, x, outgoing, incoming[q])
      BY <1>0, <1>2, FlightBegins DEF LinkRest, LinkFlights
    <3>2. \A r \in Link!Queues, s \in Clients :
              guard'[r] = s => Flight(r, test'[s], outgoing, incoming[r])
      BY <1>0, <2>1, <2>2, <3>1 DEF LinkRest, LinkFlights, LinkGuards, q
    <3>3. \A r \in Link!Queues : guard'[r] = NoOne => Quiet(r, outgoing, incoming[r])
      BY <1>0, <2>1 DEF LinkRest, LinkFlights
    <3> QED BY <1>0, <1>2, <2>1, <3>2, <3>3 DEF LinkRest, LinkFlights
  <2>5. LinkSinks'
    BY <1>0, <1>2, <2>1 DEF LinkRest, LinkSinks, SinkLast
  <2> QED BY <2>2, <2>3, <2>4, <2>5 DEF LinkRest
<1> QED BY <1>1, <1>2, LinkLock

LEMMA LinkSendFailsKeeps ==
    ASSUME Link!ConstantsOK, LinkTypes, LinkRest, NEW t \in Clients, Link!SendFails(t)
    PROVE  LinkRest'
  BY LinkEndKeeps DEF Link!SendFails, Link!Outcomes

\* A packet for the sink, which is about no queue.
LEMMA LinkSinkKeeps ==
    ASSUME Link!ConstantsOK, LinkTypes, LinkRest, NEW t \in Clients, Link!Sink(t)
    PROVE  LinkRest'
<1> SUFFICES ASSUME ~Link!SendFails(t) PROVE LinkRest'
  BY LinkSendFailsKeeps
<1>1. PICK x \in LinkTest :
         /\ Settled(x) /\ test' = [test EXCEPT ![t] = x]
         /\ x.call = test[t].call /\ x.kind = test[t].kind
         /\ x.stage \in {"sink", "lock"} /\ x.outcome = "none"
  BY LinkSink
<1>2. PICK p \in Link!Packet : p = Link!PacketOf(t, "sink") /\ p.queue = "sink" /\ p.call = x.call
  BY <1>1, LinkPackets
<1>3. /\ test'[t] = x /\ \A s \in Clients \ {t} : test'[s] = test[s]
      /\ UNCHANGED <<guard, incoming, foreign, abandoned, tests>> /\ test[t].stage = "sink"
      /\ outgoing' = Append(outgoing, p) \/ outgoing' = outgoing
  BY <1>1, <1>2, LinkTypesNow, LinkSink DEF Link!Sink, Link!At, Link!Accepted
<1>4. /\ outgoing \in Seq(Link!Packet) /\ \A s \in Clients : test[s] \in LinkTest /\ Settled(test[s])
      /\ \A q \in Link!Queues : q # "sink"
  BY LinkTypesNow DEF Link!Queues
<1>5. LinkGuards' /\ LinkCalls'
  BY <1>1, <1>3 DEF LinkRest, LinkGuards, LinkCalls
<1>6. LinkFlights'
  <2> SUFFICES ASSUME ~abandoned PROVE LinkFlights'
    BY <1>3 DEF LinkFlights
  <2>1. \A q \in Link!Queues : guard[q] = NoOne => Quiet(q, outgoing', incoming[q])
    BY <1>2, <1>3, <1>4, FlightSentElsewhere DEF LinkRest, LinkFlights
  <2>2. \A q \in Link!Queues, s \in Clients :
            guard[q] = s => s # t /\ Flight(q, test[s], outgoing', incoming[q])
    <3> SUFFICES ASSUME NEW q \in Link!Queues, NEW s \in Clients, guard[q] = s
                 PROVE  s # t /\ Flight(q, test[s], outgoing', incoming[q])
      OBVIOUS
    <3>1. s # t
      BY <1>3 DEF LinkRest, LinkGuards
    <3>2. Flight(q, test[s], outgoing, incoming[q])
      BY DEF LinkRest, LinkFlights
    <3>3. p.queue # q
      BY <1>2, <1>4
    <3> QED BY <1>3, <1>4, <3>1, <3>2, <3>3, FlightSentElsewhere
  <2> QED BY <1>1, <1>3, <2>1, <2>2 DEF LinkRest, LinkFlights
<1>7. LinkSinks'
  <2> SUFFICES ASSUME ~abandoned, NEW s \in Clients
               PROVE  SinkLast(test'[s], outgoing', incoming["echo"])
    BY <1>3 DEF LinkSinks
  <2>1. CASE s = t
    BY <1>1, <1>3, <2>1 DEF SinkLast
  <2>2. CASE s # t
    <3>1. test[s].call # p.call
      BY <1>1, <1>2, <1>3, <1>4, <2>2 DEF LinkRest, LinkCalls, Settled
    <3>2. SinkLast(test[s], outgoing, incoming["echo"])
      BY DEF LinkRest, LinkSinks
    <3> QED BY <1>3, <1>4, <2>2, <3>1, <3>2, SinkSentElsewhere
  <2> QED BY <2>1, <2>2
<1> QED BY <1>5, <1>6, <1>7 DEF LinkRest

\* A request on the queue of the call.
LEMMA LinkSendKeeps ==
    ASSUME Link!ConstantsOK, LinkTypes, LinkRest, NEW t \in Clients, Link!Send(t)
    PROVE  LinkRest'
<1> SUFFICES ASSUME ~Link!SendFails(t) PROVE LinkRest'
  BY LinkSendFailsKeeps
<1>1. PICK x \in LinkTest :
         /\ Settled(x) /\ test' = [test EXCEPT ![t] = x]
         /\ x.call = test[t].call /\ x.kind = test[t].kind
         /\ x.stage = IF x.left = 0 THEN "wait" ELSE "send"
         /\ x.outcome = "none" /\ x.left = test[t].left - 1 /\ x.due = test[t].due
  BY LinkSend
<1>2. PICK q \in Link!Queues : q = Link!Queue(test[t].kind)
  BY LinkTypesNow, LinkKinds DEF LinkTest
<1>3. PICK p \in Link!Packet : p = Link!PacketOf(t, q) /\ p.queue = q /\ Mine(p, test[t])
  BY LinkPackets DEF Mine, Link!Queues
<1>4. /\ test'[t] = x /\ \A s \in Clients \ {t} : test'[s] = test[s]
      /\ UNCHANGED <<guard, incoming, foreign, abandoned, tests>> /\ test[t].stage = "send"
      /\ outgoing' = Append(outgoing, p) \/ outgoing' = outgoing
  BY <1>1, <1>2, <1>3, LinkTypesNow, LinkSend DEF Link!Send, Link!At, Link!Accepted
<1>5. /\ outgoing \in Seq(Link!Packet) /\ \A s \in Clients : test[s] \in LinkTest /\ Settled(test[s])
      /\ \A r \in Link!Queues : incoming[r] \in Seq(Link!Packet)
      /\ NoOne \notin Clients /\ "echo" \in Link!Queues
  BY LinkTypesNow DEF Link!ConstantsOK, Link!Queues
<1>6. LinkGuards' /\ LinkCalls' /\ guard[q] = t
  BY <1>1, <1>2, <1>4 DEF LinkRest, LinkGuards, LinkCalls
<1>7. ~abandoned => Flight(q, test[t], outgoing, incoming[q])
  BY <1>6 DEF LinkRest, LinkFlights
<1>8. LinkFlights'
  <2> SUFFICES ASSUME ~abandoned PROVE LinkFlights'
    BY <1>4 DEF LinkFlights
  <2>1. Flight(q, x, outgoing', incoming[q])
    <3>1. CASE outgoing' = outgoing
      BY <1>1, <1>5, <1>7, <3>1, FlightLoses
    <3>2. CASE outgoing' = Append(outgoing, p)
      BY <1>1, <1>3, <1>5, <1>7, <3>2, FlightSends
    <3> QED BY <1>4, <3>1, <3>2
  <2>2. \A r \in Link!Queues : guard[r] = NoOne => Quiet(r, outgoing', incoming[r])
    BY <1>3, <1>4, <1>5, <1>6, FlightSentElsewhere DEF LinkRest, LinkFlights
  <2>3. \A r \in Link!Queues, s \in Clients :
            guard[r] = s => Flight(r, test'[s], outgoing', incoming[r])
    <3> SUFFICES ASSUME NEW r \in Link!Queues, NEW s \in Clients, guard[r] = s
                 PROVE  Flight(r, test'[s], outgoing', incoming[r])
      OBVIOUS
    <3>1. CASE r = q
      BY <1>4, <1>6, <2>1, <3>1
    <3>2. CASE r # q
      <4>1. s # t
        BY <1>2, <3>2 DEF LinkRest, LinkGuards
      <4>2. Flight(r, test[s], outgoing, incoming[r])
        BY DEF LinkRest, LinkFlights
      <4> QED BY <1>3, <1>4, <1>5, <3>2, <4>1, <4>2, FlightSentElsewhere
    <3> QED BY <3>1, <3>2
  <2> QED BY <1>1, <1>4, <2>2, <2>3 DEF LinkRest, LinkFlights
<1>9. LinkSinks'
  <2> SUFFICES ASSUME ~abandoned, NEW s \in Clients
               PROVE  SinkLast(test'[s], outgoing', incoming["echo"])
    BY <1>4 DEF LinkSinks
  <2>1. CASE s = t
    <3> SUFFICES ASSUME x.kind = "uplink", x.stage = "wait"
                 PROVE  Last(x, outgoing', incoming["echo"])
      BY <1>1, <1>4, <2>1 DEF SinkLast
    <3>1. q = "echo" /\ test[t].due = 1 /\ test[t].left = 1
      BY <1>1, <1>2, <1>4, <1>5 DEF Link!Queue, Settled, Link!Asked, LinkTest
    <3>2. Quiet("echo", outgoing, incoming["echo"])
      BY <1>5, <1>7, <3>1, FlightEnds
    <3> QED BY <1>3, <1>4, <1>5, <3>1, <3>2, SinkSends
  <2>2. CASE s # t
    <3>1. test[s].call # p.call
      BY <1>1, <1>3, <1>4, <1>5, <2>2 DEF LinkRest, LinkCalls, Settled, Mine
    <3>2. SinkLast(test[s], outgoing, incoming["echo"])
      BY DEF LinkRest, LinkSinks
    <3> QED BY <1>4, <1>5, <2>2, <3>1, <3>2, SinkSentElsewhere
  <2> QED BY <2>1, <2>2
<1> QED BY <1>6, <1>8, <1>9 DEF LinkRest

\* The first answer on the queue is to the call, or an earlier one was given up.
LEMMA LinkReceiveKeeps ==
    ASSUME Link!ConstantsOK, LinkTypes, LinkRest, NEW t \in Clients, Link!Receive(t)
    PROVE  LinkRest'
<1>1. PICK q \in Link!Queues : q = Link!Queue(test[t].kind)
  BY LinkTypesNow, LinkKinds DEF LinkTest
<1>2. PICK p : p = Head(incoming[q])
  OBVIOUS
<1>3. /\ test[t].stage = "wait" /\ incoming[q] # <<>>
      /\ incoming' = [incoming EXCEPT ![q] = Tail(@)]
      /\ foreign' = (foreign \/ p.call # test[t].call)
      /\ UNCHANGED <<outgoing, tests>>
  BY <1>1, <1>2, LinkReceive
<1>4. /\ outgoing \in Seq(Link!Packet) /\ \A s \in Clients : test[s] \in LinkTest /\ Settled(test[s])
      /\ \A r \in Link!Queues : incoming[r] \in Seq(Link!Packet)
      /\ NoOne \notin Clients /\ "echo" \in Link!Queues
      /\ incoming'[q] = Tail(incoming[q]) /\ \A r \in Link!Queues \ {q} : incoming'[r] = incoming[r]
      /\ test[t].left = 0 /\ test[t].due # 0 /\ test[t].outcome = "none"
  BY <1>3, LinkTypesNow DEF Link!ConstantsOK, Link!Queues, Settled
<1>5. guard[q] = t /\ \A r \in Link!Queues : guard[r] = t => r = q
  BY <1>1, <1>3 DEF LinkRest, LinkGuards
<1>6. ~abandoned => Flight(q, test[t], outgoing, incoming[q])
  BY <1>5 DEF LinkRest, LinkFlights
<1>7. ~abandoned =>
          /\ Mine(p, test[t])
          /\ \A y \in LinkTest :
                y.call = test[t].call /\ y.kind = test[t].kind /\ y.left = 0
                /\ y.due = test[t].due - 1 => Flight(q, y, outgoing, incoming'[q])
          /\ test[t].due = 1 => Quiet(q, outgoing, incoming'[q])
  <2> SUFFICES ASSUME ~abandoned
               PROVE  /\ Mine(p, test[t])
                      /\ \A y \in LinkTest :
                            y.call = test[t].call /\ y.kind = test[t].kind /\ y.left = 0
                            /\ y.due = test[t].due - 1 => Flight(q, y, outgoing, incoming'[q])
                      /\ test[t].due = 1 => Quiet(q, outgoing, incoming'[q])
    OBVIOUS
  <2>1. PICK inn \in Seq(Link!Packet) : inn = incoming[q]
    BY <1>4
  <2>2. PICK z \in LinkTest : z = test[t]
    BY <1>4
  <2>3. inn # <<>> /\ Flight(q, z, outgoing, inn) /\ z.left = 0
    BY <1>3, <1>4, <1>6, <2>1, <2>2
  <2>4. /\ Mine(Head(inn), z)
        /\ \A y \in LinkTest :
              y.call = z.call /\ y.kind = z.kind /\ y.left = 0 /\ y.due = z.due - 1
              => Flight(q, y, outgoing, Tail(inn))
        /\ z.due = 1 => Quiet(q, outgoing, Tail(inn))
    BY <1>4, <2>3, FlightReceives
  <2> QED BY <1>2, <1>4, <2>1, <2>2, <2>4
<1>8. ~abandoned => Link!Matches(test[t].kind, p) /\ p.call = test[t].call
  BY <1>7 DEF Mine, Link!Matches
\* Whoever takes no answer has the queues as they were, or reads the other one.
<1>9. \A s \in Clients \ {t} : ~abandoned =>
          /\ SinkLast(test[s], outgoing, incoming'["echo"])
          /\ \A r \in Link!Queues : guard[r] = s => Flight(r, test[s], outgoing, incoming'[r])
  <2> SUFFICES ASSUME NEW s \in Clients \ {t}, ~abandoned
               PROVE  /\ SinkLast(test[s], outgoing, incoming'["echo"])
                      /\ \A r \in Link!Queues :
                            guard[r] = s => Flight(r, test[s], outgoing, incoming'[r])
    OBVIOUS
  <2>1. \A r \in Link!Queues : guard[r] = s => Flight(r, test[s], outgoing, incoming'[r])
    BY <1>4, <1>5 DEF LinkRest, LinkFlights
  <2>2. SinkLast(test[s], outgoing, incoming["echo"])
    BY DEF LinkRest, LinkSinks
  <2>3. CASE q # "echo"
    BY <1>4, <2>1, <2>2, <2>3
  <2>4. CASE q = "echo"
    <3>1. test[s].kind = "uplink" => test[s].stage # "wait"
      BY <1>4, <1>5, <2>4 DEF LinkRest, LinkGuards, Link!Queue
    <3> QED BY <2>1, <2>2, <3>1 DEF SinkLast
  <2> QED BY <2>3, <2>4
<1>10. ~abandoned /\ test[t].kind = "uplink" => Gone(test[t], outgoing)
  <2> SUFFICES ASSUME ~abandoned, test[t].kind = "uplink" PROVE Gone(test[t], outgoing)
    OBVIOUS
  <2>1. q = "echo"
    BY <1>1 DEF Link!Queue
  <2> QED BY <1>3, <2>1 DEF LinkRest, LinkSinks, SinkLast, Last
<1>11. \A r \in Link!Queues : guard[r] = NoOne /\ ~abandoned => Quiet(r, outgoing, incoming'[r])
  BY <1>4, <1>5 DEF LinkRest, LinkFlights
<1>12. ASSUME Link!Matches(test[t].kind, p), UNCHANGED <<guard, abandoned>>, NEW x \in LinkTest,
              Settled(x), test' = [test EXCEPT ![t] = x], x.call = test[t].call,
              x.kind = test[t].kind, x.stage = "wait", x.outcome = "none", x.left = 0,
              x.due = test[t].due - 1
       PROVE  LinkRest'
  <2>1. test'[t] = x /\ \A s \in Clients \ {t} : test'[s] = test[s]
    BY <1>12, LinkTypesNow
  <2>2. LinkGuards' /\ LinkCalls'
    BY <1>3, <1>12, <2>1 DEF LinkRest, LinkGuards, LinkCalls
  <2>3. LinkFlights'
    <3> SUFFICES ASSUME ~abandoned PROVE LinkFlights'
      BY <1>12 DEF LinkFlights
    <3>1. \A r \in Link!Queues, s \in Clients :
              guard[r] = s => Flight(r, test'[s], outgoing, incoming'[r])
      <4>1. Flight(q, x, outgoing, incoming'[q])
        <5>1. \A y \in LinkTest : y.call = test[t].call /\ y.kind = test[t].kind /\ y.left = 0
                  /\ y.due = test[t].due - 1 => Flight(q, y, outgoing, incoming'[q])
          BY <1>7
        <5> QED BY <1>12, <5>1
      <4>2. \A r \in Link!Queues : guard[r] = t => Flight(r, test'[t], outgoing, incoming'[r])
        BY <1>5, <2>1, <4>1
      <4>3. \A s \in Clients \ {t} : \A r \in Link!Queues :
                guard[r] = s => Flight(r, test'[s], outgoing, incoming'[r])
        BY <1>9, <2>1
      <4> QED BY <4>2, <4>3
    <3>2. ~foreign' /\ \A s \in Clients : test'[s].outcome # "protocol"
      BY <1>3, <1>8, <1>12, <2>1 DEF LinkRest, LinkFlights
    <3> QED BY <1>3, <1>11, <1>12, <3>1, <3>2 DEF LinkFlights
  <2>4. LinkSinks'
    <3>1. ~abandoned => SinkLast(x, outgoing, incoming'["echo"])
      BY <1>10, <1>12 DEF SinkLast, Last, Gone
    <3> QED BY <1>3, <1>9, <1>12, <2>1, <3>1 DEF LinkSinks
  <2> QED BY <2>2, <2>3, <2>4 DEF LinkRest
<1>13. ASSUME Link!Matches(test[t].kind, p), test[t].due = 1, Link!End(t, "ok"), UNCHANGED abandoned
       PROVE  LinkRest'
  <2>1. /\ test'[t].stage = "idle" /\ test'[t].outcome = "ok"
        /\ test'[t].call = test[t].call /\ test'[t].kind = test[t].kind
        /\ \A s \in Clients \ {t} : test'[s] = test[s]
        /\ \A r \in Link!Queues : guard'[r] = IF guard[r] = t THEN NoOne ELSE guard[r]
    BY <1>13, LinkEnds DEF Link!Outcomes
  <2>2. LinkGuards' /\ LinkCalls'
    BY <1>3, <1>4, <2>1 DEF LinkRest, LinkGuards, LinkCalls
  <2>3. LinkFlights'
    <3> SUFFICES ASSUME ~abandoned PROVE LinkFlights'
      BY <1>13 DEF LinkFlights
    <3>1. \A r \in Link!Queues, s \in Clients :
              guard'[r] = s => Flight(r, test'[s], outgoing, incoming'[r])
      BY <1>4, <1>9, <2>1
    <3>2. ~foreign' /\ \A s \in Clients : test'[s].outcome # "protocol"
      BY <1>3, <1>8, <2>1 DEF LinkRest, LinkFlights
    <3>3. \A r \in Link!Queues : guard'[r] = NoOne => Quiet(r, outgoing, incoming'[r])
      <4>1. Quiet(q, outgoing, incoming'[q])
        <5>1. test[t].due = 1 => Quiet(q, outgoing, incoming'[q])
          BY <1>7
        <5> QED BY <1>13, <5>1
      <4> QED BY <1>5, <1>11, <2>1, <4>1
    <3> QED BY <1>3, <1>13, <3>1, <3>2, <3>3 DEF LinkFlights
  <2>4. LinkSinks'
    <3>1. ~abandoned => SinkLast(test'[t], outgoing, incoming'["echo"])
      BY <1>10, <2>1 DEF SinkLast, Gone
    <3> QED BY <1>3, <1>9, <1>13, <2>1, <3>1 DEF LinkSinks
  <2> QED BY <2>2, <2>3, <2>4 DEF LinkRest
<1>14. ASSUME ~Link!Matches(test[t].kind, p), Link!End(t, "protocol"), Link!Abandons(t)
       PROVE  LinkRest'
  <2>1. abandoned'
    BY <1>4, <1>14 DEF Link!Abandons
  <2>2. /\ test'[t].stage = "idle"
        /\ test'[t].call = test[t].call /\ test'[t].kind = test[t].kind
        /\ \A s \in Clients \ {t} : test'[s] = test[s]
        /\ \A r \in Link!Queues : guard'[r] = IF guard[r] = t THEN NoOne ELSE guard[r]
    BY <1>14, LinkEnds DEF Link!Outcomes
  <2>3. LinkGuards'
    <3>1. \A s \in Clients \ {t}, r \in Link!Queues :
              guard'[r] = s <=> test'[s].stage \in {"send", "wait"} /\ Link!Queue(test'[s].kind) = r
      BY <1>4, <2>2 DEF LinkRest, LinkGuards
    <3>2. \A r \in Link!Queues : guard'[r] # t
      BY <1>4, <2>2
    <3> QED BY <2>2, <3>1, <3>2 DEF LinkGuards
  <2>4. LinkCalls'
    BY <1>3, <2>2 DEF LinkRest, LinkCalls
  <2> QED BY <2>1, <2>3, <2>4 DEF LinkRest, LinkFlights, LinkSinks
<1> QED BY <1>1, <1>2, <1>12, <1>13, <1>14, LinkReceive

\* The Crazyflie answers the first packet, on its queue.
LEMMA LinkAnswerKeeps ==
    ASSUME Link!ConstantsOK, LinkTypes, LinkRest, Link!Answer
    PROVE  LinkRest'
<1>1. PICK p : p = Head(outgoing)
  OBVIOUS
<1>2. /\ outgoing \in Seq(Link!Packet) /\ outgoing # <<>> /\ outgoing' = Tail(outgoing)
      /\ UNCHANGED <<test, guard, foreign, abandoned, tests>>
      /\ \A s \in Clients : test[s] \in LinkTest
      /\ incoming \in [Link!Queues -> Seq(Link!Packet)]
      /\ incoming' = IF p.queue = "sink" THEN incoming
                     ELSE [incoming EXCEPT ![p.queue] = Append(@, p)]
      /\ "echo" \in Link!Queues
  BY <1>1, LinkTypesNow DEF Link!Answer, Link!Queues
<1>3. p \in Link!Packet
  BY <1>1, <1>2, QueueFacts
<1>4. \A r \in Link!Queues : incoming'[r] = IF p.queue = r THEN Append(incoming[r], p) ELSE incoming[r]
  BY <1>2, <1>3 DEF Link!Packet, Link!Queues
<1>5. LinkGuards' /\ LinkCalls'
  BY <1>2 DEF LinkRest, LinkGuards, LinkCalls
<1>6. LinkFlights'
  <2> SUFFICES ASSUME ~abandoned PROVE LinkFlights'
    BY <1>2 DEF LinkFlights
  <2>1. ASSUME NEW r \in Link!Queues, guard[r] = NoOne
        PROVE  Quiet(r, outgoing', incoming'[r])
    <3>1. Quiet(r, outgoing, incoming[r]) /\ incoming[r] \in Seq(Link!Packet)
      BY <1>2, <2>1 DEF LinkRest, LinkFlights
    <3>2. p.queue # r
      BY <1>1, <1>2, <3>1, FlightAnswered
    <3> QED BY <1>1, <1>2, <1>4, <3>1, <3>2, FlightAnswered
  <2>2. ASSUME NEW r \in Link!Queues, NEW s \in Clients, guard[r] = s
        PROVE  Flight(r, test[s], outgoing', incoming'[r])
    <3>1. Flight(r, test[s], outgoing, incoming[r]) /\ incoming[r] \in Seq(Link!Packet)
      BY <1>2, <2>2 DEF LinkRest, LinkFlights
    <3>2. CASE p.queue = r
      <4>1. \A x \in LinkTest : Flight(r, x, outgoing, incoming[r])
                => Flight(r, x, Tail(outgoing), Append(incoming[r], p))
        BY <1>1, <1>2, <3>1, <3>2, FlightAnswered
      <4> QED BY <1>2, <1>4, <3>1, <3>2, <4>1
    <3>3. CASE p.queue # r
      BY <1>1, <1>2, <1>4, <3>1, <3>3, FlightAnswered
    <3> QED BY <3>2, <3>3
  <2> QED BY <1>2, <2>1, <2>2 DEF LinkRest, LinkFlights
<1>7. LinkSinks'
  <2> SUFFICES ASSUME ~abandoned, NEW s \in Clients
               PROVE  SinkLast(test[s], outgoing', incoming'["echo"])
    BY <1>2 DEF LinkSinks
  <2>1. SinkLast(test[s], outgoing, incoming["echo"])
    BY DEF LinkRest, LinkSinks
  <2>2. CASE p.queue = "echo"
    BY <1>1, <1>2, <2>1, <2>2, SinkAnswered
  <2>3. CASE p.queue # "echo"
    BY <1>1, <1>2, <1>4, <2>1, <2>3, SinkAnswered
  <2> QED BY <2>2, <2>3
<1> QED BY <1>5, <1>6, <1>7 DEF LinkRest

LEMMA LinkLoseKeeps ==
    ASSUME Link!ConstantsOK, LinkTypes, LinkRest, Link!Lose
    PROVE  LinkRest'
<1>1. /\ outgoing' = <<>> /\ UNCHANGED <<test, guard, incoming, foreign, abandoned, tests>>
      /\ outgoing \in Seq(Link!Packet) /\ \A s \in Clients : test[s] \in LinkTest
      /\ \A r \in Link!Queues : incoming[r] \in Seq(Link!Packet)
  BY LinkTypesNow DEF Link!Lose
<1>2. LinkGuards' /\ LinkCalls' /\ LinkSinks'
  BY <1>1, SinkLost DEF LinkRest, LinkGuards, LinkCalls, LinkSinks
<1>3. LinkFlights'
  <2>1. ~abandoned => \A r \in Link!Queues : guard[r] = NoOne => Quiet(r, <<>>, incoming[r])
    BY <1>1, FlightLost DEF LinkRest, LinkFlights
  <2>2. ~abandoned => \A r \in Link!Queues, s \in Clients :
            guard[r] = s => Flight(r, test[s], <<>>, incoming[r])
    BY <1>1, FlightLost DEF LinkRest, LinkFlights
  <2> QED BY <1>1, <2>1, <2>2 DEF LinkRest, LinkFlights
<1> QED BY <1>2, <1>3 DEF LinkRest

LEMMA LinkRestNext ==
    ASSUME Link!ConstantsOK, LinkTypes, LinkRest, [Link!Next]_Link!vars
    PROVE  LinkRest'
<1>1. ASSUME NEW t \in Clients, Link!Timeout(t) \/ Link!Closed(t) PROVE LinkRest'
  BY <1>1, LinkEndKeeps DEF Link!Timeout, Link!Closed, Link!GiveUp, Link!Outcomes
<1>2. ASSUME NEW t \in Clients, Link!Drop(t) PROVE LinkRest'
  BY <1>2, LinkEndKeeps DEF Link!Drop, Link!Outcomes
<1>3. CASE UNCHANGED Link!vars
  BY <1>3 DEF Link!vars, LinkRest, LinkGuards, LinkCalls, LinkFlights, LinkSinks
<1> QED BY <1>1, <1>2, <1>3, LinkStartKeeps, LinkLockKeeps, LinkSinkKeeps, LinkSendKeeps,
           LinkReceiveKeeps, LinkAnswerKeeps, LinkLoseKeeps
        DEF Link!Next, Link!Step

\* Tests of several tasks at the same time do not spoil each other, for any
\* number of tasks, tests and packets: until a call is given up with an answer
\* to come, each takes its own answers, and an uplink test that succeeds has
\* had its packets taken (TestsApart; link_service.rs:95, link_service.rs:142).
THEOREM TestsAreApart == Link!ConstantsOK => (Link!Spec => []TestsApart)
<1> SUFFICES ASSUME Link!ConstantsOK PROVE Link!Spec => []TestsApart
  OBVIOUS
<1>1. Link!Init => LinkTypes /\ LinkRest
  BY LinkInitTypes, LinkRestInit
<1>2. LinkTypes /\ LinkRest /\ [Link!Next]_Link!vars => LinkTypes' /\ LinkRest'
  BY LinkNextTypes, LinkRestNext
<1>3. LinkTypes /\ LinkRest => TestsApart
  <2> SUFFICES ASSUME LinkTypes, LinkRest PROVE Link!TestsApart
    BY DEF TestsApart
  <2>1. DOMAIN outgoing = 1..Len(outgoing)
    BY LinkTypesNow, LenProperties
  <2>2. Link!OwnEchoes
    BY DEF LinkRest, LinkFlights, Link!OwnEchoes
  <2>3. Link!SinksDelivered
    BY <2>1 DEF LinkRest, LinkSinks, SinkLast, Gone, Link!SinksDelivered
  <2> QED BY <2>2, <2>3 DEF Link!TestsApart
<1> QED BY <1>1, <1>2, <1>3, PTL DEF Link!Spec

-----------------------------------------------------------------------------
(* Localization: the types *)

\* A call of persist_lighthouse_data, its request, and a packet on the port.
LocaCall == [stage : {"idle", "send", "wait"}, call : Nat,
             list : Stations \union {CHOOSE l \in Stations : TRUE},
             outcome : {"none", "true", "false", "protocol", "timeout", "disconnected"}]
LocaRequest == [call : Nat, mask : SUBSET (0..15)]
LocaPacket == [type : {"angle"}, n : Nat] \union [type : {"skipped"}]
                 \union [type : {"persist"}, n : Nat, ok : BOOLEAN]
LocaReader == [open : BOOLEAN, next : Nat, got : Seq(Nat)]

LocaCallTypes ==
    /\ persist \in [Clients -> LocaCall] /\ persists \in Nat
    /\ requested \in Seq(LocaRequest) /\ told \in Seq([call : Nat, ok : BOOLEAN])
    /\ live \in BOOLEAN /\ ended \in BOOLEAN
LocaAngleTypes ==
    /\ inbox \in Seq(LocaPacket) /\ angles \in Seq(Nat) /\ angleSent \in Seq(Nat)
    /\ unasked \in Nat /\ angleReader \in LocaReader

-----------------------------------------------------------------------------
(* Localization: the calls *)

\* After the task has ended, or the link, there is nothing to come.
LocaEnds == (ended => ~live /\ inbox = <<>>) /\ (~live => requested = <<>>)

\* A call has a number of its own, which its request has too.
LocaNumbers ==
    /\ \A t \in Clients : persist[t].call <= persists
    /\ \A s, t \in Clients : s # t /\ persist[s].call = persist[t].call => persist[s].call = 0
    /\ \A i \in 1..Len(requested) : requested[i].call # 0 /\ requested[i].call <= persists

\* A call that goes on has a list it may send.
LocaLists ==
    \A t \in Clients : persist[t].stage # "idle" =>
        /\ persist[t].call # 0 /\ persist[t].outcome = "none"
        /\ persist[t].list \in Seq(Nat) /\ Loca!Valid(persist[t].list)

\* MaskRight and NoFalseDisconnect.
LocaMasks ==
    \A i \in 1..Len(requested), t \in Clients :
        requested[i].call = persist[t].call => requested[i].mask = Loca!Range(persist[t].list)
LocaLost ==
    \A t \in Clients : persist[t].outcome = "disconnected" /\ live => Len(told) > PersistCapacity

LocaCalls == LocaCallTypes /\ LocaEnds /\ LocaNumbers /\ LocaLists /\ LocaMasks /\ LocaLost

\* No station of a list that is sent wraps around to another one.
LEMMA LocaMask ==
    ASSUME NEW l \in Seq(Nat), Loca!Valid(l)
    PROVE  Loca!Mask(l) = Loca!Range(l) /\ Loca!Mask(l) \in SUBSET (0..15)
<1>1. \A i \in DOMAIN l : l[i] \in Nat /\ l[i] <= 15
  BY DEF Loca!Valid, Loca!MaxStation
<1>2. \A n \in 0..15 : n % 16 = n
  OBVIOUS
<1>3. ASSUME NEW i \in DOMAIN l PROVE l[i] \in 0..15
  <2>1. PICK n \in Nat : n = l[i]
    BY <1>1
  <2>2. n <= 15
    BY <1>1, <2>1
  <2>3. n \in 0..15
    BY <2>2
  <2> QED BY <2>1, <2>3
<1>4. \A i \in DOMAIN l : l[i] % 16 = l[i] /\ l[i] \in 0..15
  BY <1>2, <1>3
<1> QED BY <1>4 DEF Loca!Mask, Loca!Range

LEMMA LocaCallsInit == ASSUME Loca!ConstantsOK, Loca!Init PROVE LocaCalls
<1>1. LocaCallTypes
  BY EmptyFacts DEF Loca!Init, LocaCallTypes, LocaCall
<1>2. LocaEnds /\ LocaNumbers
  BY EmptyFacts DEF Loca!Init, LocaEnds, LocaNumbers
<1> QED BY <1>1, <1>2, EmptyFacts DEF Loca!Init, LocaCalls, LocaLists, LocaMasks, LocaLost

\* One call changes, and keeps its number.
LEMMA LocaCallMoves ==
    ASSUME LocaCalls, NEW t \in Clients, NEW x \in LocaCall, persist' = [persist EXCEPT ![t] = x],
           UNCHANGED <<persists, live, ended, told, inbox>>,
           x.call = persist[t].call, x.list = persist[t].list,
           persist[t].stage # "idle", x.stage # "idle" => x.outcome = "none",
           x.outcome = "disconnected" /\ live => Len(told) > PersistCapacity,
           requested' \in Seq(LocaRequest), ~live => requested' = requested,
           \A i \in 1..Len(requested') :
               (i \in 1..Len(requested) /\ requested'[i] = requested[i])
               \/ (requested'[i].call = x.call /\ requested'[i].mask = Loca!Range(x.list))
    PROVE  LocaCalls'
<1>1. /\ persist \in [Clients -> LocaCall] /\ persist' \in [Clients -> LocaCall]
      /\ persist'[t] = x /\ \A s \in Clients \ {t} : persist'[s] = persist[s]
  BY DEF LocaCalls, LocaCallTypes
<1>2. /\ x.call # 0 /\ x.list \in Seq(Nat) /\ Loca!Valid(x.list)
  BY DEF LocaCalls, LocaLists
<1>3. LocaCallTypes'
  BY <1>1 DEF LocaCalls, LocaCallTypes
<1>4. LocaEnds'
  BY DEF LocaCalls, LocaEnds, LocaCallTypes
<1>5. \A s \in Clients : persist'[s].call = persist[s].call /\ persist'[s].list = persist[s].list
  BY <1>1
<1>6. LocaNumbers'
  <2>1. \A i \in 1..Len(requested') : requested'[i].call # 0 /\ requested'[i].call <= persists
    BY <1>2 DEF LocaCalls, LocaNumbers
  <2>2. /\ \A s \in Clients : persist'[s].call <= persists
        /\ \A s, r \in Clients : s # r /\ persist'[s].call = persist'[r].call => persist'[s].call = 0
    BY <1>5 DEF LocaCalls, LocaNumbers
  <2> QED BY <2>1, <2>2 DEF LocaNumbers
<1>7. LocaLists'
  BY <1>1, <1>2 DEF LocaCalls, LocaLists
<1>8. LocaMasks'
  <2> SUFFICES ASSUME NEW i \in 1..Len(requested'), NEW s \in Clients,
                      requested'[i].call = persist'[s].call
               PROVE  requested'[i].mask = Loca!Range(persist'[s].list)
    BY DEF LocaMasks
  <2>1. CASE i \in 1..Len(requested) /\ requested'[i] = requested[i]
    BY <1>5, <2>1 DEF LocaCalls, LocaMasks
  <2>2. CASE requested'[i].call = x.call /\ requested'[i].mask = Loca!Range(x.list)
    <3>1. s = t
      BY <1>2, <1>5, <2>2 DEF LocaCalls, LocaNumbers
    <3> QED BY <1>1, <2>2, <3>1
  <2> QED BY <2>1, <2>2
<1>9. LocaLost'
  BY <1>1 DEF LocaCalls, LocaLost
<1> QED BY <1>3, <1>4, <1>6, <1>7, <1>8, <1>9 DEF LocaCalls

LEMMA LocaPersist ==
    ASSUME Loca!ConstantsOK, LocaCalls, NEW t \in Clients, NEW l \in Stations, Loca!Persist(t, l)
    PROVE  LocaCalls'
<1>1. PICK ok \in BOOLEAN : ok = Loca!Valid(l)
  BY DEF Loca!Valid
<1>2. PICK x : x = [stage |-> IF ok THEN "send" ELSE "idle", call |-> persists + 1, list |-> l,
                    outcome |-> IF ok THEN "none" ELSE "protocol"]
  OBVIOUS
<1>3. /\ persist \in [Clients -> LocaCall] /\ persists \in Nat /\ l \in Seq(Nat)
  BY DEF LocaCalls, LocaCallTypes, Loca!ConstantsOK
<1>4. x \in LocaCall
  BY <1>2, <1>3 DEF LocaCall
<1>5. persist' = [persist EXCEPT ![t] = x]
  BY <1>1, <1>2 DEF Loca!Persist
<1>6. /\ persist' \in [Clients -> LocaCall] /\ persist'[t] = x
      /\ \A s \in Clients \ {t} : persist'[s] = persist[s]
  BY <1>3, <1>4, <1>5
<1>7. persists' = persists + 1 /\ UNCHANGED <<requested, told, live, ended, inbox>>
  BY DEF Loca!Persist, Loca!taskVars
<1>8. LocaCallTypes' /\ LocaEnds'
  BY <1>3, <1>6, <1>7 DEF LocaCalls, LocaCallTypes, LocaEnds
<1>9. /\ \A s \in Clients : persist[s].call \in Nat /\ persist[s].call <= persists
      /\ \A i \in 1..Len(requested) : requested[i].call \in Nat /\ requested[i].call <= persists
  <2>1. \A i \in 1..Len(requested) : requested[i] \in LocaRequest
    BY QueueFacts DEF LocaCalls, LocaCallTypes
  <2> QED BY <1>3, <2>1 DEF LocaCalls, LocaNumbers, LocaCall, LocaRequest
<1>10. x.call = persists + 1 /\ x.list = l /\ x.outcome # "disconnected"
       /\ (x.stage # "idle" => ok /\ x.outcome = "none")
  BY <1>2
<1>11. LocaNumbers'
  <2>1. \A s \in Clients : persist'[s].call <= persists + 1
    BY <1>3, <1>6, <1>9, <1>10
  <2>2. \A i \in 1..Len(requested) : requested[i].call # 0 /\ requested[i].call <= persists + 1
    BY <1>3, <1>9 DEF LocaCalls, LocaNumbers
  <2>3. \A s, r \in Clients : s # r /\ persist'[s].call = persist'[r].call => persist'[s].call = 0
    <3>1. \A s \in Clients \ {t} : persist'[s].call # persist'[t].call
      BY <1>3, <1>6, <1>9, <1>10
    <3> QED BY <1>6, <3>1 DEF LocaCalls, LocaNumbers
  <2> QED BY <1>7, <2>1, <2>2, <2>3 DEF LocaNumbers
<1>12. LocaLists'
  BY <1>1, <1>3, <1>6, <1>10 DEF LocaCalls, LocaLists
<1>13. LocaMasks'
  <2>1. \A i \in 1..Len(requested) : requested[i].call # persist'[t].call
    BY <1>3, <1>6, <1>9, <1>10
  <2> QED BY <1>6, <1>7, <2>1 DEF LocaCalls, LocaMasks
<1>14. LocaLost'
  BY <1>6, <1>7, <1>10 DEF LocaCalls, LocaLost
<1> QED BY <1>8, <1>11, <1>12, <1>13, <1>14 DEF LocaCalls

LEMMA LocaSend ==
    ASSUME Loca!ConstantsOK, LocaCalls, NEW t \in Clients, Loca!SendPersist(t)
    PROVE  LocaCalls'
<1>1. PICK u \in LocaCall : u = persist[t]
  BY DEF LocaCalls, LocaCallTypes
<1>2. u.stage = "send" /\ UNCHANGED <<persists, live, ended, told, inbox>>
      /\ u.list \in Seq(Nat) /\ Loca!Valid(u.list) /\ u.outcome = "none"
  BY <1>1 DEF Loca!SendPersist, Loca!taskVars, LocaCalls, LocaLists
<1>3. requested \in Seq(LocaRequest) /\ \A i \in 1..Len(requested) : requested[i] \in LocaRequest
  BY QueueFacts DEF LocaCalls, LocaCallTypes
<1>4. CASE /\ persist' = [persist EXCEPT ![t].stage = "wait"]
           /\ requested' = IF ~live THEN requested
                           ELSE Append(requested, [call |-> persist[t].call,
                                                   mask |-> Loca!Mask(persist[t].list)])
  <2>1. PICK x : x = [u EXCEPT !.stage = "wait"]
    OBVIOUS
  <2>2. /\ x \in LocaCall /\ persist' = [persist EXCEPT ![t] = x] /\ x.call = u.call
        /\ x.list = u.list /\ x.outcome = "none"
    BY <1>1, <1>2, <1>4, <2>1 DEF LocaCall
  <2>3. PICK p : p = [call |-> u.call, mask |-> Loca!Mask(u.list)]
    OBVIOUS
  <2>4. p \in LocaRequest /\ p.call = x.call /\ p.mask = Loca!Range(x.list)
    BY <1>2, <2>2, <2>3, LocaMask DEF LocaRequest, LocaCall
  <2>5. requested' = IF ~live THEN requested ELSE Append(requested, p)
    BY <1>1, <1>4, <2>3
  <2>6. /\ requested' \in Seq(LocaRequest) /\ (~live => requested' = requested)
        /\ \A i \in 1..Len(requested') :
              (i \in 1..Len(requested) /\ requested'[i] = requested[i])
              \/ (requested'[i].call = x.call /\ requested'[i].mask = Loca!Range(x.list))
    <3>1. CASE ~live
      BY <1>3, <2>5, <3>1
    <3>2. CASE live
      <4>1. requested' = Append(requested, p)
        BY <2>5, <3>2
      <4> QED BY <1>3, <2>4, <3>2, <4>1, AppendFacts
    <3> QED BY <3>1, <3>2
  <2> QED BY <1>1, <1>2, <2>2, <2>6, LocaCallMoves
<1>5. CASE ~live /\ Loca!Return(t, "disconnected") /\ UNCHANGED requested
  <2>1. PICK x : x = [u EXCEPT !.stage = "idle", !.outcome = "disconnected"]
    OBVIOUS
  <2>2. /\ x \in LocaCall /\ persist' = [persist EXCEPT ![t] = x] /\ x.call = u.call
        /\ x.list = u.list /\ x.stage = "idle"
    BY <1>1, <1>5, <2>1 DEF LocaCall, Loca!Return
  <2> QED BY <1>1, <1>2, <1>3, <1>5, <2>2, LocaCallMoves
<1> QED BY <1>4, <1>5 DEF Loca!SendPersist

\* "Disconnected" is the word of a channel that has overflowed, or is closed.
LEMMA LocaReturns ==
    ASSUME Loca!ConstantsOK, LocaCalls, NEW t \in Clients, Loca!Confirmed(t) \/ Loca!Timeout(t)
    PROVE  LocaCalls'
<1>1. PICK u \in LocaCall : u = persist[t]
  BY DEF LocaCalls, LocaCallTypes
<1>2. u.stage = "wait" /\ UNCHANGED <<persists, live, ended, told, inbox, requested>>
  BY <1>1 DEF Loca!Confirmed, Loca!Timeout, Loca!taskVars
<1>3. PICK o \in {"true", "false", "timeout", "disconnected"} :
          Loca!Return(t, o) /\ (o = "disconnected" => Len(told) > PersistCapacity \/ ended)
  <2>1. Loca!Overflowed(told, PersistCapacity, Loca!Start) => Len(told) > PersistCapacity
    BY DEF Loca!Overflowed, Loca!Dropped, Loca!Start, Loca!ConstantsOK
  <2>2. CASE Loca!Timeout(t)
    BY <2>2 DEF Loca!Timeout, Loca!TimeoutError
  <2>3. CASE Loca!Confirmed(t)
    BY <2>1, <2>3 DEF Loca!Confirmed
  <2> QED BY <2>2, <2>3
<1>4. PICK x : x = [u EXCEPT !.stage = "idle", !.outcome = o]
  OBVIOUS
<1>5. /\ x \in LocaCall /\ persist' = [persist EXCEPT ![t] = x] /\ x.call = u.call
      /\ x.list = u.list /\ x.stage = "idle" /\ x.outcome = o
  BY <1>1, <1>3, <1>4 DEF LocaCall, Loca!Return
<1>6. requested \in Seq(LocaRequest) /\ (ended => ~live)
  BY DEF LocaCalls, LocaCallTypes, LocaEnds
<1> QED BY <1>1, <1>2, <1>3, <1>5, <1>6, LocaCallMoves

\* The calls go on, whatever the task, the link and the Crazyflie do.
LEMMA LocaRest ==
    ASSUME Loca!ConstantsOK, LocaCalls, UNCHANGED <<persist, persists>>,
           requested' \in Seq(LocaRequest),
           \A i \in 1..Len(requested') :
               \E k \in 1..Len(requested) : requested'[i] = requested[k],
           told' \in Seq([call : Nat, ok : BOOLEAN]), Len(told') >= Len(told),
           live' \in BOOLEAN, ended' \in BOOLEAN, live' => live, LocaEnds'
    PROVE  LocaCalls'
<1>1. LocaCallTypes'
  BY DEF LocaCalls, LocaCallTypes
<1>2. LocaNumbers'
  BY DEF LocaCalls, LocaNumbers
<1>3. LocaLists'
  BY DEF LocaCalls, LocaLists
<1>4. LocaMasks'
  BY DEF LocaCalls, LocaMasks
<1>5. LocaLost'
  <2>1. Len(told) \in Nat /\ Len(told') \in Nat
    BY LenProperties DEF LocaCalls, LocaCallTypes
  <2>2. \A t \in Clients : persist[t].outcome = "disconnected" /\ live' => Len(told) > PersistCapacity
    BY DEF LocaCalls, LocaLost
  <2>3. Len(told) > PersistCapacity => Len(told') > PersistCapacity
    BY <2>1 DEF Loca!ConstantsOK
  <2> QED BY <2>2, <2>3 DEF LocaLost
<1> QED BY <1>1, <1>2, <1>3, <1>4, <1>5 DEF LocaCalls

-----------------------------------------------------------------------------
(* Localization: the angles *)

Rising(s) == \A i, j \in 1..Len(s) : i < j => s[i] < s[j]

\* A packet with angles, and which angles they are.
IsAngle(x) == x.type = "angle"
Number(x) == x.n

\* The angles that were broadcast are the first of those that came in.
AnglesSent(ang, gone, n) ==
    /\ Len(ang) <= Len(gone) /\ Rising(gone)
    /\ \A i \in 1..Len(gone) : gone[i] <= n
    /\ \A i \in 1..Len(ang) : ang[i] = gone[i]

\* The others are in the queue q of the task, in order.
AnglesComing(q, a, gone) ==
    /\ \A j, k \in 1..Len(q) :
          j < k /\ IsAngle(q[j]) /\ IsAngle(q[k]) => Number(q[j]) < Number(q[k])
    /\ \A k \in 1..Len(q) : IsAngle(q[k]) => \E i \in (a + 1)..Len(gone) : Number(q[k]) = gone[i]
    /\ \A i \in (a + 1)..Len(gone) :
          \E k \in 1..Len(q) : IsAngle(q[k]) /\ Number(q[k]) = gone[i]

\* A stream has given what it has passed and was not dropped, and nothing else.
AnglesGot(r, ang) ==
    /\ r.next <= Len(ang) /\ Rising(r.got)
    /\ \A k \in 1..Len(r.got) : \E i \in 1..r.next : r.got[k] = ang[i]
    /\ \A i \in 1..r.next : \/ i <= Len(ang) - AngleCapacity
                            \/ \E k \in 1..Len(r.got) : r.got[k] = ang[i]

LocaAngles ==
    /\ LocaAngleTypes /\ AnglesSent(angles, angleSent, unasked)
    /\ AnglesComing(inbox, Len(angles), angleSent) /\ AnglesGot(angleReader, angles)

LEMMA LocaAnglesInit == ASSUME Loca!ConstantsOK, Loca!Init PROVE LocaAngles
  BY EmptyFacts DEF Loca!Init, LocaAngles, LocaAngleTypes, LocaReader, AnglesSent, AnglesComing,
     AnglesGot, Rising

\* A packet in the queue.
LEMMA LocaPackets ==
    ASSUME NEW q \in Seq(LocaPacket)
    PROVE  /\ Len(q) \in Nat
           /\ \A k \in 1..Len(q) : q[k] \in LocaPacket /\ (IsAngle(q[k]) => Number(q[k]) \in Nat)
<1>1. Len(q) \in Nat /\ \A k \in 1..Len(q) : q[k] \in LocaPacket
  BY QueueFacts
<1>2. \A x \in LocaPacket : IsAngle(x) => Number(x) \in Nat
  BY DEF LocaPacket, IsAngle, Number
<1> QED BY <1>1, <1>2

\* A packet that is no angles comes, or goes.
LEMMA LocaOtherComes ==
    ASSUME NEW q \in Seq(LocaPacket), NEW a \in Nat, NEW gone \in Seq(Nat), NEW x \in LocaPacket,
           ~IsAngle(x), AnglesComing(q, a, gone)
    PROVE  AnglesComing(Append(q, x), a, gone)
<1> DEFINE p == Append(q, x)
<1>1. /\ Len(p) = Len(q) + 1 /\ p[Len(q) + 1] = x /\ \A k \in 1..Len(q) : p[k] = q[k]
      /\ \A k \in 1..Len(p) : k \in 1..Len(q) \/ k = Len(q) + 1
  BY AppendFacts
<1>2. Len(q) \in Nat /\ Len(gone) \in Nat
  BY LenProperties
<1> HIDE DEF p
<1>3. \A k \in 1..Len(p) : IsAngle(p[k]) => k \in 1..Len(q) /\ p[k] = q[k]
  BY <1>1
<1>4. \A k \in 1..Len(q) : k \in 1..Len(p) /\ p[k] = q[k]
  BY <1>1, <1>2
<1> QED BY <1>3, <1>4 DEF p, AnglesComing

LEMMA LocaOtherGoes ==
    ASSUME NEW q \in Seq(LocaPacket), NEW a \in Nat, NEW gone \in Seq(Nat), q # <<>>,
           ~IsAngle(Head(q)), AnglesComing(q, a, gone)
    PROVE  AnglesComing(Tail(q), a, gone)
<1> DEFINE p == Tail(q)
<1>1. /\ Len(q) \in Nat \ {0} /\ Head(q) = q[1] /\ Len(p) = Len(q) - 1
      /\ \A k \in 1..Len(p) : p[k] = q[k + 1] /\ k + 1 \in 1..Len(q)
  BY QueueFacts
<1> HIDE DEF p
<1>2. \A k \in 1..Len(q) : IsAngle(q[k]) => k - 1 \in 1..Len(p) /\ p[k - 1] = q[k]
  <2> SUFFICES ASSUME NEW k \in 1..Len(q), IsAngle(q[k])
               PROVE  k - 1 \in 1..Len(p) /\ p[k - 1] = q[k]
    OBVIOUS
  <2>1. k # 1
    BY <1>1
  <2>2. k - 1 \in 1..Len(p) /\ (k - 1) + 1 = k
    BY <1>1, <2>1
  <2> QED BY <1>1, <2>2
<1>3. \A j, k \in 1..Len(p) : j < k /\ IsAngle(p[j]) /\ IsAngle(p[k]) => Number(p[j]) < Number(p[k])
  <2>1. \A j, k \in 1..Len(p) : j < k => j + 1 < k + 1
    BY <1>1
  <2> QED BY <1>1, <2>1 DEF AnglesComing
<1>4. ASSUME NEW k \in 1..Len(p), IsAngle(p[k])
      PROVE  \E i \in (a + 1)..Len(gone) : Number(p[k]) = gone[i]
  <2>1. k + 1 \in 1..Len(q) /\ p[k] = q[k + 1]
    BY <1>1
  <2> QED BY <1>4, <2>1 DEF AnglesComing
<1>5. \A i \in (a + 1)..Len(gone) : \E k \in 1..Len(p) : IsAngle(p[k]) /\ Number(p[k]) = gone[i]
  BY <1>2 DEF AnglesComing
<1> QED BY <1>3, <1>4, <1>5 DEF p, AnglesComing

\* Angles come: they are later than all that came before.
LEMMA LocaAngleComes ==
    ASSUME NEW q \in Seq(LocaPacket), NEW ang \in Seq(Nat), NEW gone \in Seq(Nat), NEW n \in Nat,
           NEW x \in LocaPacket, IsAngle(x), Number(x) = n + 1,
           AnglesSent(ang, gone, n), AnglesComing(q, Len(ang), gone)
    PROVE  /\ AnglesSent(ang, Append(gone, n + 1), n + 1)
           /\ AnglesComing(Append(q, x), Len(ang), Append(gone, n + 1))
<1> DEFINE p == Append(q, x)
           u == Append(gone, n + 1)
<1>1. /\ Len(p) = Len(q) + 1 /\ p[Len(q) + 1] = x /\ \A k \in 1..Len(q) : p[k] = q[k]
      /\ \A k \in 1..Len(p) : k \in 1..Len(q) \/ k = Len(q) + 1
  BY AppendFacts
<1>2. /\ Len(u) = Len(gone) + 1 /\ u[Len(gone) + 1] = n + 1 /\ \A k \in 1..Len(gone) : u[k] = gone[k]
      /\ \A k \in 1..Len(u) : k \in 1..Len(gone) \/ k = Len(gone) + 1
  BY AppendFacts, n + 1 \in Nat
<1> HIDE DEF p, u
<1>3. PICK a \in Nat, b \in Nat, c \in Nat : a = Len(ang) /\ b = Len(gone) /\ c = Len(q)
  BY LenProperties
<1>4. /\ a <= b /\ \A i \in 1..b : gone[i] \in Nat /\ gone[i] <= n
      /\ \A i \in 1..a : ang[i] = gone[i]
  BY <1>3, QueueFacts DEF AnglesSent
<1>5. AnglesSent(ang, u, n + 1)
  <2>1. \A i \in 1..(b + 1) : u[i] <= n + 1 /\ (i \in 1..b \/ i = b + 1)
    BY <1>2, <1>3, <1>4
  <2>2. \A i, j \in 1..(b + 1) : i < j => u[i] < u[j]
    <3> SUFFICES ASSUME NEW i \in 1..(b + 1), NEW j \in 1..(b + 1), i < j PROVE u[i] < u[j]
      OBVIOUS
    <3>1. i \in 1..b /\ (j \in 1..b \/ j = b + 1)
      BY <1>3
    <3>2. CASE j \in 1..b
      BY <1>2, <1>3, <3>1, <3>2 DEF AnglesSent, Rising
    <3>3. CASE j = b + 1
      BY <1>2, <1>3, <1>4, <3>1, <3>3
    <3> QED BY <3>1, <3>2, <3>3
  <2>3. \A i \in 1..a : ang[i] = u[i]
    BY <1>2, <1>3, <1>4
  <2> QED BY <1>2, <1>3, <1>4, <2>1, <2>2, <2>3 DEF AnglesSent, Rising
<1>6. \A k \in 1..c : IsAngle(q[k]) =>
          Number(q[k]) <= n /\ \E i \in (a + 1)..b : Number(q[k]) = gone[i]
  BY <1>3, <1>4 DEF AnglesComing
<1>7. \A k \in 1..(c + 1) : (k \in 1..c /\ p[k] = q[k]) \/ (k = c + 1 /\ p[k] = x)
  BY <1>1, <1>3
<1>8. \A j, k \in 1..(c + 1) : j < k /\ IsAngle(p[j]) /\ IsAngle(p[k]) => Number(p[j]) < Number(p[k])
  <2> SUFFICES ASSUME NEW j \in 1..(c + 1), NEW k \in 1..(c + 1), j < k,
                      IsAngle(p[j]), IsAngle(p[k])
               PROVE  Number(p[j]) < Number(p[k])
    OBVIOUS
  <2>1. j \in 1..c /\ p[j] = q[j]
    <3>1. j # c + 1
      OBVIOUS
    <3> QED BY <1>7, <3>1
  <2>2. CASE k \in 1..c /\ p[k] = q[k]
    BY <1>3, <2>1, <2>2 DEF AnglesComing
  <2>3. CASE k = c + 1 /\ p[k] = x
    <3>1. Number(q[j]) \in Nat /\ Number(q[j]) <= n
      BY <1>3, <1>6, <2>1, LocaPackets
    <3> QED BY <2>1, <2>3, <3>1
  <2> QED BY <1>7, <2>2, <2>3
<1>9. \A k \in 1..(c + 1) : IsAngle(p[k]) => \E i \in (a + 1)..(b + 1) : Number(p[k]) = u[i]
  <2> SUFFICES ASSUME NEW k \in 1..(c + 1), IsAngle(p[k])
               PROVE  \E i \in (a + 1)..(b + 1) : Number(p[k]) = u[i]
    OBVIOUS
  <2>1. CASE k \in 1..c /\ p[k] = q[k]
    <3>1. PICK i \in (a + 1)..b : Number(q[k]) = gone[i]
      BY <1>6, <2>1
    <3> QED BY <1>2, <1>3, <2>1, <3>1
  <2>2. CASE k = c + 1 /\ p[k] = x
    BY <1>2, <1>3, <1>4, <2>2
  <2> QED BY <1>7, <2>1, <2>2
<1>10. \A i \in (a + 1)..(b + 1) : \E k \in 1..(c + 1) : IsAngle(p[k]) /\ Number(p[k]) = u[i]
  <2> SUFFICES ASSUME NEW i \in (a + 1)..(b + 1)
               PROVE  \E k \in 1..(c + 1) : IsAngle(p[k]) /\ Number(p[k]) = u[i]
    OBVIOUS
  <2>1. CASE i \in (a + 1)..b
    <3>1. PICK k \in 1..c : IsAngle(q[k]) /\ Number(q[k]) = gone[i]
      BY <1>3, <2>1 DEF AnglesComing
    <3>2. k \in 1..(c + 1) /\ p[k] = q[k] /\ i \in 1..b
      BY <1>1, <1>3, <2>1
    <3>3. u[i] = gone[i]
      BY <1>2, <1>3, <3>2
    <3> QED BY <3>1, <3>2, <3>3
  <2>2. CASE i = b + 1
    <3>1. c + 1 \in 1..(c + 1) /\ p[c + 1] = x /\ u[b + 1] = n + 1
      BY <1>1, <1>2, <1>3
    <3> QED BY <2>2, <3>1
  <2> QED BY <2>1, <2>2
<1>11. Len(ang) = a /\ Len(u) = b + 1 /\ Len(p) = c + 1
  BY <1>1, <1>2, <1>3
<1>12. AnglesComing(p, a, u)
  BY <1>8, <1>9, <1>10, <1>11 DEF AnglesComing
<1> QED BY <1>5, <1>11, <1>12 DEF p, u

\* The task takes angles: they are the first of those that were still to come.
LEMMA LocaAngleGoes ==
    ASSUME NEW q \in Seq(LocaPacket), NEW ang \in Seq(Nat), NEW gone \in Seq(Nat), NEW n \in Nat,
           q # <<>>, IsAngle(Head(q)),
           AnglesSent(ang, gone, n), AnglesComing(q, Len(ang), gone)
    PROVE  /\ AnglesSent(Append(ang, Number(Head(q))), gone, n)
           /\ AnglesComing(Tail(q), Len(ang) + 1, gone)
<1>1. PICK a \in Nat, b \in Nat, c \in Nat, h \in Nat :
          a = Len(ang) /\ b = Len(gone) /\ c = Len(q) /\ h = Number(Head(q))
  <2>1. Head(q) = q[1] /\ 1 \in 1..Len(q)
    BY QueueFacts
  <2> QED BY <2>1, LenProperties, LocaPackets
<1> DEFINE p == Tail(q)
           e == Append(ang, h)
<1>2. /\ c # 0 /\ IsAngle(q[1]) /\ Number(q[1]) = h /\ Len(p) = c - 1
      /\ \A k \in 1..(c - 1) : p[k] = q[k + 1] /\ k + 1 \in 1..c /\ k + 1 # 1
  BY <1>1, QueueFacts
<1>3. Len(e) = a + 1 /\ e[a + 1] = h /\ \A k \in 1..a : e[k] = ang[k]
  BY <1>1, AppendFacts
<1> HIDE DEF p, e
<1>4. /\ a <= b /\ \A i \in 1..b : gone[i] \in Nat /\ gone[i] <= n
      /\ \A i, j \in 1..b : i < j => gone[i] < gone[j]
      /\ \A i \in 1..a : ang[i] = gone[i]
  BY <1>1, QueueFacts DEF AnglesSent, Rising
<1>5. /\ \A j, k \in 1..c : j < k /\ IsAngle(q[j]) /\ IsAngle(q[k]) => Number(q[j]) < Number(q[k])
      /\ \A k \in 1..c : IsAngle(q[k]) => \E i \in (a + 1)..b : Number(q[k]) = gone[i]
      /\ \A i \in (a + 1)..b : \E k \in 1..c : IsAngle(q[k]) /\ Number(q[k]) = gone[i]
  BY <1>1 DEF AnglesComing
<1>6. a + 1 \in 1..b /\ h = gone[a + 1]
  <2>1. PICK i \in (a + 1)..b : h = gone[i]
    <3>1. 1 \in 1..c
      BY <1>2
    <3>2. \E i \in (a + 1)..b : Number(q[1]) = gone[i]
      BY <1>2, <1>5, <3>1
    <3> QED BY <1>2, <3>2
  <2>2. a + 1 \in (a + 1)..b /\ i \in 1..b
    BY <2>1
  <2>3. PICK k \in 1..c : IsAngle(q[k]) /\ Number(q[k]) = gone[a + 1]
    BY <1>5, <2>2
  <2>4. k # 1 => h < gone[a + 1]
    <3>1. 1 \in 1..c /\ (k # 1 => 1 < k)
      BY <1>2
    <3>2. k # 1 => Number(q[1]) < Number(q[k])
      BY <1>2, <1>5, <2>3, <3>1
    <3> QED BY <1>2, <2>3, <3>2
  <2>5. i # a + 1 => gone[a + 1] < h
    BY <1>4, <2>1, <2>2
  <2>6. gone[a + 1] \in Nat
    BY <1>4, <2>2
  <2>7. a + 1 \in 1..b
    BY <2>2
  <2>8. CASE k = 1
    BY <1>2, <2>3, <2>7, <2>8
  <2>9. CASE k # 1
    <3>1. i = a + 1
      BY <2>4, <2>5, <2>6, <2>9
    <3> QED BY <2>1, <2>7, <3>1
  <2> QED BY <2>8, <2>9
<1>7. AnglesSent(e, gone, n)
  <2>1. \A i \in 1..(a + 1) : e[i] = gone[i]
    <3> SUFFICES ASSUME NEW i \in 1..(a + 1) PROVE e[i] = gone[i]
      OBVIOUS
    <3>1. i \in 1..a \/ i = a + 1
      OBVIOUS
    <3> QED BY <1>3, <1>4, <1>6, <3>1
  <2> QED BY <1>1, <1>3, <1>4, <1>6, <2>1 DEF AnglesSent, Rising
<1>8. \A k \in 1..(c - 1) : IsAngle(p[k]) => \E i \in (a + 1 + 1)..b : Number(p[k]) = gone[i]
  <2> SUFFICES ASSUME NEW k \in 1..(c - 1), IsAngle(p[k])
               PROVE  \E i \in (a + 1 + 1)..b : Number(p[k]) = gone[i]
    OBVIOUS
  <2>1. k + 1 \in 1..c /\ 1 < k + 1 /\ p[k] = q[k + 1] /\ 1 \in 1..c
    BY <1>2
  <2>2. h < Number(q[k + 1])
    BY <1>2, <1>5, <2>1
  <2>3. PICK i \in (a + 1)..b : Number(q[k + 1]) = gone[i]
    BY <1>5, <2>1
  <2>4. i # a + 1
    BY <1>6, <2>2, <2>3
  <2> QED BY <2>1, <2>3, <2>4
<1>9. \A i \in (a + 1 + 1)..b : \E k \in 1..(c - 1) : IsAngle(p[k]) /\ Number(p[k]) = gone[i]
  <2> SUFFICES ASSUME NEW i \in (a + 1 + 1)..b
               PROVE  \E k \in 1..(c - 1) : IsAngle(p[k]) /\ Number(p[k]) = gone[i]
    OBVIOUS
  <2>1. i \in (a + 1)..b /\ i \in 1..b /\ a + 1 < i
    OBVIOUS
  <2>2. PICK k \in 1..c : IsAngle(q[k]) /\ Number(q[k]) = gone[i]
    BY <1>5, <2>1
  <2>3. k # 1
    BY <1>2, <1>4, <1>6, <2>1, <2>2
  <2>4. k - 1 \in 1..(c - 1) /\ (k - 1) + 1 = k
    BY <2>3
  <2>5. p[k - 1] = q[k]
    BY <1>2, <2>4
  <2> QED BY <2>2, <2>4, <2>5
<1>10. \A j, k \in 1..(c - 1) : j < k /\ IsAngle(p[j]) /\ IsAngle(p[k]) => Number(p[j]) < Number(p[k])
  <2>1. \A j, k \in 1..(c - 1) : j < k => j + 1 < k + 1
    OBVIOUS
  <2> QED BY <1>2, <1>5, <2>1
<1>11. AnglesComing(p, a + 1, gone)
  BY <1>1, <1>2, <1>8, <1>9, <1>10 DEF AnglesComing
<1> QED BY <1>1, <1>7, <1>11 DEF p, e

\* A stream does not notice that more angles are broadcast, except that more of
\* those it has not got are dropped.
LEMMA LocaGotMore ==
    ASSUME Loca!ConstantsOK, NEW r \in LocaReader, NEW ang \in Seq(Nat), NEW h \in Nat,
           AnglesGot(r, ang)
    PROVE  AnglesGot(r, Append(ang, h))
<1> DEFINE e == Append(ang, h)
<1>1. Len(e) = Len(ang) + 1 /\ Len(ang) \in Nat /\ \A k \in 1..Len(ang) : e[k] = ang[k]
  BY AppendFacts, LenProperties
<1> HIDE DEF e
<1>2. r.next \in Nat /\ r.next <= Len(ang) /\ AngleCapacity \in Nat
  BY DEF AnglesGot, LocaReader, Loca!ConstantsOK
<1>3. \A i \in 1..r.next : e[i] = ang[i] /\ (i <= Len(ang) - AngleCapacity => i <= Len(e) - AngleCapacity)
  BY <1>1, <1>2
<1>4. r.next <= Len(e)
  BY <1>1, <1>2
<1> QED BY <1>3, <1>4 DEF e, AnglesGot

\* A stream goes on.
LEMMA LocaReads ==
    ASSUME Loca!ConstantsOK, LocaAngleTypes, AnglesGot(angleReader, angles), Loca!ReadAngle,
           Rising(angles)
    PROVE  angleReader' \in LocaReader /\ AnglesGot(angleReader', angles)
<1>1. PICK n \in Nat, g \in Seq(Nat), o \in BOOLEAN :
          /\ angleReader = [open |-> o, next |-> n, got |-> g]
          /\ angleReader.next = n /\ angleReader.got = g
  BY DEF LocaAngleTypes, LocaReader
<1>2. PICK l \in Nat, b \in Nat, c \in Nat : l = Len(angles) /\ b = Len(g) /\ c = AngleCapacity
  BY LenProperties DEF LocaAngleTypes, Loca!ConstantsOK
<1>3. /\ n <= l
      /\ \A i, j \in 1..b : i < j => g[i] < g[j]
      /\ \A k \in 1..b : \E i \in 1..n : g[k] = angles[i]
      /\ \A i \in 1..n : i <= l - c \/ \E k \in 1..b : g[k] = angles[i]
  BY <1>1, <1>2 DEF AnglesGot, Rising
<1>4. /\ \A i \in 1..l : angles[i] \in Nat
      /\ \A i, j \in 1..l : i < j => angles[i] < angles[j]
  BY <1>2, QueueFacts DEF LocaAngleTypes, Rising
<1>5. CASE /\ Loca!Ready(angles, AngleCapacity, n)
           /\ angleReader' = [angleReader EXCEPT !.next = n + 1,
                                                !.got = Append(@, Loca!Message(angles, n))]
  <2>1. n + 1 \in 1..l /\ n + 1 \in Nat
    BY <1>2, <1>5 DEF Loca!Ready
  <2>2. PICK h \in Nat : h = angles[n + 1]
    BY <1>4, <2>1
  <2>3. PICK e : e = Append(g, h)
    OBVIOUS
  <2>4. /\ e \in Seq(Nat) /\ Len(e) = b + 1 /\ e[b + 1] = h /\ \A k \in 1..b : e[k] = g[k]
        /\ \A k \in 1..(b + 1) : k \in 1..b \/ k = b + 1
    BY <1>2, <2>3, AppendFacts
  <2>5. angleReader' = [open |-> o, next |-> n + 1, got |-> e]
    BY <1>1, <1>5, <2>2, <2>3 DEF Loca!Message
  <2>6. angleReader' \in LocaReader /\ angleReader'.next = n + 1 /\ angleReader'.got = e
    BY <2>1, <2>4, <2>5 DEF LocaReader
  <2>7. \A k \in 1..b : g[k] < h
    <3> SUFFICES ASSUME NEW k \in 1..b PROVE g[k] < h
      OBVIOUS
    <3>1. PICK i \in 1..n : g[k] = angles[i]
      BY <1>3
    <3>2. i \in 1..l /\ i < n + 1
      BY <1>3
    <3> QED BY <1>4, <2>1, <2>2, <3>1, <3>2
  <2>8. \A i, j \in 1..(b + 1) : i < j => e[i] < e[j]
    <3> SUFFICES ASSUME NEW i \in 1..(b + 1), NEW j \in 1..(b + 1), i < j PROVE e[i] < e[j]
      OBVIOUS
    <3>1. i \in 1..b
      OBVIOUS
    <3>2. CASE j \in 1..b
      BY <1>3, <2>4, <3>1, <3>2
    <3>3. CASE j = b + 1
      BY <2>4, <2>7, <3>1, <3>3
    <3> QED BY <2>4, <3>2, <3>3
  <2>9. \A k \in 1..(b + 1) : \E i \in 1..(n + 1) : e[k] = angles[i]
    <3> SUFFICES ASSUME NEW k \in 1..(b + 1) PROVE \E i \in 1..(n + 1) : e[k] = angles[i]
      OBVIOUS
    <3>1. CASE k \in 1..b
      <4>1. PICK i \in 1..n : g[k] = angles[i]
        BY <1>3, <3>1
      <4>2. i \in 1..(n + 1)
        OBVIOUS
      <4> QED BY <2>4, <3>1, <4>1, <4>2
    <3>2. CASE k = b + 1
      <4>1. n + 1 \in 1..(n + 1)
        OBVIOUS
      <4> QED BY <2>2, <2>4, <3>2, <4>1
    <3> QED BY <2>4, <3>1, <3>2
  <2>10. \A i \in 1..(n + 1) : i <= l - c \/ \E k \in 1..(b + 1) : e[k] = angles[i]
    <3> SUFFICES ASSUME NEW i \in 1..(n + 1)
                 PROVE  i <= l - c \/ \E k \in 1..(b + 1) : e[k] = angles[i]
      OBVIOUS
    <3>1. CASE i \in 1..n
      <4>1. CASE i <= l - c
        BY <4>1
      <4>2. CASE \E k \in 1..b : g[k] = angles[i]
        <5>1. PICK k \in 1..b : g[k] = angles[i]
          BY <4>2
        <5>2. k \in 1..(b + 1)
          OBVIOUS
        <5> QED BY <2>4, <5>1, <5>2
      <4> QED BY <1>3, <3>1, <4>1, <4>2
    <3>2. CASE i = n + 1
      <4>1. b + 1 \in 1..(b + 1)
        OBVIOUS
      <4> QED BY <2>2, <2>4, <3>2, <4>1
    <3>3. i \in 1..n \/ i = n + 1
      OBVIOUS
    <3> QED BY <3>1, <3>2, <3>3
  <2>11. n + 1 <= l
    BY <2>1
  <2>12. PICK r \in LocaReader : r = angleReader' /\ r.next = n + 1 /\ r.got = e
    BY <2>6
  <2>13. Rising(e) /\ Len(e) = b + 1
    BY <2>4, <2>8 DEF Rising
  <2>14. AnglesGot(r, angles)
    BY <1>2, <2>9, <2>10, <2>11, <2>12, <2>13 DEF AnglesGot
  <2> QED BY <2>12, <2>14
<1>6. CASE /\ Loca!Overflowed(angles, AngleCapacity, n)
           /\ angleReader' = [angleReader EXCEPT !.next = Loca!Dropped(angles, AngleCapacity)]
  <2>1. PICK m \in Nat : m = Loca!Dropped(angles, AngleCapacity) /\ n < m /\ m = l - c /\ m <= l
    BY <1>2, <1>6 DEF Loca!Overflowed, Loca!Dropped
  <2>2. angleReader' = [open |-> o, next |-> m, got |-> g]
    BY <1>1, <1>6, <2>1
  <2>3. angleReader' \in LocaReader /\ angleReader'.next = m /\ angleReader'.got = g
    BY <2>2 DEF LocaReader
  <2>4. \A i \in 1..m : i <= l - c
    BY <2>1
  <2>5. \A i \in 1..n : i \in 1..m
    BY <2>1
  <2>6. \A k \in 1..b : \E i \in 1..m : g[k] = angles[i]
    BY <1>3, <2>5
  <2> QED BY <1>2, <1>3, <2>1, <2>3, <2>4, <2>6 DEF AnglesGot, Rising
<1> QED BY <1>1, <1>5, <1>6 DEF Loca!ReadAngle

-----------------------------------------------------------------------------
(* Localization: every step *)

LocaInv == LocaCalls /\ LocaAngles

\* What the actions that have nothing to do with angles leave alone.
LEMMA LocaAnglesSame ==
    ASSUME LocaAngles, UNCHANGED <<inbox, angles, angleReader, angleSent, unasked>>
    PROVE  LocaAngles'
  BY DEF LocaAngles, LocaAngleTypes

LEMMA LocaDispatch ==
    ASSUME Loca!ConstantsOK, LocaInv, Loca!Dispatch
    PROVE  LocaInv'
<1>1. PICK pk \in LocaPacket : /\ pk = Head(inbox) /\ inbox # <<>> /\ inbox \in Seq(LocaPacket)
                               /\ inbox' = Tail(inbox) /\ inbox' \in Seq(LocaPacket)
  BY QueueFacts DEF Loca!Dispatch, LocaInv, LocaAngles, LocaAngleTypes
<1>2. /\ angles' = IF pk.type = "angle" THEN Append(angles, pk.n) ELSE angles
      /\ told' = IF pk.type = "persist" THEN Append(told, [call |-> pk.n, ok |-> pk.ok]) ELSE told
      /\ ended' = FALSE /\ ~ended
      /\ UNCHANGED <<persist, persists, requested, angleReader, live, angleSent, unasked>>
  BY <1>1 DEF Loca!Dispatch, Loca!EndsTask, Loca!callVars
<1>3. LocaCalls'
  <2>1. requested \in Seq(LocaRequest) /\ live \in BOOLEAN /\ LocaEnds
        /\ told \in Seq([call : Nat, ok : BOOLEAN])
    BY DEF LocaInv, LocaCalls, LocaCallTypes
  <2>2. told' \in Seq([call : Nat, ok : BOOLEAN]) /\ Len(told') >= Len(told)
    <3>1. CASE pk.type = "persist"
      <4>1. PICK x \in [call : Nat, ok : BOOLEAN] : x = [call |-> pk.n, ok |-> pk.ok]
        BY <1>1, <3>1 DEF LocaPacket
      <4>2. told' = Append(told, x)
        BY <1>2, <3>1, <4>1
      <4>3. told' \in Seq([call : Nat, ok : BOOLEAN]) /\ Len(told') = Len(told) + 1
            /\ Len(told) \in Nat
        BY <2>1, <4>2, AppendFacts, LenProperties
      <4> QED BY <4>3
    <3>2. CASE pk.type # "persist"
      <4>1. told' = told /\ Len(told) \in Nat
        BY <1>2, <2>1, <3>2, LenProperties
      <4> QED BY <2>1, <4>1
    <3> QED BY <3>1, <3>2
  <2>3. LocaEnds'
    BY <1>2, <2>1 DEF LocaEnds
  <2>4. \A i \in 1..Len(requested') : \E k \in 1..Len(requested) : requested'[i] = requested[k]
    BY <1>2
  <2> QED BY <1>2, <2>1, <2>2, <2>3, <2>4, LocaRest DEF LocaInv
<1>4. LocaAngles'
  <2>1. /\ angles \in Seq(Nat) /\ angleSent \in Seq(Nat) /\ unasked \in Nat
        /\ angleReader \in LocaReader /\ Len(angles) \in Nat
        /\ AnglesSent(angles, angleSent, unasked)
        /\ AnglesComing(inbox, Len(angles), angleSent) /\ AnglesGot(angleReader, angles)
    BY LenProperties DEF LocaInv, LocaAngles, LocaAngleTypes
  <2>2. CASE IsAngle(pk)
    <3>1. PICK h \in Nat : h = Number(pk)
      BY <1>1, <2>2 DEF LocaPacket, IsAngle, Number
    <3>2. angles' = Append(angles, h)
      BY <1>2, <2>2, <3>1 DEF IsAngle, Number
    <3>3. AnglesSent(angles', angleSent, unasked)
          /\ AnglesComing(inbox', Len(angles) + 1, angleSent)
      BY <1>1, <2>1, <2>2, <3>1, <3>2, LocaAngleGoes
    <3>4. angles' \in Seq(Nat) /\ Len(angles') = Len(angles) + 1
      BY <2>1, <3>2, AppendFacts
    <3>5. AnglesGot(angleReader, angles')
      BY <2>1, <3>2, LocaGotMore
    <3> QED BY <1>1, <1>2, <2>1, <3>3, <3>4, <3>5 DEF LocaAngles, LocaAngleTypes
  <2>3. CASE ~IsAngle(pk)
    <3>1. angles' = angles
      BY <1>2, <2>3 DEF IsAngle
    <3>2. AnglesComing(inbox', Len(angles), angleSent)
      BY <1>1, <2>1, <2>3, LocaOtherGoes
    <3> QED BY <1>1, <1>2, <2>1, <3>1, <3>2 DEF LocaAngles, LocaAngleTypes
  <2> QED BY <2>2, <2>3
<1> QED BY <1>3, <1>4 DEF LocaInv

\* A packet comes in: on its own, or for a request.
LEMMA LocaArrives ==
    ASSUME Loca!ConstantsOK, LocaInv, Loca!Report \/ Loca!Confirm
    PROVE  LocaInv'
<1>1. /\ requested \in Seq(LocaRequest) /\ live \in BOOLEAN /\ ended \in BOOLEAN /\ LocaEnds
      /\ told \in Seq([call : Nat, ok : BOOLEAN]) /\ Len(told) \in Nat
      /\ inbox \in Seq(LocaPacket)
      /\ angles \in Seq(Nat) /\ angleSent \in Seq(Nat) /\ unasked \in Nat
      /\ angleReader \in LocaReader /\ Len(angles) \in Nat
      /\ AnglesSent(angles, angleSent, unasked)
      /\ AnglesComing(inbox, Len(angles), angleSent) /\ AnglesGot(angleReader, angles)
  BY LenProperties DEF LocaInv, LocaCalls, LocaCallTypes, LocaAngles, LocaAngleTypes
<1>2. /\ UNCHANGED <<persist, persists, told, angles, ended, angleReader, live>>
  BY DEF Loca!Report, Loca!Confirm, Loca!callVars
<1>3. /\ ~ended
      /\ requested' \in Seq(LocaRequest) /\ (~live => requested' = <<>>)
      /\ \A i \in 1..Len(requested') : \E k \in 1..Len(requested) : requested'[i] = requested[k]
  <2>1. CASE Loca!Report
    BY <1>1, <2>1 DEF Loca!Report, Loca!callVars, LocaEnds
  <2>2. CASE Loca!Confirm
    <3>1. requested # <<>> /\ requested' = Tail(requested)
      BY <2>2 DEF Loca!Confirm
    <3> QED BY <1>1, <3>1, QueueFacts DEF LocaEnds
  <2> QED BY <2>1, <2>2
<1>4. LocaCalls'
  <2>1. LocaEnds'
    BY <1>2, <1>3 DEF LocaEnds
  <2> QED BY <1>1, <1>2, <1>3, <2>1, LocaRest DEF LocaInv
<1>5. CASE /\ Loca!Report /\ inbox' = Append(inbox, [type |-> "angle", n |-> unasked + 1])
           /\ angleSent' = Append(angleSent, unasked + 1)
  <2>1. PICK x : x = [type |-> "angle", n |-> unasked + 1]
    OBVIOUS
  <2>2. x \in LocaPacket /\ IsAngle(x) /\ Number(x) = unasked + 1 /\ unasked + 1 \in Nat
    BY <1>1, <2>1 DEF LocaPacket, IsAngle, Number
  <2>3. inbox' = Append(inbox, x) /\ unasked' = unasked + 1
    BY <1>5, <2>1 DEF Loca!Report
  <2>4. inbox' \in Seq(LocaPacket) /\ angleSent' \in Seq(Nat)
    BY <1>1, <1>5, <2>2, <2>3, AppendFacts
  <2>5. AnglesSent(angles, angleSent', unasked') /\ AnglesComing(inbox', Len(angles), angleSent')
    BY <1>1, <1>5, <2>2, <2>3, LocaAngleComes
  <2>6. LocaAngles'
    BY <1>1, <1>2, <2>2, <2>3, <2>4, <2>5 DEF LocaAngles, LocaAngleTypes
  <2> QED BY <1>4, <2>6 DEF LocaInv
<1>6. CASE \E x \in LocaPacket : ~IsAngle(x) /\ inbox' = Append(inbox, x) /\ unasked' \in Nat
                                 /\ unasked' >= unasked /\ UNCHANGED angleSent
  <2>1. PICK x \in LocaPacket : ~IsAngle(x) /\ inbox' = Append(inbox, x)
    BY <1>6
  <2>2. inbox' \in Seq(LocaPacket)
    BY <1>1, <2>1, AppendFacts
  <2>3. AnglesComing(inbox', Len(angles), angleSent)
    BY <1>1, <2>1, LocaOtherComes
  <2>4. AnglesSent(angles, angleSent, unasked')
    <3>1. \A i \in 1..Len(angleSent) : angleSent[i] \in Nat /\ angleSent[i] <= unasked
      BY <1>1, QueueFacts DEF AnglesSent
    <3>2. \A i \in 1..Len(angleSent) : angleSent[i] <= unasked'
      BY <1>1, <1>6, <3>1
    <3> QED BY <1>1, <3>2 DEF AnglesSent
  <2>5. LocaAngles'
    BY <1>1, <1>2, <1>6, <2>2, <2>3, <2>4 DEF LocaAngles, LocaAngleTypes
  <2> QED BY <1>4, <2>5 DEF LocaInv
<1>7. CASE Loca!Report /\ inbox' = Append(inbox, [type |-> "skipped"]) /\ UNCHANGED angleSent
  <2>1. PICK x : x = [type |-> "skipped"]
    OBVIOUS
  <2>2. x \in LocaPacket /\ ~IsAngle(x)
    BY <2>1 DEF LocaPacket, IsAngle
  <2>3. unasked' = unasked + 1
    BY <1>7 DEF Loca!Report
  <2> QED BY <1>1, <1>6, <1>7, <2>1, <2>2, <2>3
<1>8. CASE Loca!Confirm
  <2>1. UNCHANGED <<angleSent, unasked>>
    BY <1>8 DEF Loca!Confirm
  <2>2. CASE UNCHANGED inbox
    BY <1>2, <1>4, <2>1, <2>2, LocaAnglesSame DEF LocaInv
  <2>3. CASE \E ok \in BOOLEAN :
               inbox' = Append(inbox, [type |-> "persist", n |-> Head(requested).call, ok |-> ok])
    <3>1. PICK ok \in BOOLEAN :
               inbox' = Append(inbox, [type |-> "persist", n |-> Head(requested).call, ok |-> ok])
      BY <2>3
    <3>2. Head(requested).call \in Nat
      <4>1. Head(requested) \in LocaRequest
        BY <1>1, <1>8, QueueFacts DEF Loca!Confirm
      <4> QED BY <4>1 DEF LocaRequest
    <3>3. PICK x : x = [type |-> "persist", n |-> Head(requested).call, ok |-> ok]
      OBVIOUS
    <3>4. x \in LocaPacket /\ ~IsAngle(x)
      BY <3>2, <3>3 DEF LocaPacket, IsAngle
    <3> QED BY <1>1, <1>6, <2>1, <3>1, <3>3, <3>4
  <2> QED BY <1>8, <2>2, <2>3 DEF Loca!Confirm
<1> QED BY <1>5, <1>7, <1>8 DEF Loca!Report

LEMMA LocaNext ==
    ASSUME Loca!ConstantsOK, LocaInv, [Loca!Next]_Loca!vars
    PROVE  LocaInv'
<1>1. /\ requested \in Seq(LocaRequest) /\ live \in BOOLEAN /\ ended \in BOOLEAN /\ LocaEnds
      /\ told \in Seq([call : Nat, ok : BOOLEAN]) /\ Len(told) \in Nat
  BY LenProperties DEF LocaInv, LocaCalls, LocaCallTypes
<1>2. CASE UNCHANGED Loca!vars
  <2>1. UNCHANGED <<persist, persists, requested, told, live, ended, inbox>>
        /\ UNCHANGED <<inbox, angles, angleReader, angleSent, unasked>>
    BY <1>2 DEF Loca!vars, Loca!callVars, Loca!taskVars
  <2>2. LocaCalls'
    BY <2>1 DEF LocaInv, LocaCalls, LocaCallTypes, LocaEnds, LocaNumbers, LocaLists, LocaMasks,
       LocaLost
  <2> QED BY <2>1, <2>2, LocaAnglesSame DEF LocaInv
<1>3. CASE Loca!TaskEnds \/ Loca!Lose
  <2>1. UNCHANGED <<persist, persists, told>>
        /\ UNCHANGED <<inbox, angles, angleReader, angleSent, unasked>>
    BY <1>3 DEF Loca!TaskEnds, Loca!Lose, Loca!callVars, Loca!taskVars
  <2>2. /\ requested' \in Seq(LocaRequest) /\ live' \in BOOLEAN /\ ended' \in BOOLEAN
        /\ live' => live
        /\ LocaEnds'
        /\ \A i \in 1..Len(requested') : \E k \in 1..Len(requested) : requested'[i] = requested[k]
    <3>1. CASE Loca!TaskEnds
      BY <1>1, <3>1 DEF Loca!TaskEnds, Loca!callVars, LocaEnds
    <3>2. CASE Loca!Lose
      <4>1. requested' = <<>> /\ live' = FALSE /\ live = TRUE /\ ended' = ended /\ inbox' = inbox
        BY <3>2 DEF Loca!Lose, Loca!taskVars
      <4>2. requested' \in Seq(LocaRequest) /\ 1..Len(requested') = {}
        BY <4>1, EmptyFacts
      <4> QED BY <1>1, <4>1, <4>2 DEF LocaEnds
    <3> QED BY <1>3, <3>1, <3>2
  <2>3. LocaCalls'
    BY <1>1, <2>1, <2>2, LocaRest DEF LocaInv
  <2> QED BY <2>1, <2>3, LocaAnglesSame DEF LocaInv
<1>4. CASE Loca!OpenAngles \/ Loca!ReadAngle
  <2>1. UNCHANGED <<persist, persists, requested, told, live, ended, inbox>>
        /\ UNCHANGED <<inbox, angles, angleSent, unasked>>
    BY <1>4 DEF Loca!OpenAngles, Loca!ReadAngle, Loca!callVars, Loca!taskVars
  <2>2. LocaCalls'
    BY <2>1 DEF LocaInv, LocaCalls, LocaCallTypes, LocaEnds, LocaNumbers, LocaLists, LocaMasks,
       LocaLost
  <2>3. angleReader' \in LocaReader /\ AnglesGot(angleReader', angles)
    <3>1. CASE Loca!OpenAngles
      <4>1. angleReader' = [open |-> TRUE, next |-> 0, got |-> <<>>]
        BY <3>1 DEF Loca!OpenAngles, Loca!Start
      <4>2. angleReader' \in LocaReader /\ angleReader'.next = 0 /\ angleReader'.got = <<>>
        BY <4>1, EmptyFacts DEF LocaReader
      <4>3. Len(angles) \in Nat
        BY LenProperties DEF LocaInv, LocaAngles, LocaAngleTypes
      <4> QED BY <4>2, <4>3, EmptyFacts DEF AnglesGot, Rising
    <3>2. CASE Loca!ReadAngle
      <4>1. Rising(angles)
        <5>1. Len(angles) \in Nat /\ Len(angleSent) \in Nat /\ Len(angles) <= Len(angleSent)
          BY LenProperties DEF LocaInv, LocaAngles, LocaAngleTypes, AnglesSent
        <5>2. \A i \in 1..Len(angles) : i \in 1..Len(angleSent)
          BY <5>1
        <5> QED BY <5>2 DEF LocaInv, LocaAngles, AnglesSent, Rising
      <4> QED BY <3>2, <4>1, LocaReads DEF LocaInv, LocaAngles
    <3> QED BY <1>4, <3>1, <3>2
  <2>4. LocaAngles'
    BY <2>1, <2>3 DEF LocaInv, LocaAngles, LocaAngleTypes
  <2> QED BY <2>2, <2>4 DEF LocaInv
<1>5. ASSUME NEW t \in Clients, NEW l \in Stations, Loca!Persist(t, l) PROVE LocaInv'
  <2>1. UNCHANGED <<inbox, angles, angleReader, angleSent, unasked>>
    BY <1>5 DEF Loca!Persist, Loca!taskVars
  <2>2. LocaCalls'
    BY <1>5, LocaPersist DEF LocaInv
  <2> QED BY <2>1, <2>2, LocaAnglesSame DEF LocaInv
<1>6. ASSUME NEW t \in Clients, Loca!Step(t) PROVE LocaInv'
  <2>1. UNCHANGED <<inbox, angles, angleReader, angleSent, unasked>>
    BY <1>6 DEF Loca!Step, Loca!SendPersist, Loca!Confirmed, Loca!Timeout, Loca!taskVars
  <2>2. LocaCalls'
    BY <1>6, LocaSend, LocaReturns DEF Loca!Step, LocaInv
  <2> QED BY <2>1, <2>2, LocaAnglesSame DEF LocaInv
<1> QED BY <1>2, <1>3, <1>4, <1>5, <1>6, LocaDispatch, LocaArrives DEF Loca!Next, Loca!Task

\* A request names the stations of its list and no other, a call says that the
\* connection is lost only if it is or the channel has overflowed, and a stream
\* of angles misses nothing but what has overflowed, for any lists, tasks and
\* capacities (LighthouseTold; localization.rs:434, 454 and 149).
THEOREM LighthouseIsTold ==
    Loca!ConstantsOK => (Loca!Spec => []LighthouseTold)
<1> SUFFICES ASSUME Loca!ConstantsOK PROVE Loca!Spec => []LighthouseTold
  OBVIOUS
<1>1. Loca!Init => LocaInv
  BY LocaCallsInit, LocaAnglesInit DEF LocaInv
<1>2. LocaInv /\ [Loca!Next]_Loca!vars => LocaInv'
  BY LocaNext
<1>3. LocaInv => LighthouseTold
  <2> SUFFICES ASSUME LocaInv PROVE Loca!LighthouseTold
    BY DEF LighthouseTold
  <2>1. requested \in Seq(LocaRequest) /\ DOMAIN requested = 1..Len(requested)
    BY LenProperties DEF LocaInv, LocaCalls, LocaCallTypes
  <2>2. Loca!MaskRight /\ Loca!NoFalseDisconnect
    BY <2>1 DEF LocaInv, LocaCalls, LocaMasks, LocaLost, Loca!MaskRight, Loca!NoFalseDisconnect
  <2>3. Loca!AnglesWhole
    <3>1. PICK n \in Nat, g \in Seq(Nat) : angleReader.next = n /\ angleReader.got = g
      BY DEF LocaInv, LocaAngles, LocaAngleTypes, LocaReader
    <3>2. PICK a \in Nat, b \in Nat, c \in Nat :
              a = Len(angles) /\ b = Len(angleSent) /\ c = AngleCapacity
      BY LenProperties DEF LocaInv, LocaAngles, LocaAngleTypes, Loca!ConstantsOK
    <3>3. DOMAIN g = 1..Len(g) /\ DOMAIN angleSent = 1..b /\ DOMAIN inbox = 1..Len(inbox)
      BY <3>2, LenProperties DEF LocaInv, LocaAngles, LocaAngleTypes
    <3>4. \A i, k \in DOMAIN g : i < k => g[i] < g[k]
      BY <3>1, <3>3 DEF LocaInv, LocaAngles, AnglesGot, Rising
    <3>5. ASSUME NEW i \in 1..b
          PROVE  \/ angleSent[i] \in Loca!Range(g)
                 \/ n < i /\ i <= a
                 \/ ~ended /\ \E k \in DOMAIN inbox :
                       inbox[k].type = "angle" /\ inbox[k].n = angleSent[i]
                 \/ i <= Loca!Dropped(angles, AngleCapacity)
      <4>1. CASE i \in 1..n
        <5>1. n <= a /\ i \in 1..a /\ angles[i] = angleSent[i]
          BY <3>1, <3>2, <4>1 DEF LocaInv, LocaAngles, AnglesGot, AnglesSent
        <5>2. CASE i <= a - c
          BY <3>2, <5>2 DEF Loca!Dropped
        <5>3. CASE \E k \in 1..Len(g) : g[k] = angles[i]
          BY <3>3, <5>1, <5>3 DEF Loca!Range
        <5> QED BY <3>1, <3>2, <4>1, <5>2, <5>3 DEF LocaInv, LocaAngles, AnglesGot
      <4>2. CASE i \in (a + 1)..b
        <5>1. PICK k \in 1..Len(inbox) : IsAngle(inbox[k]) /\ Number(inbox[k]) = angleSent[i]
          BY <3>2, <4>2 DEF LocaInv, LocaAngles, AnglesComing
        <5>2. ~ended
          BY <5>1, EmptyFacts DEF LocaInv, LocaCalls, LocaEnds
        <5> QED BY <3>3, <5>1, <5>2 DEF IsAngle, Number
      <4>3. i \in 1..n \/ (n < i /\ i <= a) \/ i \in (a + 1)..b
        OBVIOUS
      <4> QED BY <4>1, <4>2, <4>3
    <3> QED BY <3>1, <3>2, <3>3, <3>4, <3>5 DEF Loca!AnglesWhole
  <2> QED BY <2>2, <2>3 DEF Loca!LighthouseTold
<1> QED BY <1>1, <1>2, <1>3, PTL DEF Loca!Spec

-----------------------------------------------------------------------------
(* Pages: the types *)

\* A call, and what is remembered of pages and lists.
PageCall == [what : {"none", "readAll", "writeAll", "ids", "active", "anchors"},
             kind : Page!Kinds, at : Nat, asked : SUBSET Nat, todo : SUBSET Nat,
             half : SUBSET Nat, ids : Seq(Nat), active : Seq(Nat),
             result : SUBSET (Nat \X Page!Records),
             outcome : {"none", "ok", "memory", "argument", "disconnected"}]
PageHistory == [page : [Page!Cells -> SUBSET Page!Records],
                list : [Page!ListNames -> SUBSET Lists]]

PageTypes ==
    /\ page \in [Page!Cells -> Page!Records] /\ list \in [Page!ListNames -> Lists]
    /\ call \in PageCall /\ had \in PageHistory
    /\ calls \in Nat /\ changes \in Nat

\* What is remembered of a call has what pages and lists are now.
PageHad ==
    call.what # "none" => /\ \A c \in Page!Cells : page[c] \in had.page[c]
                          /\ \A n \in Page!ListNames : list[n] \in had.list[n]

\* h remembers no more than g.
PageGrows(h, g) ==
    /\ \A c \in Page!Cells : h.page[c] \subseteq g.page[c]
    /\ \A n \in Page!ListNames : h.list[n] \subseteq g.list[n]

LEMMA PageCard == ASSUME NEW S PROVE Page!Cardinality(S) = Cardinality(S)
  BY DEF Page!Cardinality, Cardinality

LEMMA PageCells ==
    ASSUME NEW k \in Page!Kinds, NEW i \in Nat
    PROVE  (i < MaxPages /\ Page!ConstantsOK) => <<k, i>> \in Page!Cells
<1> SUFFICES ASSUME i < MaxPages, Page!ConstantsOK PROVE <<k, i>> \in Page!Cells
  OBVIOUS
<1>1. i \in 0..(MaxPages - 1)
  BY DEF Page!ConstantsOK
<1> QED BY <1>1 DEF Page!Cells

\* The library looks for the page of a record where the Crazyflie has it, and
\* finds no other there.
LEMMA PagePlace ==
    ASSUME Page!ConstantsOK, NEW k \in Page!Kinds, NEW i \in Nat
    PROVE  /\ i < MaxPages => Page!At(Page!Address(k, i)) = IF i < Supported THEN {<<k, i>>} ELSE {}
           /\ Page!At(Page!Address(k, i)) \subseteq Page!Cells
<1>1. Page!At(Page!Address(k, i)) \subseteq Page!Cells
  BY DEF Page!At
<1>2. ASSUME i < MaxPages
      PROVE  Page!At(Page!Address(k, i)) = IF i < Supported THEN {<<k, i>>} ELSE {}
  <2>1. \A j \in 0..(MaxPages - 1), l \in Page!Kinds :
            Page!Place(<<l, j>>) = Page!Address(k, i) <=> l = k /\ j = i
    <3> SUFFICES ASSUME NEW j \in 0..(MaxPages - 1), NEW l \in Page!Kinds
                 PROVE  Page!Place(<<l, j>>) = Page!Address(k, i) <=> l = k /\ j = i
      OBVIOUS
    <3>1. j \in 0..15 /\ i \in 0..15
      BY <1>2 DEF Page!ConstantsOK
    <3>2. /\ l = "geometry" => Page!Place(<<l, j>>) = 256 * (j + 0)
          /\ l = "calibration" => Page!Place(<<l, j>>) = 256 * (j + 16)
          /\ l = "anchor" => Page!Place(<<l, j>>) = 256 * (j + 32)
      BY DEF Page!Place
    <3>3. /\ k = "geometry" => Page!Address(k, i) = 0 + 256 * i
          /\ k = "calibration" => Page!Address(k, i) = 4096 + 256 * i
          /\ k = "anchor" => Page!Address(k, i) = 8192 + 256 * i
      BY DEF Page!Address, Page!StartAddress, Page!PageSize
    <3>4. l \in {"geometry", "calibration", "anchor"} /\ k \in {"geometry", "calibration", "anchor"}
      BY DEF Page!Kinds
    <3> QED BY <3>1, <3>2, <3>3, <3>4
  <2>2. <<k, i>> \in Page!Cells
    BY <1>2, PageCells
  <2>3. i \in 0..(MaxPages - 1)
    BY <1>2 DEF Page!ConstantsOK
  <2>4. \A c \in Page!Cells : c \in Page!At(Page!Address(k, i)) <=> c = <<k, i>> /\ i < Supported
    <3> SUFFICES ASSUME NEW c \in Page!Cells
                 PROVE  c \in Page!At(Page!Address(k, i)) <=> c = <<k, i>> /\ i < Supported
      OBVIOUS
    <3>1. PICK l \in Page!Kinds, j \in 0..(MaxPages - 1) : c = <<l, j>>
      BY DEF Page!Cells
    <3>2. c[2] = j
      BY <3>1
    <3>3. Page!Place(c) = Page!Address(k, i) <=> l = k /\ j = i
      BY <2>1, <3>1
    <3> QED BY <3>1, <3>2, <3>3 DEF Page!At
  <2>5. \A c : c \in Page!At(Page!Address(k, i)) => c \in Page!Cells
    BY <1>1
  <2> QED BY <2>2, <2>4, <2>5
<1> QED BY <1>1, <1>2

-----------------------------------------------------------------------------
(* Pages: what a call has done so far *)

\* A read of all pages: of the one that is read the start was there, and the
\* pages before it are in the result or were not valid.
PageReads(c, h) ==
    c.what = "readAll" =>
        /\ c.at <= MaxPages
        /\ (c.outcome = "none" => c.at < MaxPages) /\ (c.outcome = "ok" => c.at = MaxPages)
        /\ \A v \in c.half : c.at < MaxPages /\ \E r \in h.page[<<c.kind, c.at>>] : r.v = v
        /\ \A e \in c.result : /\ e[1] < c.at /\ e[2].valid
                               /\ \E r \in h.page[<<c.kind, e[1]>>] : r.v = e[2].v
                               /\ \E r \in h.page[<<c.kind, e[1]>>] : r.valid
        /\ \A i \in 0..(c.at - 1) : (\A e \in c.result : e[1] # i) =>
               i >= Supported \/ \E r \in h.page[<<c.kind, i>>] : ~r.valid

\* A write of several pages: those of d are written to the end, and those of
\* half are begun; d are all that are not left, unless a page was refused.
PageWrote(k, d, half) == (({k} \X d) \X {"start", "rest"}) \union (({k} \X half) \X {"start"})
PageWrites(c, w) ==
    c.what = "writeAll" =>
        /\ c.todo \subseteq c.asked /\ c.half \subseteq c.todo
        /\ (c.half = {} \/ \E i \in c.asked : i < Supported /\ c.half = {i})
        /\ (c.outcome = "ok" => c.todo = {})
        /\ \E d \in SUBSET c.asked :
              /\ d \cap c.half = {} /\ w = PageWrote(c.kind, d, c.half)
              /\ (c.outcome \in {"none", "ok"} => d = c.asked \ c.todo)

\* A snapshot of anchors: the lists were there, and the result has the anchors
\* of the list before the next one.
PageAnchors(c, h) ==
    /\ c.what \in {"ids", "active"} => c.result = {} /\ c.outcome # "ok"
    /\ c.what \in {"active", "anchors"} => c.ids \in h.list["ids"]
    /\ c.what = "anchors" =>
          /\ c.active \in h.list["active"] /\ c.at \in 1..(Len(c.ids) + 1)
          /\ (c.outcome = "none" => c.at <= Len(c.ids))
          /\ (c.outcome = "ok" => c.at = Len(c.ids) + 1)
          /\ \A k \in 1..(c.at - 1) : \E e \in c.result : e[1] = c.ids[k]
          /\ \A e \in c.result : /\ \E k \in 1..(c.at - 1) : e[1] = c.ids[k]
                                 /\ e[1] < MaxPages /\ e[2] \in h.page[<<"anchor", e[1]>>]

PageInv ==
    /\ PageTypes /\ PageHad /\ PageReads(call, had) /\ PageWrites(call, written)
    /\ PageAnchors(call, had)

\* More that is remembered changes none of this.
LEMMA PageMore ==
    ASSUME Page!ConstantsOK, NEW c \in PageCall, NEW h \in PageHistory, NEW g \in PageHistory,
           PageGrows(h, g), PageReads(c, h), PageAnchors(c, h)
    PROVE  PageReads(c, g) /\ PageAnchors(c, g)
<1>1. PageReads(c, g)
  <2> SUFFICES ASSUME c.what = "readAll" PROVE PageReads(c, g)
    BY DEF PageReads
  <2>1. /\ c.at \in Nat /\ c.kind \in Page!Kinds
        /\ \A e \in c.result : e[1] \in Nat /\ e \in Nat \X Page!Records
        /\ MaxPages \in Nat /\ c.at <= MaxPages
    <3>1. c.at \in Nat /\ c.kind \in Page!Kinds /\ MaxPages \in Nat /\ c.at <= MaxPages
      BY DEF PageCall, Page!ConstantsOK, PageReads
    <3>2. c.result \in SUBSET (Nat \X Page!Records)
      BY DEF PageCall
    <3> QED BY <3>1, <3>2
  <2>2. \A i \in Nat : i < MaxPages => h.page[<<c.kind, i>>] \subseteq g.page[<<c.kind, i>>]
    BY <2>1, PageCells DEF PageGrows
  <2>3. \A e \in c.result : h.page[<<c.kind, e[1]>>] \subseteq g.page[<<c.kind, e[1]>>]
    <3>1. ASSUME NEW e \in c.result PROVE e[1] < MaxPages
      <4>1. e[1] < c.at /\ e[1] \in Nat
        BY <2>1 DEF PageReads
      <4> QED BY <2>1, <4>1
    <3> QED BY <2>1, <2>2, <3>1
  <2>4. \A i \in 0..(c.at - 1) : h.page[<<c.kind, i>>] \subseteq g.page[<<c.kind, i>>]
    BY <2>1, <2>2
  <2>5. \A v \in c.half : h.page[<<c.kind, c.at>>] \subseteq g.page[<<c.kind, c.at>>]
    BY <2>1, <2>2 DEF PageReads
  <2> QED BY <2>3, <2>4, <2>5 DEF PageReads
<1>2. PageAnchors(c, g)
  <2>1. h.list["ids"] \subseteq g.list["ids"] /\ h.list["active"] \subseteq g.list["active"]
    BY DEF PageGrows, Page!ListNames
  <2>2. c.what = "anchors" => \A e \in c.result :
            h.page[<<"anchor", e[1]>>] \subseteq g.page[<<"anchor", e[1]>>]
    <3> SUFFICES ASSUME c.what = "anchors", NEW e \in c.result
                 PROVE  h.page[<<"anchor", e[1]>>] \subseteq g.page[<<"anchor", e[1]>>]
      OBVIOUS
    <3>1. e[1] \in Nat /\ e[1] < MaxPages
      BY DEF PageCall, PageAnchors
    <3>2. <<"anchor", e[1]>> \in Page!Cells
      BY <3>1, PageCells DEF Page!Kinds
    <3> QED BY <3>2 DEF PageGrows
  <2> QED BY <2>1, <2>2 DEF PageAnchors
<1> QED BY <1>1, <1>2

LEMMA PageInit == ASSUME Page!ConstantsOK, Page!Init PROVE PageInv
<1>1. Page!NoCall \in PageCall
  BY EmptyFacts DEF Page!NoCall, PageCall, Page!Kinds
<1>2. call = Page!NoCall /\ call.what = "none"
  BY DEF Page!Init, Page!NoCall
<1>3. had \in PageHistory
  BY DEF Page!Init, PageHistory
<1>4. page \in [Page!Cells -> Page!Records] /\ list \in [Page!ListNames -> Lists]
  BY DEF Page!Init, Page!Records
<1>5. PageTypes
  BY <1>1, <1>2, <1>3, <1>4 DEF Page!Init, PageTypes
<1> QED BY <1>2, <1>5 DEF PageInv, PageHad, PageReads, PageWrites, PageAnchors

\* A call begins: nothing is done yet.
LEMMA PageBegins ==
    ASSUME Page!ConstantsOK, PageInv, NEW x \in PageCall, Page!Begin(x), x.what # "none",
           x.what # "anchors" /\ x.what # "active",
           x.at = 0, x.half = {}, x.result = {}, x.todo = x.asked,
           x.outcome \in {"none", "ok"},
           x.outcome = "ok" => x.what = "writeAll" /\ x.asked = {}
    PROVE  PageInv'
<1>1. /\ call' = x /\ written' = {} /\ UNCHANGED <<page, list, reachable, changes>>
      /\ calls' = calls + 1
      /\ had' = [page |-> [c \in Page!Cells |-> {page[c]}],
                 list |-> [n \in Page!ListNames |-> {list[n]}]]
  BY DEF Page!Begin
<1>2. had' \in PageHistory
  BY <1>1 DEF PageHistory, PageInv, PageTypes
<1>3. PageTypes'
  BY <1>1, <1>2 DEF PageInv, PageTypes
<1>4. PageHad'
  <2>1. \A c \in Page!Cells : had'.page[c] = {page[c]}
    BY <1>1
  <2>2. \A n \in Page!ListNames : had'.list[n] = {list[n]}
    BY <1>1
  <2> QED BY <1>1, <2>1, <2>2 DEF PageHad
<1>5. PageReads(x, had')
  BY DEF PageReads, Page!ConstantsOK
<1>6. PageWrites(x, {})
  <2>1. {} = PageWrote(x.kind, {}, {}) /\ x.asked \ x.todo = {}
    BY DEF PageWrote
  <2> QED BY <2>1 DEF PageWrites
<1>7. PageAnchors(x, had')
  BY DEF PageAnchors
<1> QED BY <1>1, <1>3, <1>4, <1>5, <1>6, <1>7 DEF PageInv

LEMMA PageStarts ==
    ASSUME Page!ConstantsOK, PageInv,
           \/ \E k \in {"geometry", "calibration"} :
                 Page!ReadAll(k) \/ \E ids \in SUBSET (0..MaxPages) : Page!WriteAll(k, ids)
           \/ Page!ReadAnchors
    PROVE  PageInv'
<1>0. <<>> \in Seq(Nat)
  BY EmptyFacts
<1>1. ASSUME NEW k \in {"geometry", "calibration"}, Page!ReadAll(k) PROVE PageInv'
  <2>1. PICK x : x = [Page!NoCall EXCEPT !.what = "readAll", !.kind = k]
    OBVIOUS
  <2>2. /\ x \in PageCall /\ x.what = "readAll" /\ x.at = 0 /\ x.half = {} /\ x.result = {}
        /\ x.todo = x.asked /\ x.outcome = "none"
    BY <1>0, <2>1 DEF Page!NoCall, PageCall, Page!Kinds
  <2> QED BY <1>1, <2>1, <2>2, PageBegins DEF Page!ReadAll
<1>2. ASSUME NEW k \in {"geometry", "calibration"}, NEW ids \in SUBSET (0..MaxPages),
             Page!WriteAll(k, ids)
      PROVE  PageInv'
  <2>1. PICK x : x = [Page!NoCall EXCEPT !.what = "writeAll", !.kind = k, !.asked = ids,
                          !.todo = ids, !.outcome = IF ids = {} THEN "ok" ELSE "none"]
    OBVIOUS
  <2>2. ids \in SUBSET Nat
    OBVIOUS
  <2>3. /\ x \in PageCall /\ x.what = "writeAll" /\ x.at = 0 /\ x.half = {} /\ x.result = {}
        /\ x.todo = ids /\ x.asked = ids /\ x.outcome = IF ids = {} THEN "ok" ELSE "none"
    BY <1>0, <2>1, <2>2 DEF Page!NoCall, PageCall, Page!Kinds
  <2>4. Page!Begin(x)
    BY <1>2, <2>1 DEF Page!WriteAll
  <2>5. /\ x.what # "none" /\ x.what # "anchors" /\ x.what # "active" /\ x.todo = x.asked
        /\ x.outcome \in {"none", "ok"}
        /\ (x.outcome = "ok" => x.what = "writeAll" /\ x.asked = {})
    BY <2>3
  <2> QED BY <2>3, <2>4, <2>5, PageBegins
<1>3. ASSUME Page!ReadAnchors PROVE PageInv'
  <2>1. PICK x : x = [Page!NoCall EXCEPT !.what = "ids", !.kind = "anchor"]
    OBVIOUS
  <2>2. /\ x \in PageCall /\ x.what = "ids" /\ x.at = 0 /\ x.half = {} /\ x.result = {}
        /\ x.todo = x.asked /\ x.outcome = "none"
    BY <1>0, <2>1 DEF Page!NoCall, PageCall, Page!Kinds
  <2> QED BY <1>3, <2>1, <2>2, PageBegins DEF Page!ReadAnchors
<1> QED BY <1>1, <1>2, <1>3

-----------------------------------------------------------------------------
(* Pages: the steps of a call *)

\* A step that only changes the call.
LEMMA PageCallMoves ==
    ASSUME PageInv, NEW x \in PageCall, call' = x, call.what # "none",
           UNCHANGED <<page, list, had, calls, changes>>,
           PageReads(x, had), PageWrites(x, written'), PageAnchors(x, had)
    PROVE  PageInv'
<1>1. PageTypes'
  BY DEF PageInv, PageTypes
<1>2. PageHad'
  BY DEF PageInv, PageHad
<1> QED BY <1>1, <1>2 DEF PageInv

\* A call that ends early has done what it has done.
LEMMA PageFails ==
    ASSUME PageInv, NEW o \in {"memory", "argument", "disconnected"}, Page!Return(o),
           call.what # "none", UNCHANGED <<page, list, had, written, calls, changes>>
    PROVE  PageInv'
<1>1. PICK u \in PageCall : u = call
  BY DEF PageInv, PageTypes
<1>2. PICK x : x = [u EXCEPT !.outcome = o]
  OBVIOUS
<1>3. /\ x \in PageCall /\ x.what = u.what /\ x.kind = u.kind /\ x.at = u.at /\ x.asked = u.asked
      /\ x.todo = u.todo /\ x.half = u.half /\ x.ids = u.ids /\ x.active = u.active
      /\ x.result = u.result /\ x.outcome = o
  BY <1>2 DEF PageCall
<1>4. call' = x
  BY <1>1, <1>2 DEF Page!Return
<1>5. PageReads(u, had) /\ PageWrites(u, written) /\ PageAnchors(u, had)
  BY <1>1 DEF PageInv
<1>6. PageReads(x, had)
  BY <1>3, <1>5 DEF PageReads
<1>7. PageWrites(x, written)
  BY <1>3, <1>5 DEF PageWrites
<1>8. PageAnchors(x, had)
  BY <1>3, <1>5 DEF PageAnchors
<1> QED BY <1>3, <1>4, <1>6, <1>7, <1>8, PageCallMoves

\* A page more of a read.
PageOn(u, r) ==
    [u EXCEPT !.at = u.at + 1, !.half = {}, !.result = @ \union r,
              !.outcome = IF u.at + 1 = MaxPages THEN "ok" ELSE "none"]

LEMMA PageOnward ==
    ASSUME Page!ConstantsOK, NEW u \in PageCall, u.what = "readAll", u.outcome = "none",
           NEW h \in PageHistory, PageReads(u, h),
           NEW r \in SUBSET (Nat \X Page!Records),
           \A e \in r : /\ e[1] = u.at /\ e[2].valid
                        /\ \E s \in h.page[<<u.kind, u.at>>] : s.v = e[2].v
                        /\ \E s \in h.page[<<u.kind, u.at>>] : s.valid,
           r = {} => u.at >= Supported \/ \E s \in h.page[<<u.kind, u.at>>] : ~s.valid,
           NEW x, x = PageOn(u, r)
    PROVE  x \in PageCall /\ x.what = "readAll" /\ PageReads(x, h)
<1>1. PICK a \in Nat, k \in Page!Kinds, q \in SUBSET (Nat \X Page!Records), m \in Nat :
          a = u.at /\ k = u.kind /\ q = u.result /\ m = MaxPages
  <2>1. MaxPages \in Nat
    BY DEF Page!ConstantsOK
  <2>2. u.at \in Nat /\ u.kind \in Page!Kinds /\ u.result \in SUBSET (Nat \X Page!Records)
    BY DEF PageCall
  <2> QED BY <2>1, <2>2
<1>2. PICK o \in {"ok", "none"} : o = IF a + 1 = m THEN "ok" ELSE "none"
  OBVIOUS
<1>3. /\ x \in PageCall /\ x.what = "readAll" /\ x.kind = k /\ x.at = a + 1 /\ x.half = {}
      /\ x.result = q \union r /\ x.outcome = o
  <2>1. x = [u EXCEPT !.at = a + 1, !.half = {}, !.result = q \union r, !.outcome = o]
    BY <1>1, <1>2 DEF PageOn
  <2>2. a + 1 \in Nat /\ q \union r \in SUBSET (Nat \X Page!Records)
    OBVIOUS
  <2> QED BY <1>1, <2>1, <2>2 DEF PageCall
<1>4. a < m
  BY <1>1 DEF PageReads
<1>5. a + 1 <= m /\ (o = "none" => a + 1 < m) /\ (o = "ok" => a + 1 = m)
  BY <1>2, <1>4
<1>6. \A e \in q \union r : /\ e[1] < a + 1 /\ e[2].valid
                            /\ \E s \in h.page[<<k, e[1]>>] : s.v = e[2].v
                            /\ \E s \in h.page[<<k, e[1]>>] : s.valid
  <2>1. ASSUME NEW e \in q
        PROVE  /\ e[1] < a + 1 /\ e[2].valid
               /\ \E s \in h.page[<<k, e[1]>>] : s.v = e[2].v
               /\ \E s \in h.page[<<k, e[1]>>] : s.valid
    <3>1. PICK i \in Nat : i = e[1]
      OBVIOUS
    <3>2. i < a
      BY <1>1, <3>1 DEF PageReads
    <3>3. i < a + 1
      BY <3>2
    <3> QED BY <1>1, <3>1, <3>3 DEF PageReads
  <2>2. ASSUME NEW e \in r
        PROVE  /\ e[1] < a + 1 /\ e[2].valid
               /\ \E s \in h.page[<<k, e[1]>>] : s.v = e[2].v
               /\ \E s \in h.page[<<k, e[1]>>] : s.valid
    <3>1. e[1] = a /\ a < a + 1
      BY <1>1
    <3> QED BY <1>1, <3>1
  <2> QED BY <2>1, <2>2
<1>7. ASSUME NEW i \in 0..(a + 1 - 1), \A e \in q \union r : e[1] # i
      PROVE  i >= Supported \/ \E s \in h.page[<<k, i>>] : ~s.valid
  <2>1. CASE i \in 0..(a - 1)
    BY <1>1, <1>7, <2>1 DEF PageReads
  <2>2. CASE i = a
    <3>1. \A e \in r : e[1] = i
      BY <1>1, <2>2
    <3>2. r = {}
      BY <1>7, <3>1
    <3> QED BY <1>1, <2>2, <3>2
  <2>3. i \in 0..(a - 1) \/ i = a
    OBVIOUS
  <2> QED BY <2>1, <2>2, <2>3
<1>8. PageReads(x, h)
  <2>1. x.at <= MaxPages /\ (x.outcome = "none" => x.at < MaxPages)
        /\ (x.outcome = "ok" => x.at = MaxPages)
    BY <1>1, <1>3, <1>5
  <2>2. \A v \in x.half : FALSE
    BY <1>3
  <2> QED BY <1>3, <1>6, <1>7, <2>1, <2>2 DEF PageReads
<1> QED BY <1>3, <1>8

LEMMA PageReadPage ==
    ASSUME Page!ConstantsOK, PageInv, Page!ReadPage
    PROVE  PageInv'
<1>1. PICK u \in PageCall : u = call
  BY DEF PageInv, PageTypes
<1>2. /\ u.what = "readAll" /\ u.outcome = "none" /\ had \in PageHistory /\ PageReads(u, had)
      /\ UNCHANGED <<page, list, had, written, calls, changes>>
  BY <1>1 DEF Page!ReadPage, Page!Goes, PageInv, PageTypes
<1>3. PICK i \in Nat, k \in Page!Kinds : i = u.at /\ k = u.kind /\ i < MaxPages
  BY <1>2 DEF PageCall, PageReads
<1>4. PICK c \in Page!Cells : c = <<k, i>>
  BY <1>3, PageCells
<1>5. PICK found : /\ found = Page!At(Page!Address(u.kind, u.at))
                   /\ found = IF i < Supported THEN {c} ELSE {}
  BY <1>3, <1>4, PagePlace
<1>6. page[c] \in had.page[c] /\ page[c] \in Page!Records /\ Supported \in Nat
  BY <1>1, <1>2, <1>3 DEF PageInv, PageHad, PageTypes, Page!ConstantsOK
<1>7. \A x \in PageCall : x.what = "readAll" => PageWrites(x, written) /\ PageAnchors(x, had)
  BY DEF PageWrites, PageAnchors
<1>8. CASE found = {} /\ Page!Onward(i, {})
  <2>0. PICK r \in SUBSET (Nat \X Page!Records) : r = {}
    OBVIOUS
  <2>1. PICK x : x = PageOn(u, r)
    OBVIOUS
  <2>2. u.at >= Supported
    BY <1>3, <1>5, <1>6, <1>8
  <2>3. x \in PageCall /\ x.what = "readAll" /\ PageReads(x, had)
    BY <1>2, <2>0, <2>1, <2>2, PageOnward
  <2>4. call' = x
    BY <1>1, <1>3, <1>8, <2>0, <2>1 DEF Page!Onward, PageOn
  <2> QED BY <1>1, <1>2, <1>7, <2>3, <2>4, PageCallMoves
<1>9. CASE found # {} /\ call' = [call EXCEPT !.half = {page[z].v : z \in found}]
  <2>1. found = {c}
    BY <1>5, <1>9
  <2>2. PICK v \in Nat : v = page[c].v
    BY <1>6 DEF Page!Records
  <2>3. {page[z].v : z \in found} = {v}
    BY <2>1, <2>2
  <2>4. PICK x : x = [u EXCEPT !.half = {v}]
    OBVIOUS
  <2>5. /\ x \in PageCall /\ x.what = "readAll" /\ x.kind = k /\ x.at = i /\ x.half = {v}
        /\ x.result = u.result /\ x.outcome = u.outcome
    BY <1>2, <1>3, <2>4 DEF PageCall
  <2>6. \E r \in had.page[<<k, i>>] : r.v = v
    BY <1>4, <1>6, <2>2
  <2>7. PageReads(x, had)
    BY <1>2, <1>3, <2>5, <2>6 DEF PageReads
  <2>8. call' = x
    BY <1>1, <1>9, <2>3, <2>4
  <2> QED BY <1>1, <1>2, <1>7, <2>5, <2>7, <2>8, PageCallMoves
<1>10. CASE /\ u.half # {}
            /\ Page!Onward(i, {<<i, [valid |-> page[z].valid, v |-> v]>> :
                                 z \in {y \in found : Page!Kept(page[y])}, v \in u.half})
  <2> DEFINE r == {<<i, [valid |-> page[z].valid, v |-> v]>> :
                      z \in {y \in found : Page!Kept(page[y])}, v \in u.half}
  <2>0. \A e \in r : \E z \in found, v \in u.half :
            page[z].valid /\ e = <<i, [valid |-> page[z].valid, v |-> v]>>
    BY DEF Page!Kept
  <2>1. ASSUME NEW z \in found, NEW v \in u.half, page[z].valid
        PROVE  <<i, [valid |-> page[z].valid, v |-> v]>> \in r
    <3> DEFINE K == {y \in found : Page!Kept(page[y])}
    <3>1. z \in K
      BY <2>1 DEF Page!Kept
    <3> DEFINE Entry(y, w) == <<i, [valid |-> page[y].valid, v |-> w]>>
    <3>2. r = {Entry(y, w) : y \in K, w \in u.half}
      OBVIOUS
    <3> HIDE DEF K, r, Entry
    <3>3. Entry(z, v) \in r
      BY <2>1, <3>1, <3>2
    <3> QED BY <3>3 DEF Entry
  <2>6. PICK x : x = PageOn(u, r)
    OBVIOUS
  <2>8. call' = x
    BY <1>1, <1>3, <1>10, <2>6 DEF Page!Onward, PageOn
  <2> HIDE DEF r
  <2>2. \A e \in r : /\ e \in Nat \X Page!Records /\ e[1] = i /\ e[2].valid
                     /\ page[c].valid /\ e[2].v \in u.half
    <3> SUFFICES ASSUME NEW e \in r
                 PROVE  /\ e \in Nat \X Page!Records /\ e[1] = i /\ e[2].valid
                        /\ page[c].valid /\ e[2].v \in u.half
      OBVIOUS
    <3>1. PICK z \in found, v \in u.half :
              page[z].valid /\ e = <<i, [valid |-> page[z].valid, v |-> v]>>
      BY <2>0
    <3>2. z = c /\ v \in Nat /\ page[c].valid \in BOOLEAN
      BY <1>5, <1>6, <3>1 DEF PageCall, Page!Records
    <3>3. PICK y \in Page!Records : y = [valid |-> page[c].valid, v |-> v]
      BY <3>2 DEF Page!Records
    <3>4. e = <<i, y>> /\ y.valid = page[c].valid /\ y.v = v
      BY <3>1, <3>2, <3>3
    <3>5. e \in Nat \X Page!Records /\ e[1] = i /\ e[2] = y
      BY <3>4
    <3>6. page[c].valid
      BY <3>1, <3>2
    <3>7. y.valid /\ y.v \in u.half
      BY <3>1, <3>4, <3>6
    <3> QED BY <3>5, <3>6, <3>7
  <2>3. \A e \in r : /\ e[1] = u.at /\ e[2].valid
                     /\ \E s \in had.page[<<u.kind, u.at>>] : s.v = e[2].v
                     /\ \E s \in had.page[<<u.kind, u.at>>] : s.valid
    <3> SUFFICES ASSUME NEW e \in r
                 PROVE  /\ \E s \in had.page[<<u.kind, u.at>>] : s.v = e[2].v
                        /\ \E s \in had.page[<<u.kind, u.at>>] : s.valid
      BY <1>3, <2>2
    <3>1. \E s \in had.page[<<u.kind, u.at>>] : s.v = e[2].v
      BY <1>2, <2>2 DEF PageReads
    <3>2. \E s \in had.page[<<u.kind, u.at>>] : s.valid
      BY <1>3, <1>4, <1>6, <2>2
    <3> QED BY <3>1, <3>2
  <2>4. r \in SUBSET (Nat \X Page!Records)
    BY <2>2
  <2>5. r = {} => u.at >= Supported \/ \E s \in had.page[<<u.kind, u.at>>] : ~s.valid
    <3> SUFFICES ASSUME r = {}, i < Supported PROVE ~page[c].valid
      BY <1>3, <1>4, <1>6
    <3>1. PICK v \in u.half : TRUE
      BY <1>10
    <3>2. page[c].valid => <<i, [valid |-> page[c].valid, v |-> v]>> \in r
      BY <1>5, <2>1
    <3> QED BY <3>2
  <2>7. x \in PageCall /\ x.what = "readAll" /\ PageReads(x, had)
    BY <1>2, <2>3, <2>4, <2>5, <2>6, PageOnward
  <2> QED BY <1>1, <1>2, <1>7, <2>7, <2>8, PageCallMoves
<1>11. CASE Page!Return("disconnected")
  BY <1>1, <1>2, <1>11, PageFails
<1> QED BY <1>1, <1>3, <1>5, <1>8, <1>9, <1>10, <1>11 DEF Page!ReadPage

\* A request of a write is carried out: it is remembered what is there now.
LEMMA PagePut ==
    ASSUME PageInv, NEW found, NEW p \in {"start", "rest"}, Page!Put(found, p),
           UNCHANGED list
    PROVE  /\ page' \in [Page!Cells -> Page!Records] /\ had' \in PageHistory
           /\ \A c \in Page!Cells : page'[c] \in had'.page[c]
           /\ (call.what # "none" => \A n \in Page!ListNames : list[n] \in had'.list[n])
           /\ written' = written \union (found \X {p})
<1>1. page \in [Page!Cells -> Page!Records] /\ calls \in Nat /\ had \in PageHistory
  BY DEF PageInv, PageTypes
<1>2. \A z \in Page!Records : Page!With(z, p) \in Page!Records
  <2> SUFFICES ASSUME NEW z \in Page!Records PROVE Page!With(z, p) \in Page!Records
    OBVIOUS
  <2>1. PICK b \in BOOLEAN, v \in Nat : z = [valid |-> b, v |-> v]
    BY DEF Page!Records
  <2>2. PICK n \in Nat : n = 100 + calls
    BY <1>1
  <2>3. p = "start" => Page!With(z, p) = [valid |-> b, v |-> n]
    BY <2>1, <2>2 DEF Page!With
  <2>4. p # "start" => Page!With(z, p) = [valid |-> TRUE, v |-> v]
    BY <2>1 DEF Page!With
  <2>5. [valid |-> b, v |-> n] \in Page!Records /\ [valid |-> TRUE, v |-> v] \in Page!Records
    BY DEF Page!Records
  <2> QED BY <2>3, <2>4, <2>5
<1>3. page' \in [Page!Cells -> Page!Records]
  BY <1>1, <1>2 DEF Page!Put
<1>4. PICK f \in [Page!Cells -> SUBSET Page!Records], g \in [Page!ListNames -> SUBSET Lists] :
          had = [page |-> f, list |-> g] /\ had.page = f /\ had.list = g
  BY <1>1 DEF PageHistory
<1>5. PICK e : e = [c \in Page!Cells |-> f[c] \union {page'[c]}]
  OBVIOUS
<1>6. e \in [Page!Cells -> SUBSET Page!Records] /\ \A c \in Page!Cells : page'[c] \in e[c]
  BY <1>3, <1>4, <1>5
<1>7. had' = [page |-> e, list |-> g]
  BY <1>4, <1>5 DEF Page!Put
<1>8. had' \in PageHistory /\ had'.page = e /\ had'.list = g
  BY <1>4, <1>6, <1>7 DEF PageHistory
<1> QED BY <1>3, <1>4, <1>6, <1>8 DEF Page!Put, PageInv, PageHad

LEMMA PageWriteMoves ==
    ASSUME PageInv, NEW x \in PageCall, call' = x, call.what = "writeAll", x.what = "writeAll",
           NEW found, NEW p \in {"start", "rest"}, Page!Put(found, p),
           UNCHANGED <<list, calls, changes>>, PageWrites(x, written \union (found \X {p}))
    PROVE  PageInv'
<1>1. PageTypes'
  BY PagePut DEF PageInv, PageTypes
<1>2. PageHad'
  BY PagePut DEF PageHad
<1>3. PageReads(x, had') /\ PageAnchors(x, had')
  BY DEF PageReads, PageAnchors
<1>4. PageWrites(x, written')
  <2>1. written' = written \union (found \X {p})
    BY PagePut
  <2> QED BY <2>1
<1> QED BY <1>1, <1>2, <1>3, <1>4 DEF PageInv

LEMMA PageWriteStart ==
    ASSUME Page!ConstantsOK, PageInv, call.what = "writeAll", call.outcome = "none",
           NEW i \in call.todo, Page!WriteStart(i), UNCHANGED <<list, calls, changes>>
    PROVE  PageInv'
<1>1. PICK u \in PageCall : u = call
  BY DEF PageInv, PageTypes
<1>2. /\ u.half = {} /\ i \in u.todo /\ i \in Nat /\ u.kind \in Page!Kinds
      /\ u.todo \subseteq u.asked /\ u.outcome = "none" /\ u.what = "writeAll"
      /\ u.asked \in SUBSET Nat
  BY <1>1 DEF Page!WriteStart, PageCall, PageInv, PageWrites
<1>3. PICK k, d : k = u.kind /\ d = u.asked \ u.todo
  OBVIOUS
<1>4. written = PageWrote(k, d, {}) /\ d \in SUBSET u.asked /\ i \notin d
  BY <1>1, <1>2, <1>3 DEF PageInv, PageWrites
<1>5. PICK found : found = Page!At(Page!Address(call.kind, i))
  OBVIOUS
<1>6. Page!ValidStation(i) => found = IF i < Supported THEN {<<k, i>>} ELSE {}
  BY <1>1, <1>2, <1>3, <1>5, PagePlace DEF Page!ValidStation
<1>7. CASE Page!Return("argument") /\ UNCHANGED <<page, had, written>>
  BY <1>1, <1>2, <1>7, PageFails
<1>8. CASE /\ Page!ValidStation(i) /\ found # {} /\ Page!Put(found, "start")
           /\ call' = [call EXCEPT !.half = {i}]
  <2>1. PICK x : x = [u EXCEPT !.half = {i}]
    OBVIOUS
  <2>2. /\ x \in PageCall /\ x.what = "writeAll" /\ x.kind = k /\ x.asked = u.asked
        /\ x.todo = u.todo /\ x.half = {i} /\ x.outcome = "none"
    BY <1>2, <1>3, <2>1 DEF PageCall
  <2>3. found = {<<k, i>>} /\ i < Supported
    BY <1>6, <1>8
  <2>4. written \union (found \X {"start"}) = PageWrote(k, d, {i})
    BY <1>4, <2>3 DEF PageWrote
  <2>5. d \cap {i} = {}
    BY <1>4
  <2>6. PageWrites(x, written \union (found \X {"start"}))
    BY <1>2, <1>3, <1>4, <2>2, <2>3, <2>4, <2>5 DEF PageWrites
  <2> QED BY <1>1, <1>2, <1>8, <2>1, <2>2, <2>6, PageWriteMoves
<1>9. CASE /\ UNCHANGED <<page, had, written>>
           /\ call' = [call EXCEPT !.todo = @ \ {i}, !.outcome = Page!Refused(i)]
  <2>1. PICK x : x = [u EXCEPT !.todo = @ \ {i}, !.outcome = "memory"]
    OBVIOUS
  <2>2. u.todo \ {i} \in SUBSET Nat
    BY DEF PageCall
  <2>3. /\ x \in PageCall /\ x.what = "writeAll" /\ x.kind = k /\ x.asked = u.asked
        /\ x.todo = u.todo \ {i} /\ x.half = {} /\ x.outcome = "memory"
    BY <1>2, <1>3, <2>1, <2>2 DEF PageCall
  <2>4. PageWrites(x, written)
    BY <1>2, <1>4, <2>3 DEF PageWrites
  <2>5. PageReads(x, had) /\ PageAnchors(x, had)
    BY <2>3 DEF PageReads, PageAnchors
  <2>6. call' = x
    BY <1>1, <1>9, <2>1 DEF Page!Refused
  <2> QED BY <1>1, <1>2, <1>9, <2>3, <2>4, <2>5, <2>6, PageCallMoves
<1> QED BY <1>5, <1>7, <1>8, <1>9 DEF Page!WriteStart

LEMMA PageWriteRest ==
    ASSUME Page!ConstantsOK, PageInv, call.what = "writeAll", call.outcome = "none",
           NEW i \in call.todo, Page!WriteRest(i), UNCHANGED <<list, calls, changes>>
    PROVE  PageInv'
<1>1. PICK u \in PageCall : u = call
  BY DEF PageInv, PageTypes
<1>2. /\ u.half = {i} /\ i \in u.todo /\ i \in Nat /\ u.kind \in Page!Kinds
      /\ u.todo \subseteq u.asked /\ u.outcome = "none" /\ u.what = "writeAll"
      /\ u.asked \in SUBSET Nat /\ i < Supported
  <2>1. u.half = {i} /\ i \in u.todo /\ u.todo \in SUBSET Nat /\ u.asked \in SUBSET Nat
        /\ u.kind \in Page!Kinds /\ u.outcome = "none" /\ u.what = "writeAll"
    BY <1>1 DEF Page!WriteRest, PageCall
  <2>2. u.todo \subseteq u.asked /\ (u.half = {} \/ \E j \in u.asked : j < Supported /\ u.half = {j})
    BY <1>1, <2>1 DEF PageInv, PageWrites
  <2> QED BY <2>1, <2>2
<1>3. PICK k, d : k = u.kind /\ d = u.asked \ u.todo
  OBVIOUS
<1>4. written = PageWrote(k, d, {i}) /\ d \in SUBSET u.asked /\ i \notin d
  BY <1>1, <1>2, <1>3 DEF PageInv, PageWrites
<1>5. Page!At(Page!Address(call.kind, i)) = {<<k, i>>}
  <2>1. i < MaxPages
    BY <1>2 DEF Page!ConstantsOK
  <2> QED BY <1>1, <1>2, <1>3, <2>1, PagePlace
<1>6. PICK o \in {"ok", "none"} : o = IF u.todo = {i} THEN "ok" ELSE "none"
  OBVIOUS
<1>7. PICK x : x = [u EXCEPT !.todo = @ \ {i}, !.half = {}, !.outcome = o]
  OBVIOUS
<1>8. u.todo \ {i} \in SUBSET Nat
  BY DEF PageCall
<1>9. /\ x \in PageCall /\ x.what = "writeAll" /\ x.kind = k /\ x.asked = u.asked
      /\ x.todo = u.todo \ {i} /\ x.half = {} /\ x.outcome = o
  BY <1>2, <1>3, <1>7, <1>8 DEF PageCall
<1>10. written \union ({<<k, i>>} \X {"rest"}) = PageWrote(k, d \union {i}, {})
  BY <1>4 DEF PageWrote
<1>11. d \union {i} = u.asked \ (u.todo \ {i}) /\ d \union {i} \in SUBSET u.asked
  BY <1>2, <1>3
<1>12. o = "ok" => u.todo \ {i} = {}
  BY <1>6
<1>13. PageWrites(x, written \union ({<<k, i>>} \X {"rest"}))
  BY <1>2, <1>9, <1>10, <1>11, <1>12 DEF PageWrites
<1>14. call' = x /\ Page!Put({<<k, i>>}, "rest")
  BY <1>1, <1>5, <1>6, <1>7 DEF Page!WriteRest
<1> QED BY <1>1, <1>2, <1>9, <1>13, <1>14, PageWriteMoves

LEMMA PageWritePage ==
    ASSUME Page!ConstantsOK, PageInv, Page!WritePage
    PROVE  PageInv'
<1>1. call.what = "writeAll" /\ call.outcome = "none" /\ UNCHANGED <<list, calls, changes>>
  BY DEF Page!WritePage, Page!Goes
<1>2. CASE \E i \in call.todo : Page!WriteStart(i) \/ Page!WriteRest(i)
  BY <1>1, <1>2, PageWriteStart, PageWriteRest
<1>3. CASE Page!Return("disconnected") /\ UNCHANGED <<page, had, written>>
  BY <1>1, <1>3, PageFails
<1> QED BY <1>2, <1>3 DEF Page!WritePage

\* The lists of a snapshot.
LEMMA PageReadList ==
    ASSUME Page!ConstantsOK, PageInv,
           Page!ReadList("ids", "active") \/ Page!ReadList("active", "anchors")
    PROVE  PageInv'
<1>1. PICK u \in PageCall : u = call
  BY DEF PageInv, PageTypes
<1>2. UNCHANGED <<page, list, had, written, calls, changes>> /\ u.outcome = "none"
      /\ u.what \in {"ids", "active"}
  BY <1>1 DEF Page!ReadList, Page!Goes
<1>3. \A n \in Page!ListNames : list[n] \in Seq(Nat) /\ list[n] \in had.list[n]
  BY <1>1, <1>2 DEF PageInv, PageTypes, PageHad, Page!ConstantsOK
<1>4. u.result = {} /\ (u.what = "active" => u.ids \in had.list["ids"]) /\ u.ids \in Seq(Nat)
  BY <1>1, <1>2 DEF PageInv, PageAnchors, PageCall
<1>5. \A o \in {"memory", "disconnected"} : Page!Return(o) => PageInv'
  BY <1>1, <1>2, PageFails
<1>6. CASE /\ u.what = "ids"
           /\ call' = [call EXCEPT !["ids"] = list["ids"], !.what = "active", !.at = 1,
                                   !.outcome = "none"]
  <2>1. PICK l \in Seq(Nat) : l = list["ids"] /\ l \in had.list["ids"]
    BY <1>3 DEF Page!ListNames
  <2>2. PICK x : x = [u EXCEPT !.ids = l, !.what = "active", !.at = 1, !.outcome = "none"]
    OBVIOUS
  <2>3. /\ x \in PageCall /\ x.what = "active" /\ x.ids = l /\ x.result = {}
        /\ x.outcome = "none"
    BY <1>4, <2>2 DEF PageCall
  <2>4. call' = x
    BY <1>1, <1>6, <2>1, <2>2
  <2>5. PageReads(x, had) /\ PageWrites(x, written) /\ PageAnchors(x, had)
    BY <2>1, <2>3 DEF PageReads, PageWrites, PageAnchors
  <2> QED BY <1>1, <1>2, <2>3, <2>4, <2>5, PageCallMoves
<1>7. CASE /\ u.what = "active"
           /\ call' = [call EXCEPT !["active"] = list["active"], !.what = "anchors", !.at = 1,
                                   !.outcome = IF call.ids = <<>> THEN "ok" ELSE "none"]
  <2>1. PICK l \in Seq(Nat) : l = list["active"] /\ l \in had.list["active"]
    BY <1>3 DEF Page!ListNames
  <2>2. PICK o \in {"ok", "none"} : o = IF u.ids = <<>> THEN "ok" ELSE "none"
    OBVIOUS
  <2>3. PICK x : x = [u EXCEPT !.active = l, !.what = "anchors", !.at = 1, !.outcome = o]
    OBVIOUS
  <2>4. /\ x \in PageCall /\ x.what = "anchors" /\ x.ids = u.ids /\ x.active = l /\ x.at = 1
        /\ x.result = {} /\ x.outcome = o
    BY <1>4, <2>3 DEF PageCall
  <2>5. call' = x
    BY <1>1, <1>7, <2>1, <2>2, <2>3
  <2>6. PICK n \in Nat : n = Len(u.ids) /\ (u.ids = <<>> <=> n = 0)
    BY <1>4, LenProperties, EmptySeq
  <2>7. PageAnchors(x, had)
    <3>1. 1 \in 1..(n + 1) /\ (o = "none" => 1 <= n) /\ (o = "ok" => 1 = n + 1) /\ 1..(1 - 1) = {}
      BY <2>2, <2>6
    <3>2. \A e \in x.result : FALSE
      BY <2>4
    <3>3. \A j \in 1..(x.at - 1) : FALSE
      BY <2>4, <3>1
    <3> QED BY <1>4, <1>7, <2>1, <2>4, <2>6, <3>1, <3>2, <3>3 DEF PageAnchors
  <2>8. PageReads(x, had) /\ PageWrites(x, written)
    BY <2>4 DEF PageReads, PageWrites
  <2> QED BY <1>1, <1>2, <2>4, <2>5, <2>7, <2>8, PageCallMoves
<1> QED BY <1>1, <1>5, <1>6, <1>7 DEF Page!ReadList

\* An anchor more of a snapshot.
LEMMA PageReadAnchor ==
    ASSUME Page!ConstantsOK, PageInv, Page!ReadAnchor
    PROVE  PageInv'
<1>1. PICK u \in PageCall : u = call
  BY DEF PageInv, PageTypes
<1>2. /\ UNCHANGED <<page, list, had, written, calls, changes>> /\ u.outcome = "none"
      /\ u.what = "anchors" /\ had \in PageHistory /\ PageAnchors(u, had)
  BY <1>1 DEF Page!ReadAnchor, Page!Goes, PageInv, PageTypes
<1>3. PICK a \in Nat, s \in Seq(Nat), n \in Nat, q \in SUBSET (Nat \X Page!Records) :
          a = u.at /\ s = u.ids /\ n = Len(s) /\ q = u.result
  BY LenProperties DEF PageCall
<1>4. a \in 1..n /\ s[a] \in Nat
  <2>1. a \in 1..n
    BY <1>2, <1>3 DEF PageAnchors
  <2> QED BY <1>3, <2>1, QueueFacts
<1>5. PICK i \in Nat : i = s[a]
  BY <1>4
<1>6. \A o \in {"memory", "disconnected"} : Page!Return(o) => PageInv'
  BY <1>1, <1>2, PageFails
<1>7. CASE /\ i < MaxPages /\ i < Supported
           /\ call' = [call EXCEPT
                 !.result = {e \in @ : e[1] # i} \union
                            {<<i, page[c]>> : c \in Page!At(Page!Address("anchor", i))},
                 !.at = @ + 1,
                 !.outcome = IF call.at = Len(call.ids) THEN "ok" ELSE "none"]
  <2>1. PICK c \in Page!Cells : c = <<"anchor", i>>
    BY <1>7, PageCells DEF Page!Kinds
  <2>2. Page!At(Page!Address("anchor", i)) = {c}
    BY <1>7, <2>1, PagePlace DEF Page!Kinds
  <2>3. PICK z \in Page!Records : z = page[c] /\ z \in had.page[c]
    BY <1>1, <1>2 DEF PageInv, PageTypes, PageHad
  <2>4. PICK o \in {"ok", "none"} : o = IF a = n THEN "ok" ELSE "none"
    OBVIOUS
  <2>5. PICK t \in SUBSET (Nat \X Page!Records) : t = {e \in q : e[1] # i} \union {<<i, z>>}
    <3>1. <<i, z>> \in Nat \X Page!Records
      OBVIOUS
    <3>2. {e \in q : e[1] # i} \union {<<i, z>>} \in SUBSET (Nat \X Page!Records)
      BY <3>1
    <3> QED BY <3>2
  <2>6. PICK x : x = [u EXCEPT !.result = t, !.at = a + 1, !.outcome = o]
    OBVIOUS
  <2>7. /\ x \in PageCall /\ x.what = "anchors" /\ x.ids = s /\ x.active = u.active
        /\ x.at = a + 1 /\ x.result = t /\ x.outcome = o
    <3>1. a + 1 \in Nat
      OBVIOUS
    <3> QED BY <1>2, <1>3, <2>6, <3>1 DEF PageCall
  <2>8. call' = x
    <3>1. {<<i, page[y]>> : y \in Page!At(Page!Address("anchor", i))} = {<<i, z>>}
      BY <2>2, <2>3
    <3> QED BY <1>1, <1>3, <1>7, <2>4, <2>5, <2>6, <3>1
  <2>9. /\ a + 1 \in 1..(n + 1) /\ (o = "none" => a + 1 <= n) /\ (o = "ok" => a + 1 = n + 1)
        /\ a + 1 - 1 = a
    BY <1>4, <2>4
  <2>10. /\ u.ids \in had.list["ids"] /\ u.active \in had.list["active"]
         /\ \A k \in 1..(a - 1) : \E e \in q : e[1] = s[k]
         /\ \A e \in q : /\ \E k \in 1..(a - 1) : e[1] = s[k]
                         /\ e[1] < MaxPages /\ e[2] \in had.page[<<"anchor", e[1]>>]
    BY <1>2, <1>3 DEF PageAnchors
  <2>11. \A k \in 1..a : \E e \in t : e[1] = s[k]
    <3> SUFFICES ASSUME NEW k \in 1..a PROVE \E e \in t : e[1] = s[k]
      OBVIOUS
    <3>1. CASE s[k] = i
      <4>1. <<i, z>> \in t /\ <<i, z>>[1] = i
        BY <2>5
      <4> QED BY <3>1, <4>1
    <3>2. CASE s[k] # i
      <4>1. k # a
        BY <1>5, <3>2
      <4>2. k \in 1..(a - 1)
        BY <4>1
      <4>3. PICK e \in q : e[1] = s[k]
        BY <2>10, <4>2
      <4> QED BY <2>5, <3>2, <4>3
    <3> QED BY <3>1, <3>2
  <2>12. ASSUME NEW e \in t
         PROVE  /\ \E k \in 1..a : e[1] = s[k]
                /\ e[1] < MaxPages /\ e[2] \in had.page[<<"anchor", e[1]>>]
    <3>1. CASE e \in q
      <4>1. PICK k \in 1..(a - 1) : e[1] = s[k]
        BY <2>10, <3>1
      <4>2. k \in 1..a
        OBVIOUS
      <4> QED BY <2>10, <3>1, <4>1, <4>2
    <3>2. CASE e = <<i, z>>
      <4>1. e[1] = i /\ e[2] = z /\ a \in 1..a
        BY <1>4, <3>2
      <4> QED BY <1>5, <1>7, <2>1, <2>3, <4>1
    <3> QED BY <2>5, <3>1, <3>2
  <2>13. PageAnchors(x, had)
    BY <1>3, <2>7, <2>9, <2>10, <2>11, <2>12 DEF PageAnchors
  <2>14. PageReads(x, had) /\ PageWrites(x, written)
    BY <2>7 DEF PageReads, PageWrites
  <2> QED BY <1>1, <1>2, <2>7, <2>8, <2>13, <2>14, PageCallMoves
<1>8. Page!ValidStation(i) /\ Page!At(Page!Address("anchor", i)) # {} => i < MaxPages /\ i < Supported
  BY PagePlace DEF Page!ValidStation, Page!Kinds
<1>9. i = call.ids[call.at]
  BY <1>1, <1>3, <1>5
<1>10. PICK found : found = IF Page!ValidStation(i) THEN Page!At(Page!Address("anchor", i)) ELSE {}
  OBVIOUS
<1>11. \/ /\ found # {}
          /\ call' = [call EXCEPT
                !.result = {e \in @ : e[1] # i} \union {<<i, page[c]>> : c \in found},
                !.at = @ + 1,
                !.outcome = IF call.at = Len(call.ids) THEN "ok" ELSE "none"]
       \/ Page!Return("memory") \/ Page!Return("disconnected")
  BY <1>9, <1>10 DEF Page!ReadAnchor, Page!AnchorRefused
<1> QED BY <1>6, <1>7, <1>8, <1>10, <1>11

-----------------------------------------------------------------------------
(* Pages: every step *)

\* What the Crazyflie does on its own is remembered.
LEMMA PageChanges ==
    ASSUME Page!ConstantsOK, PageInv,
           \/ \E c \in Page!Cells, valid \in BOOLEAN : Page!Estimate(c, valid)
           \/ \E n \in Page!ListNames, l \in Lists : Page!Reconfigure(n, l)
    PROVE  PageInv'
<1>1. /\ page \in [Page!Cells -> Page!Records] /\ list \in [Page!ListNames -> Lists]
      /\ had \in PageHistory /\ changes \in Nat /\ call \in PageCall
  BY DEF PageInv, PageTypes
<1>2. PICK f \in [Page!Cells -> SUBSET Page!Records], g \in [Page!ListNames -> SUBSET Lists] :
          had = [page |-> f, list |-> g] /\ had.page = f /\ had.list = g
  BY <1>1 DEF PageHistory
<1>3. /\ UNCHANGED <<call, written, calls>> /\ changes' = changes + 1 /\ call.what # "none"
  BY DEF Page!Estimate, Page!Reconfigure, Page!Idle
<1>4. /\ \A c \in Page!Cells : page[c] \in f[c]
      /\ \A n \in Page!ListNames : list[n] \in g[n]
  BY <1>2, <1>3 DEF PageInv, PageHad
<1>5. ASSUME NEW c \in Page!Cells, NEW valid \in BOOLEAN, Page!Estimate(c, valid)
      PROVE  /\ page' \in [Page!Cells -> Page!Records] /\ list' \in [Page!ListNames -> Lists]
             /\ had' \in PageHistory /\ PageGrows(had, had') /\ PageHad'
  <2>1. PICK z \in Page!Records : z = [valid |-> valid, v |-> changes + 1]
    <3>1. changes + 1 \in Nat
      BY <1>1
    <3>2. [valid |-> valid, v |-> changes + 1] \in Page!Records
      BY <3>1 DEF Page!Records
    <3> QED BY <3>2
  <2>2. page' = [page EXCEPT ![c] = z] /\ list' = list
    BY <1>5, <2>1 DEF Page!Estimate
  <2>3. page' \in [Page!Cells -> Page!Records] /\ page'[c] = z
        /\ \A y \in Page!Cells \ {c} : page'[y] = page[y]
    BY <1>1, <2>2
  <2>4. PICK e : e = [f EXCEPT ![c] = f[c] \union {z}]
    OBVIOUS
  <2>5. /\ e \in [Page!Cells -> SUBSET Page!Records] /\ e[c] = f[c] \union {z}
        /\ \A y \in Page!Cells \ {c} : e[y] = f[y]
    BY <2>4
  <2>6. had' = [page |-> e, list |-> g]
    <3>1. had' = [had EXCEPT !.page[c] = had.page[c] \union {z}]
      BY <1>5, <2>3 DEF Page!Estimate
    <3> QED BY <1>2, <2>4, <3>1
  <2>7. had' \in PageHistory /\ had'.page = e /\ had'.list = g
    BY <2>5, <2>6 DEF PageHistory
  <2>8. PageGrows(had, had')
    BY <1>2, <2>5, <2>7 DEF PageGrows
  <2>9. PageHad'
    BY <1>3, <1>4, <2>2, <2>3, <2>5, <2>7 DEF PageHad
  <2> QED BY <1>1, <2>2, <2>3, <2>7, <2>8, <2>9
<1>6. ASSUME NEW n \in Page!ListNames, NEW l \in Lists, Page!Reconfigure(n, l)
      PROVE  /\ page' \in [Page!Cells -> Page!Records] /\ list' \in [Page!ListNames -> Lists]
             /\ had' \in PageHistory /\ PageGrows(had, had') /\ PageHad'
  <2>1. page' = page /\ list' = [list EXCEPT ![n] = l]
    BY <1>6 DEF Page!Reconfigure
  <2>2. list' \in [Page!ListNames -> Lists] /\ list'[n] = l
        /\ \A m \in Page!ListNames \ {n} : list'[m] = list[m]
    BY <1>1, <2>1
  <2>3. PICK e : e = [g EXCEPT ![n] = g[n] \union {l}]
    OBVIOUS
  <2>4. /\ e \in [Page!ListNames -> SUBSET Lists] /\ e[n] = g[n] \union {l}
        /\ \A m \in Page!ListNames \ {n} : e[m] = g[m]
    BY <2>3
  <2>5. had' = [page |-> f, list |-> e]
    BY <1>2, <1>6, <2>3 DEF Page!Reconfigure
  <2>6. had' \in PageHistory /\ had'.page = f /\ had'.list = e
    BY <2>4, <2>5 DEF PageHistory
  <2>7. PageGrows(had, had')
    BY <1>2, <2>4, <2>6 DEF PageGrows
  <2>8. PageHad'
    BY <1>3, <1>4, <2>1, <2>2, <2>4, <2>6 DEF PageHad
  <2> QED BY <1>1, <2>1, <2>2, <2>6, <2>7, <2>8
<1>7. /\ page' \in [Page!Cells -> Page!Records] /\ list' \in [Page!ListNames -> Lists]
      /\ had' \in PageHistory /\ PageGrows(had, had') /\ PageHad'
  BY <1>5, <1>6
<1>8. PageTypes'
  BY <1>1, <1>3, <1>7 DEF PageInv, PageTypes
<1>9. PageReads(call, had') /\ PageAnchors(call, had')
  BY <1>1, <1>7, PageMore DEF PageInv
<1> QED BY <1>3, <1>7, <1>8, <1>9 DEF PageInv

LEMMA PageNext ==
    ASSUME Page!ConstantsOK, PageInv, [Page!Next]_Page!vars
    PROVE  PageInv'
<1>1. CASE UNCHANGED Page!vars \/ Page!Lose
  <2>1. UNCHANGED <<page, list, call, had, written, calls, changes>>
    BY <1>1 DEF Page!vars, Page!Lose
  <2>2. PageTypes' /\ PageHad'
    BY <2>1 DEF PageInv, PageTypes, PageHad
  <2> QED BY <2>1, <2>2 DEF PageInv
<1>2. CASE Page!Done
  <2>1. call' = Page!NoCall /\ UNCHANGED <<page, list, had, written, reachable, calls, changes>>
    BY <1>2 DEF Page!Done
  <2>2. Page!NoCall \in PageCall /\ Page!NoCall.what = "none"
    BY EmptyFacts DEF Page!NoCall, PageCall, Page!Kinds
  <2>3. PageTypes' /\ PageHad'
    BY <2>1, <2>2 DEF PageInv, PageTypes, PageHad
  <2>4. /\ PageReads(Page!NoCall, had) /\ PageWrites(Page!NoCall, written)
        /\ PageAnchors(Page!NoCall, had)
    BY <2>2 DEF PageReads, PageWrites, PageAnchors
  <2> QED BY <2>1, <2>3, <2>4 DEF PageInv
<1> QED BY <1>1, <1>2, PageStarts, PageReadPage, PageWritePage, PageReadList, PageReadAnchor,
           PageChanges DEF Page!Next

\* A read of all pages has those that were valid, with what they held during the
\* call; a write of several writes those of its base stations and no other, all
\* of them when it succeeds, and leaves at most one half written; a snapshot has
\* the anchors of its list: for any number of pages, lists and changes the
\* Crazyflie makes meanwhile (PagesRight; lighthouse.rs:363 and 440, loco2.rs:122).
THEOREM PagesAreRight ==
    Page!ConstantsOK => (Page!Spec => []PagesRight)
<1> SUFFICES ASSUME Page!ConstantsOK PROVE Page!Spec => []PagesRight
  OBVIOUS
<1>1. Page!Init => PageInv
  BY PageInit
<1>2. PageInv /\ [Page!Next]_Page!vars => PageInv'
  BY PageNext
<1>3. PageInv => PagesRight
  <2> SUFFICES ASSUME PageInv PROVE Page!PagesRight
    BY DEF PagesRight
  <2>1. call \in PageCall
    BY DEF PageInv, PageTypes
  <2>2. Page!ReadAllRight
    <3> SUFFICES ASSUME call.what = "readAll", call.outcome = "ok", NEW i \in 0..(MaxPages - 1)
                 PROVE  LET seen == had.page[<<call.kind, i>>] IN
                        /\ \A e \in call.result : e[1] = i =>
                              /\ \E r \in seen : r.v = e[2].v
                              /\ e[2].valid /\ \E r \in seen : r.valid
                        /\ i \notin Page!Result => i >= Supported \/ \E r \in seen : ~r.valid
      BY DEF Page!ReadAllRight
    <3>1. call.at = MaxPages
      BY DEF PageInv, PageReads
    <3>2. i \notin Page!Result => \A e \in call.result : e[1] # i
      BY DEF Page!Result
    <3> QED BY <3>1, <3>2 DEF PageInv, PageReads
  <2>3. Page!WriteAllRight
    <3> SUFFICES ASSUME call.what = "writeAll"
                 PROVE  LET whole == ({call.kind} \X call.asked) \X {"start", "rest"}
                            halves == {w \in written : <<w[1], "rest">> \notin written}
                        IN  /\ written \subseteq whole
                            /\ call.outcome = "ok" => written = whole
                            /\ Page!Cardinality(halves) <= 1
      BY DEF Page!WriteAllRight
    <3>1. PICK k, a, h, d : /\ k = call.kind /\ a = call.asked /\ h = call.half
                            /\ d \subseteq a /\ d \cap h = {} /\ written = PageWrote(k, d, h)
                            /\ (call.outcome = "ok" => d = a /\ h = {})
                            /\ (h = {} \/ \E i \in a : h = {i})
      BY DEF PageInv, PageWrites
    <3>2. written \subseteq ({k} \X a) \X {"start", "rest"}
      BY <3>1 DEF PageWrote
    <3>3. call.outcome = "ok" => written = ({k} \X a) \X {"start", "rest"}
      BY <3>1 DEF PageWrote
    <3> DEFINE halves == {w \in written : <<w[1], "rest">> \notin written}
    <3>4. halves = ({k} \X h) \X {"start"}
      BY <3>1 DEF PageWrote
    <3> HIDE DEF halves
    <3>5. Cardinality(halves) <= 1
      <4>1. CASE h = {}
        <5>1. halves = {}
          BY <3>4, <4>1
        <5> QED BY <5>1, FS_EmptySet
      <4>2. CASE \E i \in a : h = {i}
        <5>1. PICK i \in a : h = {i}
          BY <4>2
        <5>2. halves = {<<<<k, i>>, "start">>}
          BY <3>4, <5>1
        <5>3. PICK w : w = <<<<k, i>>, "start">>
          OBVIOUS
        <5>4. halves = {w} /\ Cardinality({w}) = 1
          BY <5>2, <5>3, FS_Singleton
        <5> QED BY <5>4
      <4> QED BY <3>1, <4>1, <4>2
    <3>6. Page!Cardinality(halves) <= 1
      BY <3>5, PageCard
    <3> QED BY <3>1, <3>2, <3>3, <3>6 DEF halves
  <2>4. Page!AnchorsRight
    <3> SUFFICES ASSUME call.what = "anchors", call.outcome = "ok"
                 PROVE  /\ Page!Result = Page!Range(call.ids)
                        /\ \A e \in call.result : e[2] \in had.page[<<"anchor", e[1]>>]
                        /\ call.ids \in had.list.ids /\ call.active \in had.list.active
      BY DEF Page!AnchorsRight
    <3>1. PICK s \in Seq(Nat), n \in Nat : s = call.ids /\ n = Len(s) /\ DOMAIN s = 1..n
      BY <2>1, LenProperties DEF PageCall
    <3>2. call.at = n + 1 /\ n + 1 - 1 = n
      BY <3>1 DEF PageInv, PageAnchors
    <3>3. /\ \A k \in 1..n : \E e \in call.result : e[1] = s[k]
          /\ \A e \in call.result : \E k \in 1..n : e[1] = s[k]
      <4>1. /\ \A k \in 1..(call.at - 1) : \E e \in call.result : e[1] = call.ids[k]
            /\ \A e \in call.result : \E k \in 1..(call.at - 1) : e[1] = call.ids[k]
        BY DEF PageInv, PageAnchors
      <4> QED BY <3>1, <3>2, <4>1
    <3>4. Page!Result = Page!Range(call.ids)
      <4>1. Page!Range(s) = {s[k] : k \in 1..n}
        BY <3>1 DEF Page!Range
      <4>2. {e[1] : e \in call.result} = {s[k] : k \in 1..n}
        <5>1. \A v : (\E e \in call.result : v = e[1]) <=> (\E k \in 1..n : v = s[k])
          BY <3>3
        <5> QED BY <5>1
      <4> QED BY <3>1, <4>1, <4>2 DEF Page!Result
    <3>5. had.list.ids = had.list["ids"] /\ had.list.active = had.list["active"]
      OBVIOUS
    <3> QED BY <3>4, <3>5 DEF PageInv, PageAnchors
  <2> QED BY <2>2, <2>3, <2>4 DEF Page!PagesRight
<1> QED BY <1>1, <1>2, <1>3, PTL DEF Page!Spec

-----------------------------------------------------------------------------
(* Deck: the types *)

\* A deck, a section, and a call of a task.
DeckInfo == [flags : SUBSET Decks!Flags, base : Nat]
DeckSection == [flags : SUBSET Decks!Flags, base : Nat, command : Nat, info : Nat]
DeckUse == [what : Decks!Calls \union {"none"}, stage : {"idle", "lock", "busy", "sleep"},
            k : Nat, offset : 0..Decks!LastOffset, saw : SUBSET BOOLEAN, flag : BOOLEAN,
            outcome : {"none", "ok", "memory", "disconnected"}]

\* The types of all but the history, and of that.
DeckTypes ==
    /\ deck \in DeckSets /\ deck \in [Decks!Slots -> DeckInfo] /\ boots \in [Decks!Slots -> BOOLEAN]
    /\ slot \in 0..MaxSections /\ opening \in {"version", "sections", "ready", "failed"}
    /\ sections \in Seq(DeckSection)
    /\ backend \in Clients \union {NoOne}
    /\ use \in [Clients -> DeckUse]
    /\ uses \in 0..MaxUses /\ flips \in 0..MaxFlips

\* While there are slots to look at there is a next one.
Looking == opening \in {"version", "sections"} => slot \in Decks!Slots

LEMMA DeckInitTypes == ASSUME Decks!ConstantsOK, Decks!Init PROVE DeckTypes /\ Looking
<1>1. Decks!NoUse \in DeckUse
  BY DEF Decks!NoUse, DeckUse, Decks!LastOffset
<1>2. deck \in [Decks!Slots -> DeckInfo]
  BY DEF Decks!Init, Decks!ConstantsOK, DeckInfo
<1> QED BY <1>1, <1>2, EmptyFacts DEF Decks!Init, Decks!ConstantsOK, DeckTypes, Looking, Decks!Slots

\* The infos of two slots are at two addresses, and so are their commands.
LEMMA DeckAddresses ==
    ASSUME NEW i \in Decks!Slots
    PROVE  /\ Decks!FwInfo(Decks!InfoAddress(i)) = {i}
           /\ Decks!FwCommand(Decks!CommandAddress(i) + Decks!CommandBits) = {i}
           /\ Decks!InfoAddress(i) \in Nat /\ Decks!CommandAddress(i) \in Nat
  BY DEF Decks!FwInfo, Decks!InfoAddress, Decks!FwCommand, Decks!CommandAddress,
         Decks!CommandBits, Decks!Slots

\* The section that is made of a slot.
SectionAt(d, i) ==
    [flags |-> d[i].flags, base |-> d[i].base, command |-> Decks!CommandAddress(i),
     info |-> Decks!InfoAddress(i)]

LEMMA DeckReads ==
    ASSUME Decks!ConstantsOK, DeckTypes, Looking, Decks!ReadSection, opening' # "failed"
    PROVE  /\ slot \in Decks!Slots /\ slot' = slot + 1
           /\ opening' \in {"sections", "ready"} /\ (opening' = "sections" => slot' \in Decks!Slots)
           /\ SectionAt(deck, slot) \in DeckSection
           /\ sections' = IF "valid" \notin deck[slot].flags THEN sections
                          ELSE Append(sections, SectionAt(deck, slot))
<1>1. slot \in Decks!Slots /\ slot \in Nat /\ MaxSections \in Nat
  BY DEF Decks!ReadSection, Looking, Decks!Slots, Decks!ConstantsOK
<1>2. (CHOOSE i \in Decks!FwInfo(Decks!InfoAddress(slot)) : TRUE) = slot
  BY <1>1, DeckAddresses
<1>3. deck[slot] \in DeckInfo
  BY <1>1 DEF DeckTypes
<1>4. SectionAt(deck, slot) \in DeckSection
  BY <1>1, <1>3, DeckAddresses DEF SectionAt, DeckInfo, DeckSection
<1>5. slot' = slot + 1 /\ opening' = IF slot + 1 = MaxSections THEN "ready" ELSE "sections"
  BY DEF Decks!ReadSection
<1>6. sections' = IF "valid" \notin deck[slot].flags THEN sections
                  ELSE Append(sections, SectionAt(deck, slot))
  BY <1>2 DEF Decks!ReadSection, SectionAt, Decks!Cached
<1>7. opening' = "sections" => slot' \in Decks!Slots
  BY <1>1, <1>5 DEF Decks!Slots
<1> QED BY <1>1, <1>4, <1>5, <1>6, <1>7

\* The end of a request, for its task and for the others.
LEMMA DeckEnds ==
    ASSUME DeckTypes, NEW t \in Clients, NEW o \in {"ok", "disconnected"}, NEW f \in BOOLEAN,
           Decks!End(t, o, f)
    PROVE  /\ use' \in [Clients -> DeckUse] /\ backend' = NoOne
           /\ use'[t] = [use[t] EXCEPT !.stage = IF o = "ok" /\ use[t].what \in Decks!Resets
                                                 THEN "sleep" ELSE "idle",
                                       !.outcome = o, !.flag = f]
           /\ \A s \in Clients \ {t} : use'[s] = use[s]
<1>1. PICK st \in {"sleep", "idle"} :
          st = IF o = "ok" /\ use[t].what \in Decks!Resets THEN "sleep" ELSE "idle"
  OBVIOUS
<1>2. PICK u \in DeckUse : u = use[t]
  BY DEF DeckTypes
<1>3. PICK x : x = [u EXCEPT !.stage = st, !.outcome = o, !.flag = f]
  OBVIOUS
<1>4. x \in DeckUse
  BY <1>2, <1>3 DEF DeckUse
<1>5. use' = [use EXCEPT ![t] = x] /\ backend' = NoOne
  BY <1>1, <1>2, <1>3 DEF Decks!End
<1>6. use' \in [Clients -> DeckUse] /\ use'[t] = x /\ \A s \in Clients \ {t} : use'[s] = use[s]
  BY <1>4, <1>5 DEF DeckTypes
<1> QED BY <1>1, <1>2, <1>3, <1>5, <1>6

-----------------------------------------------------------------------------
(* Deck: the sections and their slots *)

Present(d, i) == "valid" \in d[i].flags
Before(d, n) == {j \in Decks!Slots : j < n /\ Present(d, j)}

LEMMA BeforeFinite ==
    ASSUME Decks!ConstantsOK, NEW d, NEW n
    PROVE  IsFiniteSet(Before(d, n)) /\ Cardinality(Before(d, n)) \in Nat
<1>1. IsFiniteSet(Decks!Slots)
  BY FS_Interval DEF Decks!Slots, Decks!ConstantsOK
<1>2. Before(d, n) \in SUBSET Decks!Slots
  BY DEF Before
<1> QED BY <1>1, <1>2, FS_Subset, FS_CardinalityType

\* One slot further there is one deck more, or none.
LEMMA BeforeNext ==
    ASSUME Decks!ConstantsOK, NEW d, NEW n \in Decks!Slots
    PROVE  Cardinality(Before(d, n + 1)) = IF Present(d, n) THEN Cardinality(Before(d, n)) + 1
                                           ELSE Cardinality(Before(d, n))
<1>1. CASE Present(d, n)
  <2>1. Before(d, n + 1) = Before(d, n) \union {n} /\ n \notin Before(d, n)
    BY <1>1 DEF Before, Decks!Slots
  <2> QED BY <1>1, <2>1, BeforeFinite, FS_AddElement
<1>2. CASE ~Present(d, n)
  <2>1. Before(d, n + 1) = Before(d, n)
    BY <1>2 DEF Before, Decks!Slots
  <2> QED BY <1>2, <2>1
<1> QED BY <1>1, <1>2

\* No two decks have the same number of decks before them.
LEMMA BeforeUnique ==
    ASSUME Decks!ConstantsOK, NEW d, NEW i \in Decks!Slots, NEW j \in Decks!Slots,
           Present(d, i), Present(d, j), Cardinality(Before(d, i)) = Cardinality(Before(d, j))
    PROVE  i = j
<1>1. ASSUME NEW a \in Decks!Slots, NEW b \in Decks!Slots, Present(d, a), a < b
      PROVE  Cardinality(Before(d, a)) < Cardinality(Before(d, b))
  <2>1. Before(d, a) \union {a} \in SUBSET Before(d, b) /\ a \notin Before(d, a)
    BY <1>1 DEF Before, Decks!Slots
  <2>2. Cardinality(Before(d, a) \union {a}) = Cardinality(Before(d, a)) + 1
    BY <2>1, BeforeFinite, FS_AddElement
  <2>3. Cardinality(Before(d, a) \union {a}) <= Cardinality(Before(d, b))
    BY <2>1, BeforeFinite, FS_Subset
  <2> QED BY <2>2, <2>3, BeforeFinite
<1>2. ~(i < j) /\ ~(j < i)
  BY <1>1, BeforeFinite
<1> QED BY <1>2 DEF Decks!Slots

\* There is a section for each deck that was found, in the order of the slots.
Found ==
    /\ Len(sections) = Cardinality(Before(deck, slot))
    /\ \A k \in 1..Len(sections) : \E i \in Decks!Slots :
          /\ Present(deck, i) /\ Cardinality(Before(deck, i)) = k - 1
          /\ sections[k] = SectionAt(deck, i)

LEMMA DeckCard == ASSUME NEW S PROVE Decks!Cardinality(S) = Cardinality(S)
  BY DEF Decks!Cardinality, Cardinality

\* SlotOf and Asks, with the decks as an argument.
SlotIn(d, k) == CHOOSE i \in Decks!Slots : Present(d, i) /\ Cardinality(Before(d, i)) = k - 1
AsksIn(d, w, k, offset) ==
    CASE w = "write" -> {<<SlotIn(d, k), w, offset>>}
      [] w = "reset_to_bootloader" -> {<<SlotIn(d, k), w, Decks!ResetToBootloader>>}
      [] w = "reset_to_firmware" -> {<<SlotIn(d, k), w, Decks!ResetToFirmware>>}
      [] OTHER -> {}

LEMMA DeckSlotOf ==
    ASSUME NEW w, NEW k, NEW offset
    PROVE  Decks!SlotOf(k) = SlotIn(deck, k) /\ Decks!Asks(w, k, offset) = AsksIn(deck, w, k, offset)
<1>1. Decks!SlotOf(k) = SlotIn(deck, k)
  BY DeckCard DEF Decks!SlotOf, SlotIn, Present, Before
<1> QED BY <1>1 DEF Decks!Asks, AsksIn

\* The slot of a section is the one it was made of.
LEMMA DeckSlots ==
    ASSUME Decks!ConstantsOK, Found, NEW k \in 1..Len(sections)
    PROVE  /\ SlotIn(deck, k) \in Decks!Slots /\ Present(deck, SlotIn(deck, k))
           /\ sections[k] = SectionAt(deck, SlotIn(deck, k))
<1>1. PICK i \in Decks!Slots : /\ Present(deck, i) /\ Cardinality(Before(deck, i)) = k - 1
                               /\ sections[k] = SectionAt(deck, i)
  BY DEF Found
<1>2. /\ SlotIn(deck, k) \in Decks!Slots /\ Present(deck, SlotIn(deck, k))
      /\ Cardinality(Before(deck, SlotIn(deck, k))) = k - 1
  BY <1>1 DEF SlotIn
<1>3. SlotIn(deck, k) = i
  BY <1>1, <1>2, BeforeUnique
<1> QED BY <1>1, <1>2, <1>3

LEMMA FoundInit == ASSUME Decks!ConstantsOK, Decks!Init PROVE Found
<1>1. Before(deck, 0) = {}
  BY DEF Before, Decks!Slots
<1> QED BY <1>1, FS_EmptySet, EmptyFacts DEF Found, Decks!Init

LEMMA FoundReads ==
    ASSUME Decks!ConstantsOK, DeckTypes, Looking, Found, Decks!ReadSection, opening' # "failed"
    PROVE  Found' /\ sections' \in Seq(DeckSection)
<1>1. /\ slot \in Decks!Slots /\ slot' = slot + 1 /\ deck' = deck
      /\ SectionAt(deck, slot) \in DeckSection /\ sections \in Seq(DeckSection)
      /\ sections' = IF ~Present(deck, slot) THEN sections
                     ELSE Append(sections, SectionAt(deck, slot))
  BY DeckReads DEF DeckTypes, Present, Decks!ReadSection, Decks!deckVars
<1>2. CASE ~Present(deck, slot)
  BY <1>1, <1>2, BeforeNext DEF Found
<1>3. CASE Present(deck, slot)
  <2>1. /\ sections' \in Seq(DeckSection) /\ Len(sections') = Len(sections) + 1
        /\ sections'[Len(sections) + 1] = SectionAt(deck, slot)
        /\ \A k \in 1..Len(sections) : sections'[k] = sections[k]
        /\ \A k \in 1..Len(sections') : k \in 1..Len(sections) \/ k = Len(sections) + 1
    BY <1>1, <1>3, AppendFacts
  <2>2. Len(sections') = Cardinality(Before(deck, slot'))
    BY <1>1, <1>3, <2>1, BeforeNext DEF Found
  <2>3. Len(sections) \in Nat /\ Len(sections) = Cardinality(Before(deck, slot))
    BY BeforeFinite DEF Found
  <2>4. ASSUME NEW k \in 1..Len(sections')
        PROVE  \E i \in Decks!Slots : /\ Present(deck, i) /\ Cardinality(Before(deck, i)) = k - 1
                                      /\ sections'[k] = SectionAt(deck, i)
    <3>1. CASE k \in 1..Len(sections)
      BY <2>1, <3>1 DEF Found
    <3>2. CASE k = Len(sections) + 1
      <4>1. k - 1 = Cardinality(Before(deck, slot))
        BY <2>3, <3>2
      <4> QED BY <1>1, <1>3, <2>1, <3>2, <4>1
    <3> QED BY <2>1, <2>4, <3>1, <3>2
  <2> QED BY <1>1, <2>1, <2>2, <2>4 DEF Found
<1> QED BY <1>2, <1>3

-----------------------------------------------------------------------------
(* Deck: the calls *)

\* A call that goes on was asked for, its deck can do it, and it has seen the
\* state its deck is in.
DeckHolds(u, w, d, b) ==
    u.stage # "idle" =>
        /\ Decks!Needs(u.what) \subseteq d[SlotIn(d, u.k)].flags
        /\ AsksIn(d, u.what, u.k, u.offset) \subseteq w
        /\ b[SlotIn(d, u.k)] \in u.saw
DeckFresh(u) == u.what = "bootloader_active" /\ u.outcome = "ok" => u.flag \in u.saw

DeckBase == DeckTypes /\ Looking /\ Found
DeckCallsOK ==
    \A t \in Clients :
        /\ use[t].stage # "idle" => opening = "ready" /\ use[t].k \in 1..Len(sections)
        /\ DeckHolds(use[t], wanted, deck, boots) /\ DeckFresh(use[t])
DeckInv == DeckBase /\ DeckCallsOK /\ Decks!OwnDeck

LEMMA DeckInit == ASSUME Decks!ConstantsOK, Decks!Init PROVE DeckInv
  BY DeckInitTypes, FoundInit
     DEF DeckInv, DeckBase, DeckCallsOK, DeckHolds, DeckFresh, Decks!OwnDeck, Decks!Init, Decks!NoUse

\* What is left to show when no section is added and the slots stay.
LEMMA DeckSame ==
    ASSUME Decks!ConstantsOK, DeckInv, UNCHANGED <<deck, opening, slot, sections>>,
           use' \in [Clients -> DeckUse], boots' \in [Decks!Slots -> BOOLEAN],
           backend' \in Clients \union {NoOne}, uses' \in 0..MaxUses, flips' \in 0..MaxFlips
    PROVE  DeckBase'
  BY DEF DeckInv, DeckBase, DeckTypes, Looking, Found

\* A task asks.
LEMMA DeckCall ==
    ASSUME Decks!ConstantsOK, DeckInv, NEW t \in Clients, NEW w \in Decks!Calls,
           NEW k \in 1..MaxSections, Decks!Call(t, w, k, Decks!LastOffset)
    PROVE  DeckInv'
<1>1. /\ opening = "ready" /\ k \in 1..Len(sections) /\ k \in Nat
      /\ UNCHANGED <<deck, boots, opening, slot, sections, backend, commanded, stored, flips>>
      /\ wanted' = wanted \union AsksIn(deck, w, k, Decks!LastOffset)
  <2>1. k \in 1..Len(sections)
    BY DEF Decks!Call, DeckInv, DeckBase, DeckTypes
  <2> QED BY <2>1, DeckSlotOf DEF Decks!Call, Decks!deckVars, Decks!foundVars
<1>2. /\ SlotIn(deck, k) \in Decks!Slots /\ sections[k] = SectionAt(deck, SlotIn(deck, k))
      /\ deck \in [Decks!Slots -> DeckInfo] /\ boots[SlotIn(deck, k)] \in BOOLEAN
      /\ use \in [Clients -> DeckUse] /\ sections[k].flags = deck[SlotIn(deck, k)].flags
  BY <1>1, DeckSlots DEF DeckInv, DeckBase, DeckTypes, SectionAt
<1>3. PICK able \in BOOLEAN : able = (Decks!Needs(w) \subseteq sections[k].flags)
  OBVIOUS
<1>4. PICK x : x = [what |-> w, stage |-> IF able THEN "lock" ELSE "idle", k |-> k,
                    offset |-> Decks!LastOffset, saw |-> {boots[SlotIn(deck, k)]},
                    flag |-> FALSE, outcome |-> IF able THEN "none" ELSE "memory"]
  OBVIOUS
<1>5. use' = [use EXCEPT ![t] = x]
  BY <1>3, <1>4, DeckSlotOf DEF Decks!Call
<1>6. x \in DeckUse
  BY <1>1, <1>2, <1>4 DEF DeckUse, Decks!LastOffset
<1>7. /\ use' \in [Clients -> DeckUse] /\ use'[t] = x
      /\ \A s \in Clients \ {t} : use'[s] = use[s]
  BY <1>2, <1>5, <1>6
<1>8. uses' \in 0..MaxUses
  BY DEF Decks!Call, Decks!ConstantsOK, DeckInv, DeckBase, DeckTypes
<1>9. DeckBase'
  BY <1>1, <1>7, <1>8, DeckSame DEF DeckInv, DeckBase, DeckTypes
<1>10. DeckHolds(x, wanted', deck, boots) /\ DeckFresh(x)
  BY <1>1, <1>2, <1>3, <1>4 DEF DeckHolds, DeckFresh
<1>11. DeckCallsOK'
  <2>1. ASSUME NEW s \in Clients \ {t}
        PROVE  DeckHolds(use[s], wanted', deck, boots)
    BY <1>1 DEF DeckInv, DeckCallsOK, DeckHolds
  <2>2. x.k = k
    BY <1>4
  <2>3. deck' = deck /\ boots' = boots /\ opening' = "ready" /\ sections' = sections
    BY <1>1
  <2>4. \A s \in Clients \ {t} :
            /\ DeckHolds(use'[s], wanted', deck', boots') /\ DeckFresh(use'[s])
            /\ use'[s].stage # "idle" => use'[s].k \in 1..Len(sections')
    BY <1>7, <2>1, <2>3 DEF DeckInv, DeckCallsOK
  <2>5. /\ DeckHolds(use'[t], wanted', deck', boots') /\ DeckFresh(use'[t])
        /\ use'[t].k \in 1..Len(sections')
    BY <1>1, <1>7, <1>10, <2>2, <2>3
  <2>6. ASSUME NEW s \in Clients
        PROVE  /\ DeckHolds(use'[s], wanted', deck', boots') /\ DeckFresh(use'[s])
               /\ use'[s].stage # "idle" => use'[s].k \in 1..Len(sections')
    BY <2>4, <2>5
  <2> QED BY <2>3, <2>6 DEF DeckCallsOK
<1>12. Decks!OwnDeck'
  BY <1>1 DEF DeckInv, Decks!OwnDeck
<1> QED BY <1>9, <1>11, <1>12 DEF DeckInv

\* What a request makes the Crazyflie do is what the task asked for.
LEMMA DeckDoes ==
    ASSUME Decks!ConstantsOK, Decks!Apart, DeckInv, NEW t \in Clients, Decks!At(t, "busy"),
           Decks!CarriedOut(t), UNCHANGED <<deck, wanted>>
    PROVE  Decks!OwnDeck'
<1>1. /\ use[t].stage # "idle" /\ use[t] \in DeckUse /\ use[t].k \in 1..Len(sections)
      /\ deck \in DeckSets /\ deck \in [Decks!Slots -> DeckInfo]
  BY DEF DeckInv, DeckBase, DeckTypes, DeckCallsOK, Decks!At
<1>2. PICK i \in Decks!Slots : i = SlotIn(deck, use[t].k) /\ Present(deck, i)
                               /\ sections[use[t].k] = SectionAt(deck, i)
  BY <1>1, DeckSlots DEF DeckInv, DeckBase
<1>3. /\ Decks!Needs(use[t].what) \subseteq deck[i].flags
      /\ AsksIn(deck, use[t].what, use[t].k, use[t].offset) \subseteq wanted
  BY <1>1, <1>2 DEF DeckInv, DeckCallsOK, DeckHolds
<1>4. Decks!SectionOf(t).base = deck[i].base /\ Decks!SectionOf(t).command = Decks!CommandAddress(i)
  BY <1>2 DEF Decks!SectionOf, SectionAt
<1>5. PICK o \in 0..Decks!LastOffset : o = use[t].offset
  BY <1>1 DEF DeckUse
<1>6. Decks!FwMemory(deck[i].base + o) = {i}
  <2>1. \A j \in Decks!Slots : deck[j].base \in Nat
    BY <1>1 DEF DeckInfo
  <2>2. \A j \in Decks!Slots : j # i => \/ deck[i].base + Decks!LastOffset < deck[j].base
                                         \/ deck[j].base + Decks!LastOffset < deck[i].base
    BY <1>1, <1>2 DEF Decks!Apart, Present
  <2> QED BY <2>1, <2>2 DEF Decks!FwMemory, Decks!LastOffset
<1>7. ASSUME NEW s \in stored', s \notin stored
      PROVE  \E w \in wanted : w[1] = s[1] /\ w[2] = "write" /\ w[3] = s[2]
                               /\ "write" \in deck[s[1]].flags
  <2>1. PICK a : a = Decks!SectionOf(t).base + use[t].offset
    OBVIOUS
  <2>2. PICK b \in Nat : b = deck[i].base
    BY <1>1 DEF DeckInfo
  <2>3. use[t].what = "write" /\ \E j \in Decks!FwMemory(a) : s = <<j, a - deck[j].base>>
    BY <1>7, <2>1 DEF Decks!CarriedOut
  <2>4. a = b + o /\ a - b = o
    BY <1>4, <1>5, <2>1, <2>2
  <2>5. Decks!FwMemory(a) = {i}
    BY <1>6, <2>2, <2>4
  <2>6. s = <<i, o>>
    BY <2>2, <2>3, <2>4, <2>5
  <2>7. <<i, "write", o>> \in wanted /\ "write" \in deck[i].flags
    BY <1>2, <1>3, <1>5, <2>3 DEF AsksIn, Decks!Needs
  <2> QED BY <2>6, <2>7
<1>8. ASSUME NEW c \in commanded', c \notin commanded
      PROVE  \E w \in wanted : w[1] = c[1] /\ w[3] = c[2] /\ Decks!Needs(w[2]) \subseteq deck[c[1]].flags
  <2>1. PICK bit : bit = IF use[t].what = "reset_to_firmware" THEN Decks!ResetToFirmware
                         ELSE Decks!ResetToBootloader
    OBVIOUS
  <2>2. use[t].what \in Decks!Resets /\ c = <<i, bit>>
    BY <1>4, <1>8, <2>1, DeckAddresses DEF Decks!CarriedOut
  <2>3. <<i, use[t].what, bit>> \in wanted
    BY <1>2, <1>3, <2>1, <2>2 DEF AsksIn, Decks!Resets
  <2> QED BY <1>3, <2>2, <2>3
<1>9. \A s \in stored : \E w \in wanted :
          w[1] = s[1] /\ w[2] = "write" /\ w[3] = s[2] /\ "write" \in deck[s[1]].flags
  BY DEF DeckInv, Decks!OwnDeck
<1>10. \A c \in commanded : \E w \in wanted :
          w[1] = c[1] /\ w[3] = c[2] /\ Decks!Needs(w[2]) \subseteq deck[c[1]].flags
  BY DEF DeckInv, Decks!OwnDeck
<1> QED BY <1>7, <1>8, <1>9, <1>10 DEF Decks!OwnDeck

\* A task goes on with its call, whatever is done.
LEMMA DeckGoesOn ==
    ASSUME Decks!ConstantsOK, DeckInv, NEW t \in Clients, NEW x \in DeckUse, use[t].stage # "idle",
           UNCHANGED <<deck, boots, opening, slot, sections, wanted, uses, flips>>,
           use' = [use EXCEPT ![t] = x], backend' \in Clients \union {NoOne},
           x.what = use[t].what, x.k = use[t].k, x.offset = use[t].offset, x.saw = use[t].saw,
           DeckFresh(x)
    PROVE  DeckBase' /\ DeckCallsOK'
<1>1. /\ use \in [Clients -> DeckUse] /\ use' \in [Clients -> DeckUse] /\ use'[t] = x
      /\ \A s \in Clients \ {t} : use'[s] = use[s]
  BY DEF DeckInv, DeckBase, DeckTypes
<1>2. DeckBase'
  BY <1>1, DeckSame DEF DeckInv, DeckBase, DeckTypes
<1>3. /\ opening = "ready" /\ x.k \in 1..Len(sections)
      /\ DeckHolds(x, wanted, deck, boots)
  BY DEF DeckInv, DeckCallsOK, DeckHolds
<1>4. deck' = deck /\ boots' = boots /\ opening' = opening /\ sections' = sections /\ wanted' = wanted
  OBVIOUS
<1> QED BY <1>1, <1>2, <1>3, <1>4 DEF DeckInv, DeckCallsOK

LEMMA DeckLock ==
    ASSUME Decks!ConstantsOK, DeckInv, NEW t \in Clients, Decks!Lock(t) \/ Decks!Slept(t)
    PROVE  DeckInv'
<1>1. PICK u \in DeckUse : u = use[t]
  BY DEF DeckInv, DeckBase, DeckTypes
<1>2. PICK st \in {"idle", "busy"} : use' = [use EXCEPT ![t] = [u EXCEPT !.stage = st]]
  BY <1>1 DEF Decks!Lock, Decks!Slept
<1>3. PICK x : x = [u EXCEPT !.stage = st]
  OBVIOUS
<1>4. /\ x \in DeckUse /\ use' = [use EXCEPT ![t] = x] /\ x.what = u.what /\ x.k = u.k
      /\ x.offset = u.offset /\ x.saw = u.saw /\ x.flag = u.flag /\ x.outcome = u.outcome
  BY <1>2, <1>3 DEF DeckUse
<1>5. DeckFresh(x)
  BY <1>1, <1>4 DEF DeckInv, DeckCallsOK, DeckFresh
<1>6. /\ UNCHANGED <<deck, boots, opening, slot, sections, wanted, uses, flips, commanded, stored>>
      /\ use[t].stage # "idle" /\ backend' \in Clients \union {NoOne}
  BY DEF Decks!Lock, Decks!Slept, Decks!At, Decks!deckVars, Decks!foundVars, Decks!toldVars,
         DeckInv, DeckBase, DeckTypes
<1>7. DeckBase' /\ DeckCallsOK'
  BY <1>1, <1>4, <1>5, <1>6, DeckGoesOn
<1>8. Decks!OwnDeck'
  BY <1>6 DEF DeckInv, Decks!OwnDeck
<1> QED BY <1>7, <1>8 DEF DeckInv

\* A request ends.  The state that is reported is the one the deck has now.
LEMMA DeckEnd ==
    ASSUME Decks!ConstantsOK, Decks!Apart, DeckInv, NEW t \in Clients, NEW o \in {"ok", "disconnected"},
           NEW f \in BOOLEAN, Decks!At(t, "busy"), Decks!End(t, o, f),
           Decks!CarriedOut(t) \/ UNCHANGED <<stored, commanded>>,
           UNCHANGED <<deck, boots, opening, slot, sections, wanted, uses, flips>>,
           use[t].what = "bootloader_active" /\ o = "ok" => f \in use[t].saw
    PROVE  DeckInv'
<1>1. PICK u \in DeckUse : u = use[t]
  BY DEF DeckInv, DeckBase, DeckTypes
<1>2. PICK st \in {"sleep", "idle"} :
          st = IF o = "ok" /\ use[t].what \in Decks!Resets THEN "sleep" ELSE "idle"
  OBVIOUS
<1>3. PICK x : x = [u EXCEPT !.stage = st, !.outcome = o, !.flag = f]
  OBVIOUS
<1>4. /\ x \in DeckUse /\ x.what = u.what /\ x.k = u.k /\ x.offset = u.offset
      /\ x.saw = u.saw /\ x.flag = f /\ x.outcome = o
  BY <1>3 DEF DeckUse
<1>5. use' = [use EXCEPT ![t] = x] /\ backend' \in Clients \union {NoOne}
  BY <1>1, <1>2, <1>3 DEF Decks!End
<1>6. DeckFresh(x) /\ use[t].stage # "idle"
  BY <1>1, <1>4 DEF DeckFresh, Decks!At
<1>7. DeckBase' /\ DeckCallsOK'
  BY <1>1, <1>4, <1>5, <1>6, DeckGoesOn
<1>8. Decks!OwnDeck'
  <2>1. CASE Decks!CarriedOut(t)
    BY <2>1, DeckDoes
  <2>2. CASE UNCHANGED <<stored, commanded>>
    BY <2>2 DEF DeckInv, Decks!OwnDeck
  <2> QED BY <2>1, <2>2
<1> QED BY <1>7, <1>8 DEF DeckInv

LEMMA DeckAnswered ==
    ASSUME Decks!ConstantsOK, Decks!Apart, DeckInv, NEW t \in Clients,
           Decks!Answered(t) \/ Decks!Fails(t)
    PROVE  DeckInv'
<1>1. /\ UNCHANGED <<deck, boots, opening, slot, sections, wanted, uses, flips>>
      /\ Decks!At(t, "busy") /\ (Decks!CarriedOut(t) \/ UNCHANGED <<stored, commanded>>)
  BY DEF Decks!Answered, Decks!Fails, Decks!deckVars, Decks!foundVars
<1>2. CASE Decks!End(t, "disconnected", FALSE)
  BY <1>1, <1>2, DeckEnd
<1>3. CASE use[t].what # "bootloader_active" /\ Decks!End(t, "ok", FALSE)
  BY <1>1, <1>3, DeckEnd
<1>4. ASSUME use[t].what = "bootloader_active", NEW i \in Decks!FwInfo(Decks!SectionOf(t).info),
             Decks!End(t, "ok", Decks!Reported(t, i))
      PROVE  DeckInv'
  <2>1. use[t].k \in 1..Len(sections)
    BY <1>1 DEF DeckInv, DeckCallsOK, Decks!At
  <2>2. /\ SlotIn(deck, use[t].k) \in Decks!Slots
        /\ Decks!SectionOf(t).info = Decks!InfoAddress(SlotIn(deck, use[t].k))
    <3>1. /\ SlotIn(deck, use[t].k) \in Decks!Slots
          /\ sections[use[t].k] = SectionAt(deck, SlotIn(deck, use[t].k))
      BY <2>1, DeckSlots DEF DeckInv, DeckBase
    <3> QED BY <3>1 DEF Decks!SectionOf, SectionAt
  <2>3. i = SlotIn(deck, use[t].k)
    BY <1>4, <2>2, DeckAddresses
  <2>4. boots[i] \in use[t].saw /\ boots[i] \in BOOLEAN
    BY <1>1, <2>2, <2>3 DEF DeckInv, DeckBase, DeckTypes, DeckCallsOK, DeckHolds, Decks!At
  <2> QED BY <1>1, <1>4, <2>4, DeckEnd DEF Decks!Reported
<1> QED BY <1>2, <1>3, <1>4 DEF Decks!Answered, Decks!Fails

\* A deck restarts, and every call that goes on sees it.
LEMMA DeckFlip ==
    ASSUME Decks!ConstantsOK, DeckInv, NEW i \in Decks!Slots, Decks!Flip(i)
    PROVE  DeckInv'
<1>1. UNCHANGED <<deck, opening, slot, sections, backend, wanted, commanded, stored, uses>>
  BY DEF Decks!Flip, Decks!foundVars, Decks!toldVars
<1>2. boots' \in [Decks!Slots -> BOOLEAN] /\ flips' \in 0..MaxFlips
  BY DEF Decks!Flip, Decks!ConstantsOK, DeckInv, DeckBase, DeckTypes
<1>3. ASSUME NEW t \in Clients
      PROVE  /\ use'[t] \in DeckUse
             /\ use'[t].stage # "idle" => use[t].stage # "idle" /\ use'[t].k = use[t].k
             /\ DeckHolds(use'[t], wanted, deck, boots') /\ DeckFresh(use'[t])
  <2>1. PICK u \in DeckUse : u = use[t]
    BY DEF DeckInv, DeckBase, DeckTypes
  <2>2. u.stage # "idle" => u.k \in 1..Len(sections)
    BY <2>1 DEF DeckInv, DeckCallsOK
  <2>3. DeckHolds(u, wanted, deck, boots) /\ DeckFresh(u)
    BY <2>1 DEF DeckInv, DeckCallsOK
  <2>4. CASE u.stage = "idle"
    <3>1. use'[t] = u
      BY <2>1, <2>4 DEF Decks!Flip, Decks!At
    <3> QED BY <2>1, <2>3, <2>4, <3>1 DEF DeckHolds
  <2>5. CASE u.stage # "idle"
    <3>1. SlotIn(deck, u.k) \in Decks!Slots
      BY <2>2, <2>5, DeckSlots DEF DeckInv, DeckBase
    <3>2. PICK b \in BOOLEAN : b = boots'[SlotIn(deck, u.k)]
      BY <1>2, <3>1
    <3>3. PICK x : x = [u EXCEPT !.saw = @ \union {b}]
      OBVIOUS
    <3>4. use'[t] = x
      BY <2>1, <2>5, <3>2, <3>3, DeckSlotOf DEF Decks!Flip, Decks!At
    <3>5. /\ x \in DeckUse /\ x.what = u.what /\ x.k = u.k /\ x.offset = u.offset
          /\ x.stage = u.stage /\ x.flag = u.flag /\ x.outcome = u.outcome /\ x.saw = u.saw \union {b}
      BY <3>3 DEF DeckUse
    <3> QED BY <2>1, <2>3, <2>5, <3>2, <3>4, <3>5 DEF DeckHolds, DeckFresh
  <2> QED BY <2>4, <2>5
<1>4. use' \in [Clients -> DeckUse]
  BY <1>3 DEF Decks!Flip
<1>5. DeckBase'
  BY <1>1, <1>2, <1>4, DeckSame DEF DeckInv, DeckBase, DeckTypes
<1>6. DeckCallsOK'
  BY <1>1, <1>3 DEF DeckInv, DeckCallsOK
<1>7. Decks!OwnDeck'
  BY <1>1 DEF DeckInv, Decks!OwnDeck
<1> QED BY <1>5, <1>6, <1>7 DEF DeckInv

\* While the sections are read there are no calls.
LEMMA DeckOpens ==
    ASSUME Decks!ConstantsOK, DeckInv, Decks!ReadVersion \/ Decks!ReadSection
    PROVE  DeckInv'
<1>1. /\ UNCHANGED <<deck, boots, backend, use, commanded, stored, wanted, uses, flips>>
      /\ opening # "ready" /\ opening' \in {"sections", "ready", "failed"}
  BY DEF Decks!ReadVersion, Decks!ReadSection, Decks!deckVars, Decks!toldVars
<1>2. \A t \in Clients : use[t].stage = "idle" /\ DeckFresh(use[t])
  BY <1>1 DEF DeckInv, DeckCallsOK
<1>3. DeckCallsOK' /\ Decks!OwnDeck'
  BY <1>1, <1>2 DEF DeckInv, DeckCallsOK, DeckHolds, Decks!OwnDeck
<1>4. DeckBase'
  <2>1. CASE UNCHANGED <<slot, sections>>
    <3>1. opening' = "sections" => opening = "version"
      BY <2>1 DEF Decks!ReadVersion, Decks!ReadSection, Decks!ConstantsOK, DeckInv, DeckBase, DeckTypes
    <3> QED BY <1>1, <2>1, <3>1 DEF DeckInv, DeckBase, DeckTypes, Looking, Found
  <2>2. CASE Decks!ReadSection /\ opening' # "failed"
    <3>1. Found' /\ sections' \in Seq(DeckSection)
      BY <2>2, FoundReads DEF DeckInv, DeckBase
    <3>2. Looking' /\ slot' \in 0..MaxSections
      BY <2>2, DeckReads DEF DeckInv, DeckBase, Looking, Decks!Slots, Decks!ConstantsOK
    <3> QED BY <1>1, <3>1, <3>2 DEF DeckInv, DeckBase, DeckTypes
  <2> QED BY <2>1, <2>2 DEF Decks!ReadVersion, Decks!ReadSection
<1> QED BY <1>3, <1>4 DEF DeckInv

LEMMA DeckNext ==
    ASSUME Decks!ConstantsOK, Decks!Apart, DeckInv, [Decks!Next]_Decks!vars
    PROVE  DeckInv'
<1>1. CASE UNCHANGED Decks!vars
  <2> USE <1>1 DEF Decks!vars, Decks!deckVars, Decks!foundVars, Decks!toldVars
  <2>1. DeckBase'
    BY DeckSame DEF DeckInv, DeckBase, DeckTypes
  <2>2. DeckCallsOK'
    BY DEF DeckInv, DeckCallsOK
  <2>3. Decks!OwnDeck'
    BY DEF DeckInv, Decks!OwnDeck
  <2> QED BY <2>1, <2>2, <2>3 DEF DeckInv
<1> QED BY <1>1, DeckOpens, DeckCall, DeckLock, DeckAnswered, DeckFlip DEF Decks!Next, Decks!Step

\* What is done to a deck was asked of the section that was made of it, and the
\* deck can do it, and the state of its bootloader that a task is told is one it
\* had during the call, for any number of slots, decks, tasks and restarts
\* (DecksRight; deckmem.rs:427, deckmem.rs:128).
THEOREM DecksAreRight ==
    Decks!ConstantsOK /\ Decks!Apart => (Decks!Spec => []DecksRight)
<1> SUFFICES ASSUME Decks!ConstantsOK, Decks!Apart PROVE Decks!Spec => []DecksRight
  OBVIOUS
<1>1. Decks!Init => DeckInv
  BY DeckInit
<1>2. DeckInv /\ [Decks!Next]_Decks!vars => DeckInv'
  BY DeckNext
<1>3. DeckInv => DecksRight
  BY DEF DeckInv, DeckCallsOK, DeckFresh, DecksRight, Decks!DecksRight, Decks!FlagsFresh
<1> QED BY <1>1, <1>2, <1>3, PTL DEF Decks!Spec
=============================================================================
