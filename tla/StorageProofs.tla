---------------------------- MODULE StorageProofs ----------------------------
(***************************************************************************)
(* What Storage guarantees for any number of tasks, parameters and calls,  *)
(* with dropped calls, refusals, malformed updates and a lost link.        *)
(***************************************************************************)
EXTENDS Storage, SequenceTheorems, TLAPS

USE DEF callVars, wireVars, linkVars, historyVars, boundVars

-----------------------------------------------------------------------------
(* Queues *)

\* What is in a queue, as it is read, filled and cut short.
LEMMA QueueFacts ==
    ASSUME NEW S, NEW q \in Seq(S)
    PROVE  /\ Len(q) \in Nat /\ Range(q) = {q[i] : i \in 1..Len(q)} /\ Range(q) \subseteq S
           /\ q # <<>> => /\ Len(q) \in Nat \ {0} /\ Head(q) = q[1] /\ Head(q) \in S
                          /\ Head(q) \in Range(q) /\ 1 \in 1..Len(q)
                          /\ Range(q) \subseteq {Head(q)} \union Range(Tail(q))
                          /\ Tail(q) \in Seq(S) /\ Range(Tail(q)) \subseteq Range(q)
                          /\ Len(Tail(q)) = Len(q) - 1
                          /\ \A i \in 1..Len(Tail(q)) :
                                Tail(q)[i] = q[i + 1] /\ i + 1 \in 1..Len(q) /\ i + 1 # 1
<1>1. Len(q) \in Nat /\ \A i \in 1..Len(q) : q[i] \in S
  BY LenProperties, ElementOfSeq
<1>2. Range(q) = {q[i] : i \in 1..Len(q)}
  BY RangeEquality
<1>3. ASSUME q # <<>>
      PROVE  /\ Len(q) \in Nat \ {0} /\ Head(q) = q[1] /\ Head(q) \in S
             /\ Head(q) \in Range(q) /\ 1 \in 1..Len(q)
             /\ Range(q) \subseteq {Head(q)} \union Range(Tail(q))
             /\ Tail(q) \in Seq(S) /\ Range(Tail(q)) \subseteq Range(q)
             /\ Len(Tail(q)) = Len(q) - 1
             /\ \A i \in 1..Len(Tail(q)) : Tail(q)[i] = q[i + 1] /\ i + 1 \in 1..Len(q) /\ i + 1 # 1
  <2>1. Len(q) \in Nat \ {0}
    BY <1>3, EmptySeq
  <2>2. Head(q) = q[1] /\ 1 \in 1..Len(q)
    BY <2>1
  <2> DEFINE t == Tail(q)
  <2>3. t \in Seq(S) /\ Len(t) = Len(q) - 1 /\ \A i \in 1..Len(t) : t[i] = q[i + 1]
    BY <1>3, HeadTailProperties
  <2> HIDE DEF t
  <2>4. \A i \in 1..Len(t) : i + 1 \in 1..Len(q) /\ i + 1 # 1
    BY <2>1, <2>3
  <2>5. Range(t) = {t[i] : i \in 1..Len(t)}
    BY <2>3, RangeEquality
  <2>6. Range(t) \subseteq Range(q)
    BY <1>2, <2>3, <2>4, <2>5
  <2>7. \A i \in 1..Len(q) : i = 1 \/ (i - 1 \in 1..Len(t) /\ t[i - 1] = q[i])
    BY <2>1, <2>3
  <2>8. Range(q) \subseteq {Head(q)} \union Range(t)
    BY <1>2, <2>2, <2>5, <2>7
  <2> QED BY <1>1, <1>2, <2>1, <2>2, <2>3, <2>4, <2>6, <2>8 DEF t
<1> QED BY <1>1, <1>2, <1>3

LEMMA AppendFacts ==
    ASSUME NEW S, NEW q \in Seq(S), NEW x \in S
    PROVE  /\ Append(q, x) \in Seq(S) /\ Range(Append(q, x)) = Range(q) \union {x}
           /\ Len(Append(q, x)) = Len(q) + 1 /\ Append(q, x)[Len(q) + 1] = x
           /\ \A i \in 1..Len(q) : Append(q, x)[i] = q[i]
           /\ \A i \in 1..Len(Append(q, x)) : i \in 1..Len(q) \/ i = Len(q) + 1
<1> DEFINE a == Append(q, x)
<1>1. /\ a \in Seq(S) /\ Len(a) = Len(q) + 1 /\ a[Len(q) + 1] = x /\ Len(q) \in Nat
      /\ \A i \in 1..Len(q) : a[i] = q[i]
  BY AppendProperties, LenProperties
<1> HIDE DEF a
<1>2. Range(a) = {a[i] : i \in 1..Len(a)} /\ Range(q) = {q[i] : i \in 1..Len(q)}
  BY <1>1, RangeEquality
<1>3. /\ \A i \in 1..Len(a) : i \in 1..Len(q) \/ i = Len(q) + 1
      /\ \A i \in 1..Len(q) : i \in 1..Len(a)
      /\ Len(q) + 1 \in 1..Len(a)
  BY <1>1
<1>4. Range(a) = Range(q) \union {x}
  BY <1>1, <1>2, <1>3
<1> QED BY <1>1, <1>3, <1>4 DEF a

LEMMA PrefixFacts ==
    ASSUME NEW S, NEW q \in Seq(S), NEW n \in 0..Len(q)
    PROVE  /\ SubSeq(q, 1, n) \in Seq(S) /\ Range(SubSeq(q, 1, n)) \subseteq Range(q)
           /\ \A i \in 1..Len(SubSeq(q, 1, n)) : SubSeq(q, 1, n)[i] = q[i] /\ i \in 1..Len(q)
<1> DEFINE a == SubSeq(q, 1, n)
<1>1. Len(q) \in Nat /\ \A i \in 1..Len(q) : q[i] \in S
  BY LenProperties, ElementOfSeq
<1>2. a \in Seq(S) /\ Len(a) = n /\ \A i \in 1..n : a[i] = q[i]
  <2>1. \A i \in 1..n : q[i] \in S
    BY <1>1
  <2>2. n \in Int /\ (IF 1 <= n THEN n - 1 + 1 ELSE 0) = n /\ n - 1 + 1 = n
        /\ \A i \in 1..n : 1 + i - 1 = i
    BY <1>1
  <2> QED BY <2>1, <2>2, SubSeqProperties
<1> HIDE DEF a
<1>3. Range(a) = {a[i] : i \in 1..Len(a)} /\ Range(q) = {q[i] : i \in 1..Len(q)}
  BY <1>2, RangeEquality
<1>4. \A i \in 1..n : i \in 1..Len(q)
  BY <1>1
<1> QED BY <1>2, <1>3, <1>4 DEF a

LEMMA EmptyFacts == ASSUME NEW S PROVE <<>> \in Seq(S) /\ Range(<<>>) = {} /\ Len(<<>>) = 0
<1>1. <<>> \in Seq(S) /\ Len(<<>>) = 0
  BY EmptySeq
<1> DEFINE e == <<>>
<1>2. e \in Seq(S) /\ Len(e) = 0
  BY <1>1
<1> HIDE DEF e
<1>3. Range(e) = {e[i] : i \in 1..Len(e)}
  BY <1>2, RangeEquality
<1>4. Range(e) = {}
  BY <1>2, <1>3
<1> QED BY <1>1, <1>4 DEF e

-----------------------------------------------------------------------------
(* Rounds *)

Storing == {"state", "store", "clear"}

\* What a call has still to go through.
Shapes == {<<>>} \union {<<c>> : c \in Commands} \union {<<"extended", c>> : c \in Storing}

LEMMA ShapeFacts ==
    ASSUME NEW s \in Shapes
    PROVE  /\ s \in Seq(Commands)
           /\ s # <<>> => Head(s) \in Commands
           /\ Len(s) = 2 => /\ Head(s) = "extended"
                            /\ \E c \in Storing : s = <<"extended", c>> /\ Tail(s) = <<c>>
           /\ s # <<>> /\ Head(s) # "extended" => s = <<Head(s)>>
<1> DEFINE Goal == /\ s \in Seq(Commands)
                   /\ s # <<>> => Head(s) \in Commands
                   /\ Len(s) = 2 => /\ Head(s) = "extended"
                                    /\ \E c \in Storing : s = <<"extended", c>> /\ Tail(s) = <<c>>
                   /\ s # <<>> /\ Head(s) # "extended" => s = <<Head(s)>>
<1>1. CASE s = <<>>
  <2>1. s \in Seq(Commands) /\ Len(s) = 0
    BY <1>1, EmptySeq
  <2> QED BY <1>1, <2>1
<1>2. ASSUME NEW c \in Commands, s = <<c>> PROVE Goal
  <2>1. s \in Seq(Commands) /\ Head(s) = c /\ Len(s) = 1
    BY <1>2
  <2> QED BY <1>2, <2>1
<1>3. ASSUME NEW c \in Storing, s = <<"extended", c>> PROVE Goal
  <2>1. s \in Seq(Commands)
    BY <1>3 DEF Commands, Storing
  <2>2. Head(s) = "extended" /\ Tail(s) = <<c>>
    BY <1>3
  <2> QED BY <1>3, <2>1, <2>2 DEF Commands
<1> QED BY <1>1, <1>2, <1>3 DEF Shapes

LEMMA RoundsShape == ASSUME NEW c \in Commands PROVE Rounds(c) \in Shapes /\ Rounds(c) # <<>>
<1>1. CASE c \in Storing
  <2>1. Rounds(c) = <<"extended", c>>
    BY <1>1 DEF Rounds, Storing
  <2>2. Len(Rounds(c)) = 2
    BY <2>1
  <2> QED BY <1>1, <2>1, <2>2, EmptySeq DEF Shapes
<1>2. CASE c \notin Storing
  <2>1. Rounds(c) = <<c>>
    BY <1>2 DEF Rounds, Storing
  <2>2. Len(Rounds(c)) = 1
    BY <2>1
  <2> QED BY <2>1, <2>2, EmptySeq DEF Shapes
<1> QED BY <1>1, <1>2

-----------------------------------------------------------------------------
(* The calls, the packets and the caches *)

\* A call has rounds to go through as long as it runs, holds the lock while it
\* waits, and asks about persistent storage only for what can be stored.
CallInv ==
    /\ pc \in [Users -> {"idle", "lock", "wait"}]
    /\ rounds \in [Users -> Shapes]
    /\ param \in [Users -> Params]
    /\ miscLock \in Users \union {NoOne}
    /\ \A u \in Users : pc[u] = "idle" <=> rounds[u] = <<>>
    /\ \A u \in Users : pc[u] = "wait" <=> miscLock = u
    /\ \A u \in Users : \A c \in Storing : rounds[u] = <<c>> => param[u] \in Persistent

\* An answer says the truth about what does not change.
Right(x) ==
    /\ x.cmd = "extended" /\ x.status = "ok" /\ x.data => x.param \in Persistent
    /\ x.cmd = "default" => /\ x.status = "ok" => x.param \in Writable
                            /\ x.status = "noEntry" => x.param \notin Writable

WireInv ==
    /\ uplink \in Seq(Requests)
    /\ misc \in Seq(Answers \union {Malformed})
    /\ miscCmd \in Seq(Answers)
    /\ \A x \in Range(uplink) : x.cmd \in Storing => x.param \in Persistent
    /\ \A x \in Range(misc) \union Range(miscCmd) : Right(x)

KeptInv ==
    /\ defaults \in [Params -> Params \union {Unknown, Unsupported}]
    /\ loop \in {"recv", "ended"}
    /\ stored \subseteq Persistent
    /\ uplinkUp \in BOOLEAN /\ downlinkUp \in BOOLEAN
    /\ done \in [Params -> {"none", "store", "clear"}]
    /\ dropped \subseteq Commands \X Params
    /\ calls \in Nat /\ malformed \in Nat /\ cancels \in Nat
    /\ DefaultsRight

BaseInv == CallInv /\ WireInv /\ KeptInv

LEMMA BaseType == BaseInv => TypeOK
  BY ShapeFacts DEF BaseInv, CallInv, WireInv, KeptInv, TypeOK

LEMMA InitBase == Init => BaseInv
<1> SUFFICES ASSUME Init PROVE BaseInv
  OBVIOUS
<1>1. NoParam \in Params
  BY ParamAssumption DEF NoParam
<1>2. <<>> \in Shapes
  BY DEF Shapes
<1>3. \A c : <<c>> # <<>>
  OBVIOUS
<1>4. CallInv
  BY <1>1, <1>2, <1>3, HolderAssumption DEF Init, CallInv
<1>5. WireInv
  BY EmptyFacts DEF Init, WireInv
<1>6. KeptInv
  BY DEF Init, KeptInv, DefaultsRight
<1> QED BY <1>4, <1>5, <1>6 DEF BaseInv

\* A call ends: what it held is gone.
LEMMA EndCallInv ==
    ASSUME CallInv, NEW u \in Users, EndCall(u)
    PROVE  CallInv'
<1>1. NoParam \in Params /\ <<>> \in Shapes /\ \A c : <<c>> # <<>>
  BY ParamAssumption DEF NoParam, Shapes
<1>2. /\ pc' \in [Users -> {"idle", "lock", "wait"}] /\ rounds' \in [Users -> Shapes]
      /\ param' \in [Users -> Params] /\ miscLock' \in Users \union {NoOne}
  BY <1>1 DEF CallInv, EndCall
<1>3. /\ pc'[u] = "idle" /\ rounds'[u] = <<>>
      /\ \A w \in Users \ {u} : pc'[w] = pc[w] /\ rounds'[w] = rounds[w] /\ param'[w] = param[w]
      /\ miscLock' = IF miscLock = u THEN NoOne ELSE miscLock
  BY DEF CallInv, EndCall
<1> QED BY <1>1, <1>2, <1>3, HolderAssumption DEF CallInv

\* An answer is taken off the queue.
LEMMA TakenInv ==
    ASSUME WireInv, miscCmd # <<>>, miscCmd' = Tail(miscCmd), UNCHANGED <<uplink, misc>>
    PROVE  /\ WireInv' /\ Head(miscCmd) \in Answers /\ Right(Head(miscCmd))
           /\ Range(miscCmd') \subseteq Range(miscCmd) /\ Head(miscCmd) \in Range(miscCmd)
<1>1. /\ miscCmd' \in Seq(Answers) /\ Head(miscCmd) \in Answers /\ Head(miscCmd) \in Range(miscCmd)
      /\ Range(miscCmd') \subseteq Range(miscCmd)
  BY QueueFacts DEF WireInv
<1> QED BY <1>1 DEF WireInv

LEMMA CallStepBase ==
    ASSUME BaseInv, NEW u \in Users,
           CallStep(u) \/ Cancel(u) \/ \E c \in Commands, p \in Params : Call(u, c, p)
    PROVE  BaseInv'
<1>1. ASSUME NEW c \in Commands, NEW p \in Params, Call(u, c, p) PROVE BaseInv'
  <2>1. Rounds(c) \in Shapes /\ Rounds(c) # <<>>
    BY RoundsShape
  <2>2. \A d \in Storing : Rounds(c) # <<d>>
    BY DEF Rounds, Storing
  <2>3. CallInv'
    BY <1>1, <2>1, <2>2 DEF Call, BaseInv, CallInv
  <2> QED BY <1>1, <2>3 DEF Call, BaseInv, WireInv, KeptInv, DefaultsRight
<1>2. CASE Send(u)
  <2>1. CallInv'
    BY <1>2, HolderAssumption DEF Send, HoldLock, BaseInv, CallInv
  <2>2. rounds[u] \in Shapes /\ rounds[u] # <<>> /\ param[u] \in Params
    BY <1>2 DEF Send, BaseInv, CallInv
  <2> DEFINE r == [cmd |-> Head(rounds[u]), param |-> param[u], by |-> u]
  <2>3. r \in Requests /\ (r.cmd \in Storing => r.param \in Persistent)
    <3>1. Head(rounds[u]) \in Commands
      BY <2>2, ShapeFacts
    <3>2. Head(rounds[u]) \in Storing => rounds[u] = <<Head(rounds[u])>>
      BY <2>2, ShapeFacts DEF Storing
    <3> QED BY <2>2, <3>1, <3>2 DEF Requests, BaseInv, CallInv
  <2>4. uplink' = Append(uplink, r) \/ uplink' = uplink
    BY <1>2 DEF Send
  <2> HIDE DEF r
  <2>5. WireInv'
    BY <1>2, <2>3, <2>4, AppendFacts DEF Send, BaseInv, WireInv
  <2> QED BY <1>2, <2>1, <2>5 DEF Send, BaseInv, KeptInv, DefaultsRight
<1>3. CASE Discard(u)
  <2>1. WireInv'
    BY <1>3, TakenInv DEF Discard, BaseInv
  <2> QED BY <1>3, <2>1 DEF Discard, BaseInv, CallInv, KeptInv, DefaultsRight
<1>4. CASE IsPersistent(u)
  <2>1. WireInv' /\ Head(miscCmd) \in Answers /\ Right(Head(miscCmd))
    BY <1>4, TakenInv DEF IsPersistent, Receive, BaseInv
  <2>2. PICK c \in Storing : rounds[u] = <<"extended", c>> /\ Tail(rounds[u]) = <<c>>
    BY <1>4, ShapeFacts DEF IsPersistent, BaseInv, CallInv
  <2>3. param[u] \in Persistent
    <3>1. Head(rounds[u]) = "extended"
      BY <2>2
    <3> QED BY <1>4, <2>1, <3>1 DEF IsPersistent, Receive, Matches, Right
  <2>4. <<c>> \in Shapes /\ <<c>> # <<>>
    BY DEF Shapes, Commands, Storing
  <2>5. /\ pc' = [pc EXCEPT ![u] = "lock"] /\ rounds' = [rounds EXCEPT ![u] = <<c>>]
        /\ UNCHANGED param /\ miscLock' = IF miscLock = u THEN NoOne ELSE miscLock
    BY <1>4, <2>2 DEF IsPersistent, EndRound
  <2>6. CallInv'
    BY <2>3, <2>4, <2>5, HolderAssumption DEF BaseInv, CallInv
  <2> QED BY <1>4, <2>1, <2>6 DEF IsPersistent, BaseInv, KeptInv, DefaultsRight
<1>5. CASE NotPersistent(u) \/ Answered(u)
  <2>1. WireInv'
    BY <1>5, TakenInv DEF NotPersistent, Answered, Receive, BaseInv
  <2>2. CallInv'
    BY <1>5, EndCallInv DEF NotPersistent, Answered, BaseInv
  <2>3. done' \in [Params -> {"none", "store", "clear"}]
    BY <1>5 DEF NotPersistent, Answered, BaseInv, KeptInv
  <2> QED BY <1>5, <2>1, <2>2, <2>3
          DEF NotPersistent, Answered, BaseInv, KeptInv, DefaultsRight
<1>6. CASE DefaultAnswered(u)
  <2>1. WireInv' /\ Head(miscCmd) \in Answers /\ Right(Head(miscCmd))
    BY <1>6, TakenInv DEF DefaultAnswered, Receive, BaseInv
  <2>2. CallInv'
    BY <1>6, EndCallInv DEF DefaultAnswered, BaseInv
  <2>3. Head(miscCmd).cmd = "default" /\ Head(miscCmd).param = param[u]
    BY <1>6 DEF DefaultAnswered, Receive, Matches
  <2>4. param[u] \in Params /\ defaults[param[u]] \in {Unknown, IF param[u] \in Writable THEN param[u] ELSE Unsupported}
    BY DEF BaseInv, CallInv, KeptInv, DefaultsRight
  <2>5. Learnt(Head(miscCmd), defaults[param[u]])
            \in {Unknown, IF param[u] \in Writable THEN param[u] ELSE Unsupported}
    BY <2>1, <2>3, <2>4 DEF Learnt, Right
  <2>6. defaults' = [defaults EXCEPT ![param[u]] = Learnt(Head(miscCmd), defaults[param[u]])]
    BY <1>6 DEF DefaultAnswered
  <2>7. defaults' \in [Params -> Params \union {Unknown, Unsupported}] /\ DefaultsRight'
    BY <2>4, <2>5, <2>6 DEF BaseInv, KeptInv, DefaultsRight
  <2> QED BY <1>6, <2>1, <2>2, <2>7 DEF DefaultAnswered, BaseInv, KeptInv
<1>7. CASE SendError(u) \/ WaitError(u) \/ Cancel(u)
  <2>1. CallInv'
    BY <1>7, EndCallInv DEF SendError, WaitError, Cancel, BaseInv
  <2>2. pc[u] = "wait" => <<Head(rounds[u]), param[u]>> \in Commands \X Params
    BY ShapeFacts DEF BaseInv, CallInv
  <2>3. dropped' \subseteq Commands \X Params
    BY <1>7, <2>2 DEF SendError, WaitError, Cancel, BaseInv, KeptInv
  <2>4. cancels' \in Nat
    BY <1>7 DEF SendError, WaitError, Cancel, BaseInv, KeptInv
  <2> QED BY <1>7, <2>1, <2>3, <2>4
          DEF SendError, WaitError, Cancel, BaseInv, WireInv, KeptInv, DefaultsRight
<1> QED BY <1>1, <1>2, <1>3, <1>4, <1>5, <1>6, <1>7 DEF CallStep

\* A packet that arrives is put at the end, or lost.
LEMMA ArrivesInv ==
    ASSUME WireInv, NEW x \in Answers \union {Malformed}, Right(x), Arrives(x)
    PROVE  /\ misc' \in Seq(Answers \union {Malformed})
           /\ \A y \in Range(misc') : Right(y)
<1>1. CASE misc' = Append(misc, x)
  BY <1>1, AppendFacts DEF WireInv
<1>2. CASE misc' = misc
  BY <1>2 DEF WireInv
<1> QED BY <1>1, <1>2 DEF Arrives

LEMMA MalformedRight == Right(Malformed)
  BY DEF Right, Malformed

LEMMA AnswerRight ==
    ASSUME NEW r \in Requests
    PROVE  /\ FwAnswer(r) \in Answers /\ Right(FwAnswer(r))
           /\ FwRefusal(r) \in Answers /\ Right(FwRefusal(r))
<1>1. r.cmd \in Commands /\ r.param \in Params /\ r.by \in Users
  BY DEF Requests
<1> QED BY <1>1 DEF Answers, FwAnswer, FwRefusal, Right

LEMMA OtherStepBase ==
    ASSUME BaseInv, LoopStep \/ FwRequest \/ FwMalformed \/ DownlinkEnds \/ UplinkEnds
    PROVE  BaseInv'
<1>1. CASE LoopForward
  <2> DEFINE x == Head(misc)
  <2>1. x \in Answers /\ Right(x) /\ misc' \in Seq(Answers \union {Malformed})
        /\ Range(misc') \subseteq Range(misc)
    BY <1>1, QueueFacts DEF LoopForward, BaseInv, WireInv
  <2>2. miscCmd' = Append(miscCmd, x)
    BY <1>1 DEF LoopForward
  <2> HIDE DEF x
  <2>3. WireInv'
    BY <1>1, <2>1, <2>2, AppendFacts DEF LoopForward, BaseInv, WireInv
  <2> QED BY <1>1, <2>3 DEF LoopForward, BaseInv, CallInv, KeptInv, DefaultsRight
<1>2. CASE LoopEnd
  <2>1. WireInv'
    BY <1>2, EmptyFacts DEF LoopEnd, BaseInv, WireInv
  <2> QED BY <1>2, <2>1 DEF LoopEnd, BaseInv, CallInv, KeptInv, DefaultsRight
<1>3. CASE FwRequest
  <2> DEFINE r == Head(uplink)
  <2>1. /\ r \in Requests /\ r \in Range(uplink) /\ uplink' \in Seq(Requests)
        /\ Range(uplink') \subseteq Range(uplink)
    BY <1>3, QueueFacts DEF FwRequest, BaseInv, WireInv
  <2>2. \/ FwDoes(r) /\ Arrives(FwAnswer(r))
        \/ UNCHANGED stored /\ Arrives(FwRefusal(r))
    BY <1>3 DEF FwRequest
  <2> HIDE DEF r
  <2>3. stored' \subseteq Persistent
    BY <2>1, <2>2 DEF FwDoes, BaseInv, WireInv, KeptInv, Storing
  <2>4. /\ misc' \in Seq(Answers \union {Malformed})
        /\ \A y \in Range(misc') : Right(y)
    <3>1. WireInv
      BY DEF BaseInv
    <3>2. ASSUME NEW x \in Answers \union {Malformed}, Right(x), Arrives(x)
          PROVE  <2>4
      BY <3>1, <3>2, ArrivesInv
    <3> QED BY <2>1, <2>2, <3>2, AnswerRight
  <2>5. WireInv'
    BY <1>3, <2>1, <2>4 DEF FwRequest, BaseInv, WireInv
  <2> QED BY <1>3, <2>3, <2>5 DEF FwRequest, BaseInv, CallInv, KeptInv, DefaultsRight
<1>4. CASE FwMalformed
  <2>1. /\ misc' \in Seq(Answers \union {Malformed})
        /\ \A y \in Range(misc') : Right(y)
    BY <1>4, ArrivesInv, MalformedRight DEF FwMalformed, BaseInv
  <2>2. WireInv'
    BY <1>4, <2>1 DEF FwMalformed, BaseInv, WireInv
  <2> QED BY <1>4, <2>2 DEF FwMalformed, BaseInv, CallInv, KeptInv, DefaultsRight
<1>5. CASE DownlinkEnds
  <2>1. misc' \in Seq(Answers \union {Malformed}) /\ Range(misc') \subseteq Range(misc)
    BY <1>5, PrefixFacts DEF DownlinkEnds, BaseInv, WireInv
  <2>2. WireInv'
    BY <1>5, <2>1, EmptyFacts DEF DownlinkEnds, BaseInv, WireInv
  <2> QED BY <1>5, <2>2 DEF DownlinkEnds, BaseInv, CallInv, KeptInv, DefaultsRight
<1>6. CASE UplinkEnds
  <2>1. uplink' \in Seq(Requests) /\ Range(uplink') \subseteq Range(uplink)
    BY <1>6, PrefixFacts DEF UplinkEnds, BaseInv, WireInv
  <2>2. WireInv'
    BY <1>6, <2>1 DEF UplinkEnds, BaseInv, WireInv
  <2> QED BY <1>6, <2>2 DEF UplinkEnds, BaseInv, CallInv, KeptInv, DefaultsRight
<1> QED BY <1>1, <1>2, <1>3, <1>4, <1>5, <1>6 DEF LoopStep

LEMMA StepBase == BaseInv /\ [Next]_vars => BaseInv'
<1> SUFFICES ASSUME BaseInv, [Next]_vars PROVE BaseInv'
  OBVIOUS
<1>1. CASE UNCHANGED vars
  BY <1>1 DEF vars, BaseInv, CallInv, WireInv, KeptInv, DefaultsRight
<1>2. CASE Next
  BY <1>2, CallStepBase, OtherStepBase DEF Next
<1> QED BY <1>1, <1>2

\* The state has its types in every behaviour: in particular a task waits for an
\* answer exactly while it holds the lock, and only what can be stored is.
THEOREM TypeCorrect == Spec => []TypeOK
<1> QED BY InitBase, StepBase, BaseType, PTL DEF Spec

\* The cache of default values never holds the value of another parameter, nor
\* calls one unsupported that has a default value, whatever late answers of
\* dropped calls get_default_value takes.
THEOREM DefaultsNeverWrong == Spec => []DefaultsRight
<1>1. BaseInv => DefaultsRight
  BY DEF BaseInv, KeptInv
<1> QED BY <1>1, InitBase, StepBase, PTL DEF Spec

-----------------------------------------------------------------------------
(* Whose answer it is *)

\* No round given up, with the set D of those, has asked for this.
Fresh(D, x) == x.cmd \in Commands /\ <<x.cmd, x.param>> \notin D

One(D, q) == \A i, j \in 1..Len(q) : Fresh(D, q[i]) /\ Fresh(D, q[j]) => i = j
None(D, q) == \A x \in Range(q) : ~Fresh(D, x)

\* At most one of the three queues has a fresh packet, and no more than one.
Lone(D, a, b, c) ==
    /\ One(D, a) /\ One(D, b) /\ One(D, c)
    /\ None(D, a) \/ None(D, b)
    /\ None(D, a) \/ None(D, c)
    /\ None(D, b) \/ None(D, c)

\* q1 is what is left of q.
Part(q1, q) ==
    \/ q1 = q
    \/ q # <<>> /\ q1 = Tail(q)
    \/ \E n \in 0..Len(q) : q1 = SubSeq(q, 1, n)
    \/ q1 = <<>>

LEMMA PartFacts ==
    ASSUME NEW S, NEW D, NEW q \in Seq(S), NEW q1, Part(q1, q)
    PROVE  /\ q1 \in Seq(S) /\ Range(q1) \subseteq Range(q)
           /\ One(D, q) => One(D, q1)
           /\ None(D, q) => None(D, q1)
<1>1. CASE q1 = q
  BY <1>1
<1>2. CASE q # <<>> /\ q1 = Tail(q)
  <2>1. /\ q1 \in Seq(S) /\ Range(q1) \subseteq Range(q)
        /\ Len(q) \in Nat /\ Len(q1) \in Nat
        /\ \A i \in 1..Len(q1) : q1[i] = q[i + 1] /\ i + 1 \in 1..Len(q)
    BY <1>2, QueueFacts, LenProperties
  <2>2. One(D, q) => \A i, j \in 1..Len(q1) : Fresh(D, q1[i]) /\ Fresh(D, q1[j]) => i + 1 = j + 1
    BY <2>1 DEF One
  <2>3. \A i, j \in 1..Len(q1) : i + 1 = j + 1 => i = j
    BY <2>1
  <2> QED BY <2>1, <2>2, <2>3 DEF One, None
<1>3. ASSUME NEW n \in 0..Len(q), q1 = SubSeq(q, 1, n)
      PROVE  /\ q1 \in Seq(S) /\ Range(q1) \subseteq Range(q)
             /\ One(D, q) => One(D, q1)
             /\ None(D, q) => None(D, q1)
  <2>1. /\ q1 \in Seq(S) /\ Range(q1) \subseteq Range(q)
        /\ \A i \in 1..Len(q1) : q1[i] = q[i] /\ i \in 1..Len(q)
    BY <1>3, PrefixFacts
  <2> QED BY <2>1 DEF One, None
<1>4. CASE q1 = <<>>
  <2>1. q1 \in Seq(S) /\ Range(q1) = {} /\ Len(q1) = 0
    BY <1>4, EmptyFacts
  <2> QED BY <2>1 DEF One, None
<1> QED BY <1>1, <1>2, <1>3, <1>4 DEF Part

LEMMA TakenFacts ==
    ASSUME NEW S, NEW D, NEW q \in Seq(S), q # <<>>, One(D, q), Fresh(D, Head(q))
    PROVE  None(D, Tail(q))
<1> DEFINE t == Tail(q)
<1>1. /\ t \in Seq(S) /\ Head(q) = q[1] /\ 1 \in 1..Len(q)
      /\ \A i \in 1..Len(t) : t[i] = q[i + 1] /\ i + 1 \in 1..Len(q) /\ i + 1 # 1
  BY QueueFacts
<1> HIDE DEF t
<1>2. Range(t) = {t[i] : i \in 1..Len(t)}
  BY <1>1, RangeEquality
<1>3. \A i \in 1..Len(t) : ~Fresh(D, t[i])
  BY <1>1 DEF One
<1>4. None(D, t)
  BY <1>2, <1>3 DEF None
<1> QED BY <1>4 DEF t

LEMMA AddedFacts ==
    ASSUME NEW S, NEW D, NEW q \in Seq(S), NEW x \in S
    PROVE  /\ None(D, q) => One(D, Append(q, x))
           /\ One(D, q) /\ ~Fresh(D, x) => One(D, Append(q, x))
           /\ None(D, q) /\ ~Fresh(D, x) => None(D, Append(q, x))
<1> DEFINE a == Append(q, x)
<1>1. /\ Range(a) = Range(q) \union {x} /\ a[Len(q) + 1] = x
      /\ \A i \in 1..Len(q) : a[i] = q[i]
      /\ \A i \in 1..Len(a) : i \in 1..Len(q) \/ i = Len(q) + 1
      /\ \A i \in 1..Len(q) : q[i] \in Range(q)
  BY AppendFacts, QueueFacts
<1> HIDE DEF a
<1>2. None(D, q) => \A i \in 1..Len(a) : Fresh(D, a[i]) => i = Len(q) + 1
  BY <1>1 DEF None
<1>3. ~Fresh(D, x) => \A i \in 1..Len(a) : Fresh(D, a[i]) => i \in 1..Len(q) /\ a[i] = q[i]
  BY <1>1
<1>4. None(D, q) => One(D, a)
  BY <1>2 DEF One
<1>5. One(D, q) /\ ~Fresh(D, x) => One(D, a)
  BY <1>3 DEF One
<1>6. None(D, q) /\ ~Fresh(D, x) => None(D, a)
  BY <1>1 DEF None
<1> QED BY <1>4, <1>5, <1>6 DEF a

LEMMA MoreDropped ==
    ASSUME NEW D, NEW E, D \subseteq E, NEW q
    PROVE  (One(D, q) => One(E, q)) /\ (None(D, q) => None(E, q))
  BY DEF One, None, Fresh

\* Packets are lost or taken, and rounds given up.
LEMMA LoneFewer ==
    ASSUME NEW S, NEW T, NEW U, NEW D, NEW E, D \subseteq E,
           NEW a \in Seq(S), NEW b \in Seq(T), NEW c \in Seq(U), Lone(D, a, b, c),
           NEW a1, NEW b1, NEW c1, Part(a1, a), Part(b1, b), Part(c1, c)
    PROVE  Lone(E, a1, b1, c1)
<1>1. /\ One(D, a) => One(D, a1)
      /\ One(D, b) => One(D, b1)
      /\ One(D, c) => One(D, c1)
      /\ None(D, a) => None(D, a1)
      /\ None(D, b) => None(D, b1)
      /\ None(D, c) => None(D, c1)
  <2>1. (One(D, a) => One(D, a1)) /\ (None(D, a) => None(D, a1))
    BY PartFacts
  <2>2. (One(D, b) => One(D, b1)) /\ (None(D, b) => None(D, b1))
    BY PartFacts
  <2>3. (One(D, c) => One(D, c1)) /\ (None(D, c) => None(D, c1))
    BY PartFacts
  <2> QED BY <2>1, <2>2, <2>3
<1>2. Lone(D, a1, b1, c1)
  BY <1>1 DEF Lone
<1> QED BY <1>2, MoreDropped DEF Lone

\* The requests that can still be answered before the queue of answers closes.
Line == IF loop = "recv" \/ miscCmd # <<>> THEN uplink ELSE <<>>

Here == Range(Line) \union Range(misc) \union Range(miscCmd)

Current(x) == miscLock = x.by /\ Head(rounds[x.by]) = x.cmd /\ param[x.by] = x.param

\* There is at most one fresh packet, and it belongs to the call that waits.
OwnInv ==
    /\ loop = "ended" => misc = <<>>
    /\ \A x \in Here : Fresh(dropped, x) => Current(x)
    /\ Lone(dropped, Line, misc, miscCmd)

LEMMA InitOwn == Init => OwnInv
<1> SUFFICES ASSUME Init PROVE OwnInv
  OBVIOUS
<1>1. Line = <<>> /\ misc = <<>> /\ miscCmd = <<>> /\ loop = "recv"
  BY DEF Init, Line
<1>2. Range(<<>>) = {} /\ Len(<<>>) = 0
  BY EmptyFacts
<1> QED BY <1>1, <1>2 DEF OwnInv, Here, Lone, One, None

LEMMA LineFacts ==
    ASSUME BaseInv
    PROVE  /\ Line \in Seq(Requests) /\ Range(Line) \subseteq Range(uplink)
           /\ misc \in Seq(Answers \union {Malformed}) /\ miscCmd \in Seq(Answers)
           /\ \A x \in Here : Fresh(dropped, x) => x.by \in Users /\ x.param \in Params
<1>1. Line \in Seq(Requests) /\ Range(Line) \subseteq Range(uplink)
  BY EmptyFacts DEF Line, BaseInv, WireInv
<1>2. /\ Range(Line) \subseteq Requests /\ Range(misc) \subseteq Answers \union {Malformed}
      /\ Range(miscCmd) \subseteq Answers
  BY <1>1, QueueFacts DEF BaseInv, WireInv
<1>3. ~Fresh(dropped, Malformed)
  BY DEF Fresh, Malformed, Commands
<1>4. \A x \in Here : Fresh(dropped, x) => x \in Requests \union Answers
  BY <1>2, <1>3 DEF Here
<1>5. \A x \in Requests \union Answers : x.by \in Users /\ x.param \in Params
  BY DEF Requests, Answers
<1> QED BY <1>1, <1>4, <1>5 DEF BaseInv, WireInv

\* Packets are lost or taken, rounds given up, and those whose packets are
\* left go on.
LEMMA OwnFewer ==
    ASSUME BaseInv, OwnInv, dropped \subseteq dropped',
           Part(Line', Line), Part(misc', misc), Part(miscCmd', miscCmd),
           loop' = "ended" => misc' = <<>>,
           \A x \in Here' : Fresh(dropped', x) /\ Current(x) => Current(x)'
    PROVE  OwnInv'
<1>1. Lone(dropped', Line', misc', miscCmd')
  BY LineFacts, LoneFewer DEF OwnInv
<1>2. Here' \subseteq Here
  <2>1. Range(Line') \subseteq Range(Line)
    BY LineFacts, PartFacts
  <2>2. Range(misc') \subseteq Range(misc)
    BY LineFacts, PartFacts
  <2>3. Range(miscCmd') \subseteq Range(miscCmd)
    BY LineFacts, PartFacts
  <2> QED BY <2>1, <2>2, <2>3 DEF Here
<1>3. \A x \in Here' : Fresh(dropped', x) => Fresh(dropped, x)
  BY DEF Fresh
<1>4. \A x \in Here' : Fresh(dropped', x) => Current(x)'
  BY <1>2, <1>3 DEF OwnInv
<1> QED BY <1>1, <1>4 DEF OwnInv

\* With the lock free, nothing fresh is on its way.
LEMMA FreeNone ==
    ASSUME BaseInv, OwnInv, \A u \in Users : miscLock # u
    PROVE  \A x \in Here : ~Fresh(dropped, x)
  BY LineFacts DEF OwnInv, Current

\* With the answer taken that a call waits for, nothing fresh is left.
LEMMA ReceivedNone ==
    ASSUME BaseInv, OwnInv, NEW u \in Users, Receive(u)
    PROVE  /\ miscLock = u
           /\ None(dropped, Tail(miscCmd)) /\ None(dropped, misc) /\ None(dropped, Line)
<1> DEFINE x == Head(miscCmd)
<1>1. miscLock = u /\ x.cmd = Head(rounds[u]) /\ x.param = param[u] /\ x \in Range(miscCmd)
      /\ miscCmd # <<>> /\ miscCmd \in Seq(Answers) /\ Range(Tail(miscCmd)) \subseteq Range(miscCmd)
      /\ x \in Answers
  BY QueueFacts DEF Receive, Matches, BaseInv, CallInv, WireInv
<1>2. CASE Fresh(dropped, x)
  <2>1. None(dropped, Tail(miscCmd))
    BY <1>1, <1>2, TakenFacts DEF OwnInv, Lone
  <2>2. ~None(dropped, miscCmd)
    BY <1>1, <1>2 DEF None
  <2> QED BY <1>1, <2>1, <2>2 DEF OwnInv, Lone
<1>3. CASE ~Fresh(dropped, x)
  <2>1. <<Head(rounds[u]), param[u]>> \in dropped
    BY <1>1, <1>3 DEF Fresh, Answers
  <2>2. \A y \in Here : ~Fresh(dropped, y)
    BY <1>1, <2>1 DEF OwnInv, Current, Fresh
  <2> QED BY <1>1, <2>2 DEF Here, None
<1> QED BY <1>2, <1>3

LEMMA ReceivedOwn ==
    ASSUME BaseInv, OwnInv, NEW u \in Users, Receive(u),
           UNCHANGED <<loop, uplink, misc, dropped>>
    PROVE  OwnInv'
<1>1. miscCmd # <<>> /\ miscCmd' = Tail(miscCmd)
  BY DEF Receive
<1>2. Line' = Line \/ Line' = <<>>
  BY <1>1 DEF Line
<1>3. \A x \in Here' : ~Fresh(dropped, x)
  <2>1. Range(<<>>) = {}
    BY EmptyFacts
  <2> QED BY <1>1, <1>2, <2>1, ReceivedNone DEF Here, None
<1>4. Part(Line', Line) /\ Part(misc', misc) /\ Part(miscCmd', miscCmd)
  BY <1>1, <1>2 DEF Part
<1> QED BY <1>3, <1>4, OwnFewer DEF OwnInv

\* A call ends that has nothing fresh on its way.
LEMMA EndedOwn ==
    ASSUME BaseInv, OwnInv, NEW u \in Users, EndCall(u), dropped \subseteq dropped',
           UNCHANGED <<loop, uplink, misc, miscCmd>>,
           miscLock = u => \A x \in Here : ~Fresh(dropped', x)
    PROVE  OwnInv'
<1>1. Line' = Line /\ Here' = Here
  BY DEF Line, Here
<1>2. \A x \in Here' : Fresh(dropped', x) /\ Current(x) => Current(x)'
  <2> SUFFICES ASSUME NEW x \in Here, Fresh(dropped', x), Current(x) PROVE Current(x)'
    BY <1>1
  <2>1. x.by \in Users /\ miscLock = x.by /\ x.by # u
    BY LineFacts DEF Current, Fresh
  <2>2. miscLock' = miscLock /\ rounds'[x.by] = rounds[x.by] /\ param'[x.by] = param[x.by]
    BY <2>1 DEF EndCall, BaseInv, CallInv
  <2> QED BY <2>2 DEF Current
<1> QED BY <1>1, <1>2, OwnFewer DEF Part, OwnInv

LEMMA CallStepOwn ==
    ASSUME BaseInv, OwnInv, NEW u \in Users,
           CallStep(u) \/ Cancel(u) \/ \E c \in Commands, p \in Params : Call(u, c, p)
    PROVE  OwnInv'
<1>1. ASSUME NEW c \in Commands, NEW p \in Params, Call(u, c, p) PROVE OwnInv'
  <2>1. Line' = Line /\ misc' = misc /\ miscCmd' = miscCmd
    BY <1>1 DEF Call, Line
  <2>2. Here' = Here
    BY <2>1 DEF Here
  <2>3. \A x \in Here' : Fresh(dropped', x) /\ Current(x) => Current(x)'
    <3> SUFFICES ASSUME NEW x \in Here, Fresh(dropped, x), Current(x) PROVE Current(x)'
      BY <1>1, <2>2 DEF Call
    <3>1. x.by \in Users /\ miscLock = x.by /\ x.by # u
      BY <1>1, LineFacts DEF Current, Call, BaseInv, CallInv
    <3> QED BY <1>1, <3>1 DEF Current, Call, BaseInv, CallInv
  <2> QED BY <1>1, <2>1, <2>3, OwnFewer DEF Part, OwnInv, Call
<1>2. CASE Send(u)
  <2>1. PICK r \in Requests : r = [cmd |-> Head(rounds[u]), param |-> param[u], by |-> u]
    BY <1>2, ShapeFacts DEF Send, BaseInv, CallInv, Requests
  <2>2. miscLock' = u /\ UNCHANGED <<rounds, param, dropped, misc, miscCmd, loop>>
    BY <1>2 DEF Send, HoldLock
  <2>3. Current(r)'
    BY <2>1, <2>2 DEF Current
  <2>4. \A x \in Here : ~Fresh(dropped, x)
    BY <1>2, FreeNone, HolderAssumption DEF Send
  <2>5. uplink' = Append(uplink, r) \/ uplink' = uplink
    BY <1>2, <2>1 DEF Send
  <2>6. Line' = Append(Line, r) \/ Line' = Line
    BY <2>2, <2>5 DEF Line
  <2>7. None(dropped, Line) /\ None(dropped, misc) /\ None(dropped, miscCmd)
    BY <2>4 DEF Here, None
  <2>8. Range(Line') \subseteq Range(Line) \union {r} /\ One(dropped, Line')
    <3>1. Line \in Seq(Requests)
      BY LineFacts
    <3>2. Range(Append(Line, r)) = Range(Line) \union {r} /\ One(dropped, Append(Line, r))
      BY <2>7, <3>1, AppendFacts, AddedFacts
    <3> QED BY <2>6, <3>2 DEF OwnInv, Lone
  <2>9. Lone(dropped', Line', misc', miscCmd')
    BY <2>2, <2>7, <2>8 DEF OwnInv, Lone
  <2>10. \A x \in Here' : Fresh(dropped, x) => x = r
    BY <2>2, <2>4, <2>8 DEF Here
  <2> QED BY <2>2, <2>3, <2>9, <2>10 DEF OwnInv
<1>3. CASE Discard(u)
  <2>1. miscCmd' = Tail(miscCmd) /\ miscCmd # <<>>
        /\ UNCHANGED <<callVars, miscLock, loop, uplink, misc, dropped>>
    BY <1>3 DEF Discard
  <2>2. Line' = Line \/ Line' = <<>>
    BY <2>1 DEF Line
  <2>3. \A x \in Here' : Current(x) => Current(x)'
    BY <2>1 DEF Current
  <2> QED BY <2>1, <2>2, <2>3, OwnFewer DEF Part, OwnInv
<1>4. CASE IsPersistent(u) \/ NotPersistent(u) \/ DefaultAnswered(u) \/ Answered(u)
  BY <1>4, ReceivedOwn DEF IsPersistent, NotPersistent, DefaultAnswered, Answered
<1>5. CASE SendError(u)
  <2>1. miscLock # u
    BY <1>5, HolderAssumption DEF SendError
  <2> QED BY <1>5, <2>1, EndedOwn DEF SendError
<1>6. CASE WaitError(u)
  <2>1. \A x \in Here : ~Fresh(dropped, x)
    BY <1>6, EmptyFacts DEF WaitError, Closed, Here, Line, OwnInv
  <2> QED BY <1>6, <2>1, EndedOwn DEF WaitError
<1>7. CASE Cancel(u)
  <2>1. dropped \subseteq dropped'
    BY <1>7 DEF Cancel
  <2>2. ASSUME miscLock = u, NEW x \in Here PROVE ~Fresh(dropped', x)
    <3>1. pc[u] = "wait"
      BY <2>2 DEF BaseInv, CallInv
    <3>2. <<Head(rounds[u]), param[u]>> \in dropped'
      BY <1>7, <3>1 DEF Cancel
    <3> QED BY <2>1, <2>2, <3>2 DEF Fresh, OwnInv, Current
  <2> QED BY <1>7, <2>1, <2>2, EndedOwn DEF Cancel
<1> QED BY <1>1, <1>2, <1>3, <1>4, <1>5, <1>6, <1>7 DEF CallStep

\* What is fresh depends on what is asked, not on the answer.
LEMMA SameFresh ==
    ASSUME NEW r \in Requests, NEW x \in {FwAnswer(r), FwRefusal(r)}
    PROVE  /\ x \in Answers /\ x.cmd = r.cmd /\ x.param = r.param /\ x.by = r.by
           /\ \A D : Fresh(D, x) <=> Fresh(D, r)
           /\ Current(x) <=> Current(r)
<1>1. x \in Answers
  BY AnswerRight
<1>2. x.cmd = r.cmd /\ x.param = r.param /\ x.by = r.by
  BY DEF FwAnswer, FwRefusal
<1> QED BY <1>1, <1>2 DEF Fresh, Current

\* What is taken off one queue and put on the next is alone if it was.
LEMMA LoneMoved ==
    ASSUME NEW S, NEW T, NEW D, NEW q \in Seq(S), q # <<>>, NEW p \in Seq(T), NEW x \in T,
           Fresh(D, x) <=> Fresh(D, Head(q)), One(D, q), One(D, p), None(D, q) \/ None(D, p)
    PROVE  /\ One(D, Tail(q)) /\ One(D, Append(p, x))
           /\ None(D, Tail(q)) \/ None(D, Append(p, x))
           /\ None(D, q) => None(D, Tail(q))
           /\ None(D, q) /\ None(D, p) => None(D, Append(p, x))
<1>1. Part(Tail(q), q) /\ Head(q) \in Range(q)
  BY QueueFacts DEF Part
<1>2. One(D, Tail(q)) /\ (None(D, q) => None(D, Tail(q)))
  BY <1>1, PartFacts
<1>3. CASE Fresh(D, x)
  <2>1. None(D, Tail(q)) /\ ~None(D, q)
    BY <1>1, <1>3, TakenFacts DEF None
  <2> QED BY <1>2, <2>1, AddedFacts
<1>4. CASE ~Fresh(D, x)
  BY <1>2, <1>4, AddedFacts
<1> QED BY <1>3, <1>4

\* Here, the packets are those of before, or one of them in another place.
LEMMA SameCurrent ==
    ASSUME OwnInv, UNCHANGED <<miscLock, rounds, param, dropped>>,
           \A x \in Here' : Fresh(dropped, x) =>
               \E y \in Here : Fresh(dropped, y) /\ y.cmd = x.cmd /\ y.param = x.param /\ y.by = x.by
    PROVE  \A x \in Here' : Fresh(dropped', x) => Current(x)'
<1> SUFFICES ASSUME NEW x \in Here', Fresh(dropped, x) PROVE Current(x)'
  OBVIOUS
<1>1. PICK y \in Here : Fresh(dropped, y) /\ y.cmd = x.cmd /\ y.param = x.param /\ y.by = x.by
  OBVIOUS
<1>2. Current(y)
  BY <1>1 DEF OwnInv
<1> QED BY <1>1, <1>2 DEF Current

LEMMA OtherStepOwn ==
    ASSUME BaseInv, OwnInv, LoopStep \/ FwRequest \/ FwMalformed \/ DownlinkEnds \/ UplinkEnds
    PROVE  OwnInv'
<1>0. /\ Line \in Seq(Requests) /\ misc \in Seq(Answers \union {Malformed})
      /\ miscCmd \in Seq(Answers) /\ ~Fresh(dropped, Malformed)
  BY LineFacts DEF Fresh, Malformed, Commands
<1>1. CASE LoopForward
  <2>1. PICK x \in Answers : x = Head(misc)
    BY <1>0, <1>1, QueueFacts DEF LoopForward
  <2>2. /\ misc # <<>> /\ misc' = Tail(misc) /\ miscCmd' = Append(miscCmd, x)
        /\ loop = "recv" /\ UNCHANGED <<callVars, miscLock, loop, uplink, dropped>>
    BY <1>1, <2>1 DEF LoopForward
  <2>3. Line' = Line
    BY <2>2 DEF Line
  <2>4. Lone(dropped, Line, misc', miscCmd')
    BY <1>0, <2>1, <2>2, LoneMoved DEF OwnInv, Lone
  <2>5. Range(misc') \subseteq Range(misc) /\ Range(miscCmd') = Range(miscCmd) \union {x}
        /\ x \in Range(misc)
    BY <1>0, <2>1, <2>2, QueueFacts, AppendFacts
  <2>6. Here' \subseteq Here
    BY <2>3, <2>5 DEF Here
  <2> QED BY <2>2, <2>3, <2>4, <2>6, SameCurrent DEF OwnInv
<1>2. CASE LoopEnd
  <2>1. Line' = Line \/ Line' = <<>>
    BY <1>2 DEF LoopEnd, Line
  <2>2. \A x \in Here' : Current(x) => Current(x)'
    BY <1>2 DEF LoopEnd, Current
  <2> QED BY <1>2, <2>1, <2>2, OwnFewer DEF Part, LoopEnd
<1>3. CASE FwRequest
  <2>1. PICK r \in Requests : r = Head(uplink)
    BY <1>3, QueueFacts DEF FwRequest, BaseInv, WireInv
  <2>2. PICK x \in {FwAnswer(r), FwRefusal(r)} : Arrives(x)
    BY <1>3, <2>1 DEF FwRequest
  <2>3. /\ uplink # <<>> /\ uplink' = Tail(uplink)
        /\ UNCHANGED <<callVars, miscLock, loop, miscCmd, dropped>>
    BY <1>3 DEF FwRequest
  <2>4. CASE loop # "recv"
    <3>1. misc' = misc
      BY <2>2, <2>4 DEF Arrives
    <3>2. Part(Line', Line)
      BY <2>3, <2>4 DEF Line, Part
    <3>3. \A y \in Here' : Current(y) => Current(y)'
      BY <2>3 DEF Current
    <3> QED BY <2>3, <3>1, <3>2, <3>3, OwnFewer DEF Part, OwnInv
  <2>5. CASE loop = "recv"
    <3>1. misc' = Append(misc, x) /\ Line = uplink /\ Line' = Tail(Line)
      BY <2>2, <2>3, <2>5 DEF Arrives, Line
    <3>2. x \in Answers \union {Malformed} /\ (Fresh(dropped, x) <=> Fresh(dropped, Head(Line)))
      BY <2>1, <3>1, SameFresh
    <3>3. Lone(dropped, Line', misc', miscCmd)
      BY <1>0, <2>3, <3>1, <3>2, LoneMoved DEF OwnInv, Lone
    <3>4. Range(Line') \subseteq Range(Line) /\ Range(misc') = Range(misc) \union {x} /\ r \in Range(Line)
      <4>1. Range(Tail(Line)) \subseteq Range(Line) /\ r \in Range(Line)
        BY <1>0, <2>1, <2>3, <3>1, QueueFacts
      <4>2. Range(Append(misc, x)) = Range(misc) \union {x}
        BY <1>0, <3>2, AppendFacts
      <4> QED BY <3>1, <4>1, <4>2
    <3>5. /\ Fresh(dropped, x) => Fresh(dropped, r)
          /\ r.cmd = x.cmd /\ r.param = x.param /\ r.by = x.by
      BY SameFresh
    <3>6. \A y \in Here' : y \in Here \/ y = x
      BY <2>3, <3>4 DEF Here
    <3>7. r \in Here
      BY <3>4 DEF Here
    <3>8. \A y \in Here' : Fresh(dropped', y) => Current(y)'
      BY <2>3, <3>5, <3>6, <3>7, SameCurrent
    <3> QED BY <2>3, <2>5, <3>3, <3>8 DEF OwnInv
  <2> QED BY <2>4, <2>5
<1>4. CASE FwMalformed
  <2>1. UNCHANGED <<callVars, miscLock, loop, uplink, miscCmd, dropped>> /\ Line' = Line
    BY <1>4 DEF FwMalformed, Line
  <2>2. misc' = misc \/ (loop = "recv" /\ misc' = Append(misc, Malformed))
    BY <1>4 DEF FwMalformed, Arrives
  <2>3. /\ Range(misc') \subseteq Range(misc) \union {Malformed}
        /\ One(dropped, misc) => One(dropped, misc')
        /\ None(dropped, misc) => None(dropped, misc')
    <3>1. misc \in Seq(Answers \union {Malformed}) /\ Malformed \in Answers \union {Malformed}
      BY <1>0
    <3>2. /\ Range(Append(misc, Malformed)) = Range(misc) \union {Malformed}
          /\ One(dropped, misc) => One(dropped, Append(misc, Malformed))
          /\ None(dropped, misc) => None(dropped, Append(misc, Malformed))
      BY <1>0, <3>1, AppendFacts, AddedFacts
    <3> QED BY <2>2, <3>2
  <2>4. \A x \in Here' : x \in Here \/ x = Malformed
    BY <2>1, <2>3 DEF Here
  <2>5. \A x \in Here' : Fresh(dropped', x) => Current(x)'
    BY <1>0, <2>1, <2>4, SameCurrent
  <2>6. Lone(dropped', Line', misc', miscCmd')
    BY <2>1, <2>3 DEF OwnInv, Lone
  <2> QED BY <2>1, <2>2, <2>5, <2>6 DEF OwnInv
<1>5. CASE DownlinkEnds
  <2>1. PICK n \in 0..Len(misc) : misc' = SubSeq(misc, 1, n)
    BY <1>5 DEF DownlinkEnds
  <2>2. Part(misc', misc)
    BY <2>1 DEF Part
  <2>3. Line' = <<>> /\ miscCmd' = miscCmd
    BY <1>5 DEF DownlinkEnds, Line
  <2>4. loop' = "ended" => misc' = <<>>
    <3>1. ASSUME misc = <<>> PROVE misc' = <<>>
      BY <2>1, <3>1, EmptyFacts, EmptySeq
    <3> QED BY <1>5, <3>1 DEF DownlinkEnds, OwnInv
  <2>5. \A x \in Here' : Current(x) => Current(x)'
    BY <1>5 DEF DownlinkEnds, Current
  <2> QED BY <1>5, <2>2, <2>3, <2>4, <2>5, OwnFewer DEF Part, DownlinkEnds
<1>6. CASE UplinkEnds
  <2>1. PICK n \in 0..Len(uplink) : uplink' = SubSeq(uplink, 1, n)
    BY <1>6 DEF UplinkEnds
  <2>2. Part(Line', Line)
    BY <1>6, <2>1 DEF Part, Line, UplinkEnds
  <2>3. \A x \in Here' : Current(x) => Current(x)'
    BY <1>6 DEF UplinkEnds, Current
  <2> QED BY <1>6, <2>2, <2>3, OwnFewer DEF Part, UplinkEnds, OwnInv
<1> QED BY <1>1, <1>2, <1>3, <1>4, <1>5, <1>6 DEF LoopStep

LEMMA StepOwn == BaseInv /\ OwnInv /\ [Next]_vars => OwnInv'
<1> SUFFICES ASSUME BaseInv, OwnInv, [Next]_vars PROVE OwnInv'
  OBVIOUS
<1>1. CASE UNCHANGED vars
  <2>1. Line' = Line /\ Here' = Here
    BY <1>1 DEF vars, Line, Here
  <2>2. \A x \in Here' : Current(x) => Current(x)'
    BY <1>1 DEF vars, Current
  <2> QED BY <1>1, <2>1, <2>2, OwnFewer DEF vars, Part, OwnInv
<1>2. CASE Next
  BY <1>2, CallStepOwn, OtherStepOwn DEF Next
<1> QED BY <1>1, <1>2

\* Concurrent queries get each their own answer, unless the same request was
\* made before by a call that has been dropped: the lock is held from before the
\* sending to the answer.
THEOREM AnswersOwn == Spec => []OwnAnswers
<1>1. BaseInv /\ OwnInv => OwnAnswers
  <2> SUFFICES ASSUME BaseInv, OwnInv, NEW u \in Users, Takes(u),
                      <<Head(rounds[u]), param[u]>> \notin dropped
               PROVE  Head(miscCmd).by = u
    BY DEF OwnAnswers
  <2> DEFINE x == Head(miscCmd)
  <2>1. x \in Range(miscCmd) /\ x \in Answers
    BY QueueFacts DEF Takes, BaseInv, WireInv
  <2>2. Fresh(dropped, x)
    BY <2>1 DEF Fresh, Takes, Matches, Answers
  <2>3. Current(x)
    BY <2>1, <2>2 DEF OwnInv, Here
  <2> QED BY <2>3 DEF Current, Takes, BaseInv, CallInv
<1> DEFINE Inv == BaseInv /\ OwnInv
<1>2. Init => Inv
  BY InitBase, InitOwn
<1>3. Inv /\ [Next]_vars => Inv'
  BY StepBase, StepOwn
<1>4. Inv => OwnAnswers
  BY <1>1
<1> HIDE DEF Inv
<1> QED BY <1>2, <1>3, <1>4, PTL DEF Spec

-----------------------------------------------------------------------------
(* What the answers say is still true *)

\* No round that stores or clears p has been given up.
Undropped(p) == <<"store", p>> \notin dropped /\ <<"clear", p>> \notin dropped

Due == Range(misc) \union Range(miscCmd)

Holds(x) ==
    /\ x.cmd = "store" => x.param \in stored
    /\ x.cmd = "clear" => x.param \notin stored
    /\ x.cmd = "state" => x.data = (x.param \in stored)

Sure(x) == x.cmd \in Storing /\ Fresh(dropped, x) /\ x.status = "ok" /\ Undropped(x.param)

\* A fresh answer about the storage of a parameter holds until it is taken.
HoldInv == \A x \in Due : Sure(x) => Holds(x)

Agrees(p) ==
    /\ done[p] = "store" => p \in stored
    /\ done[p] = "clear" => p \notin stored

\* A store or a clear of p has succeeded, and its call does not know yet.
DoneDue(p) == \E x \in Due : x.cmd \in {"store", "clear"} /\ x.param = p /\ x.status = "ok"

\* The program and the storage agree on p, or will when the answer is taken.
LastInv ==
    downlinkUp /\ loop = "recv"
        => \A p \in Params : Undropped(p) => Agrees(p) \/ DoneDue(p)

LEMMA InitHold == Init => HoldInv /\ LastInv
<1> SUFFICES ASSUME Init PROVE HoldInv /\ LastInv
  OBVIOUS
<1>1. Due = {}
  BY EmptyFacts DEF Init, Due
<1> QED BY <1>1 DEF Init, HoldInv, LastInv, Agrees

\* Nothing but the Crazyflie changes the storage.
LEMMA HoldSame ==
    ASSUME HoldInv, stored' = stored, dropped \subseteq dropped',
           \A x \in Due' : x \in Due \/ x = Malformed
    PROVE  HoldInv'
<1> SUFFICES ASSUME NEW x \in Due', Sure(x)' PROVE Holds(x)'
  BY DEF HoldInv
<1>1. x # Malformed
  BY DEF Malformed, Sure, Storing
<1>2. Sure(x)
  BY DEF Sure, Fresh, Undropped
<1>3. Holds(x)
  BY <1>1, <1>2 DEF HoldInv
<1> QED BY <1>3 DEF Holds

LEMMA LastSame ==
    ASSUME LastInv, UNCHANGED <<stored, done>>, dropped \subseteq dropped',
           downlinkUp' /\ loop' = "recv" => downlinkUp /\ loop = "recv",
           downlinkUp' /\ loop' = "recv" =>
               \A x \in Due : x.cmd \in {"store", "clear"} /\ Undropped(x.param)' => x \in Due'
    PROVE  LastInv'
<1> SUFFICES ASSUME downlinkUp' /\ loop' = "recv", NEW p \in Params, Undropped(p)'
             PROVE  Agrees(p)' \/ DoneDue(p)'
  BY DEF LastInv
<1>1. Agrees(p) \/ DoneDue(p)
  BY DEF LastInv, Undropped
<1>2. Agrees(p) => Agrees(p)'
  BY DEF Agrees
<1>3. DoneDue(p) => DoneDue(p)'
  BY DEF DoneDue, Undropped
<1> QED BY <1>1, <1>2, <1>3

\* The answer a call takes.
LEMMA ReceivedHold ==
    ASSUME BaseInv, OwnInv, HoldInv, LastInv, NEW u \in Users, Receive(u),
           UNCHANGED <<loop, misc, stored, dropped, downlinkUp>>,
           done' = IF Head(rounds[u]) \in {"store", "clear"} /\ Head(miscCmd).status = "ok"
                   THEN [done EXCEPT ![param[u]] = Head(rounds[u])] ELSE done
    PROVE  HoldInv' /\ LastInv'
<1> DEFINE x == Head(miscCmd)
<1>1. /\ x \in Answers /\ x \in Due /\ x.cmd = Head(rounds[u]) /\ x.param = param[u]
      /\ param[u] \in Params
  BY QueueFacts DEF Receive, Matches, BaseInv, CallInv, WireInv, Due
<1>2. \A y \in Due' : y \in Due
  BY QueueFacts DEF Receive, BaseInv, WireInv, Due
<1>3. \A y \in Due : y \in Due' \/ y = x
  BY QueueFacts DEF Receive, BaseInv, WireInv, Due
<1>4. HoldInv'
  BY <1>2, HoldSame
<1>5. ASSUME downlinkUp' /\ loop' = "recv", NEW p \in Params, Undropped(p)'
      PROVE  Agrees(p)' \/ DoneDue(p)'
  <2>1. Undropped(p) /\ (Agrees(p) \/ DoneDue(p))
    BY <1>5 DEF LastInv, Undropped
  <2>2. CASE x.cmd \in {"store", "clear"} /\ x.param = p /\ x.status = "ok"
    <3>1. Sure(x)
      BY <1>1, <2>1, <2>2 DEF Sure, Undropped, Fresh, Commands, Storing
    <3>2. Holds(x)
      BY <1>1, <3>1 DEF HoldInv
    <3>3. done'[p] = x.cmd
      BY <1>1, <2>2 DEF BaseInv, KeptInv
    <3> QED BY <2>2, <3>2, <3>3 DEF Agrees, Holds
  <2>3. CASE ~(x.cmd \in {"store", "clear"} /\ x.param = p /\ x.status = "ok")
    <3>1. done'[p] = done[p]
      BY <1>1, <2>3 DEF BaseInv, KeptInv
    <3>2. Agrees(p) => Agrees(p)'
      BY <3>1 DEF Agrees
    <3>3. DoneDue(p) => DoneDue(p)'
      BY <1>3, <2>3 DEF DoneDue
    <3> QED BY <2>1, <3>2, <3>3
  <2> QED BY <2>2, <2>3
<1> QED BY <1>4, <1>5 DEF LastInv

LEMMA CallStepHold ==
    ASSUME BaseInv, OwnInv, HoldInv, LastInv, NEW u \in Users,
           CallStep(u) \/ Cancel(u) \/ \E c \in Commands, p \in Params : Call(u, c, p)
    PROVE  HoldInv' /\ LastInv'
<1>1. ASSUME UNCHANGED <<misc, miscCmd, stored, done, downlinkUp, loop>>, dropped \subseteq dropped'
      PROVE  HoldInv' /\ LastInv'
  <2>1. Due' = Due
    BY <1>1 DEF Due
  <2> QED BY <1>1, <2>1, HoldSame, LastSame
<1>2. ASSUME NEW c \in Commands, NEW p \in Params, Call(u, c, p) PROVE HoldInv' /\ LastInv'
  BY <1>1, <1>2 DEF Call
<1>3. CASE Send(u) \/ SendError(u) \/ WaitError(u) \/ Cancel(u)
  BY <1>1, <1>3 DEF Send, SendError, WaitError, Cancel
<1>4. CASE Discard(u)
  <2> DEFINE x == Head(miscCmd)
  <2>1. /\ miscCmd # <<>> /\ miscCmd' = Tail(miscCmd) /\ pc[u] = "wait" /\ ~Matches(u, x)
        /\ UNCHANGED <<misc, stored, done, dropped, downlinkUp, loop>>
    BY <1>4 DEF Discard
  <2>2. \A y \in Due' : y \in Due
    BY <2>1, QueueFacts DEF BaseInv, WireInv, Due
  <2>3. \A y \in Due : y \in Due' \/ y = x
    BY <2>1, QueueFacts DEF BaseInv, WireInv, Due
  <2>4. ~(x.cmd \in {"store", "clear"} /\ Undropped(x.param))
    <3>1. SUFFICES ASSUME x.cmd \in {"store", "clear"}, Undropped(x.param) PROVE FALSE
      OBVIOUS
    <3>2. Fresh(dropped, x) /\ x \in Here
      BY <2>1, <3>1, QueueFacts DEF Fresh, Undropped, Commands, Here, BaseInv, WireInv
    <3>3. Current(x) /\ miscLock = u
      BY <2>1, <3>2 DEF OwnInv, BaseInv, CallInv
    <3> QED BY <2>1, <3>3 DEF Current, Matches
  <2>5. \A y \in Due : y.cmd \in {"store", "clear"} /\ Undropped(y.param)' => y \in Due'
    BY <2>1, <2>3, <2>4 DEF Undropped
  <2> QED BY <2>1, <2>2, <2>5, HoldSame, LastSame
<1>5. CASE Answered(u)
  BY <1>5, ReceivedHold DEF Answered
<1>6. CASE IsPersistent(u) \/ NotPersistent(u) \/ DefaultAnswered(u)
  <2>1. Head(rounds[u]) \notin {"store", "clear"}
    <3>1. CASE Len(rounds[u]) = 2
      BY <3>1, ShapeFacts DEF BaseInv, CallInv
    <3>2. CASE rounds[u] = <<"default">>
      BY <3>2
    <3> QED BY <1>6, <3>1, <3>2 DEF IsPersistent, NotPersistent, DefaultAnswered
  <2> QED BY <1>6, <2>1, ReceivedHold DEF IsPersistent, NotPersistent, DefaultAnswered
<1> QED BY <1>2, <1>3, <1>4, <1>5, <1>6 DEF CallStep

\* Nobody asks for the storage of a parameter while an answer about it is due.
LEMMA RequestAlone ==
    ASSUME BaseInv, OwnInv, downlinkUp, uplink # <<>>,
           NEW x \in Due, Sure(x), Fresh(dropped, Head(uplink))
    PROVE  FALSE
<1>1. Line = uplink
  <2>1. x \in Range(misc) => loop = "recv"
    BY EmptyFacts DEF OwnInv, BaseInv, KeptInv
  <2>2. x \in Range(miscCmd) => miscCmd # <<>>
    BY EmptyFacts
  <2> QED BY <2>1, <2>2 DEF Due, Line
<1>2. ~None(dropped, Line)
  BY <1>1, QueueFacts DEF None, BaseInv, WireInv
<1>3. ~None(dropped, misc) \/ ~None(dropped, miscCmd)
  BY DEF Due, Sure, None
<1> QED BY <1>2, <1>3 DEF OwnInv, Lone

LEMMA TruthValue ==
    ASSUME NEW d \in BOOLEAN, NEW x, NEW S, d <=> x \in S
    PROVE  d = (x \in S)
  OBVIOUS

LEMMA RequestHold ==
    ASSUME BaseInv, OwnInv, HoldInv, LastInv, FwRequest
    PROVE  HoldInv' /\ LastInv'
<1>1. PICK r \in Requests : r = Head(uplink)
  BY QueueFacts DEF FwRequest, BaseInv, WireInv
<1>2. PICK a \in {FwAnswer(r), FwRefusal(r)} :
          /\ Arrives(a)
          /\ a = FwAnswer(r) => FwDoes(r)
          /\ a # FwAnswer(r) => UNCHANGED stored
  <2>1. \/ FwDoes(r) /\ Arrives(FwAnswer(r))
        \/ UNCHANGED stored /\ Arrives(FwRefusal(r))
    BY <1>1 DEF FwRequest
  <2>2. FwAnswer(r) # FwRefusal(r)
    BY DEF FwAnswer, FwRefusal, Requests, Commands
  <2> QED BY <2>1, <2>2
<1>3. UNCHANGED <<loop, miscCmd, dropped, done, downlinkUp>> /\ downlinkUp /\ uplink # <<>>
  BY DEF FwRequest
<1>4. a \in Answers /\ a.cmd = r.cmd /\ a.param = r.param
  BY SameFresh
<1>5. Due' = Due \/ (loop = "recv" /\ Due' = Due \union {a})
  <2>1. Range(Append(misc, a)) = Range(misc) \union {a}
    BY <1>4, AppendFacts DEF BaseInv, WireInv
  <2> QED BY <1>2, <1>3, <2>1 DEF Arrives, Due
<1>6. loop = "recv" => a \in Due'
  <2>1. Range(Append(misc, a)) = Range(misc) \union {a}
    BY <1>4, AppendFacts DEF BaseInv, WireInv
  <2> QED BY <1>2, <2>1 DEF Arrives, Due
<1>7. a.status = "ok" => FwDoes(r) /\ Holds(a)'
  <2>1. a.status = "ok" => a = FwAnswer(r)
    BY <1>2 DEF FwRefusal
  <2>2. a = FwAnswer(r) => FwDoes(r)
    BY <1>2
  <2>3. FwDoes(r) /\ a = FwAnswer(r) => Holds(a)'
    <3> SUFFICES ASSUME FwDoes(r), a = FwAnswer(r) PROVE Holds(a)'
      OBVIOUS
    <3>1. a.cmd = r.cmd /\ a.param = r.param
      BY <1>4
    <3>2. r.cmd = "store" => r.param \in stored'
      BY DEF FwDoes
    <3>3. r.cmd = "clear" => r.param \notin stored'
      BY DEF FwDoes
    <3>4. ASSUME r.cmd = "state" PROVE a.data = (r.param \in stored')
      <4>1. stored' = stored
        BY <3>4 DEF FwDoes
      <4>2. a.data = (r.param \in stored)
        <5>1. a.data \in BOOLEAN
          BY <1>4 DEF Answers
        <5>2. a.data <=> r.param \in stored
          BY <3>4 DEF FwAnswer
        <5> QED BY <5>1, <5>2, TruthValue
      <4> QED BY <4>1, <4>2
    <3> QED BY <3>1, <3>2, <3>3, <3>4 DEF Holds
  <2> QED BY <2>1, <2>2, <2>3
<1>8. \A p \in Params : (p \in stored' <=> p \in stored) \/ (r.param = p /\ r.cmd \in {"store", "clear"} /\ a.status = "ok")
  <2>1. a = FwAnswer(r) => (r.cmd # "default" => a.status = "ok")
    BY DEF FwAnswer
  <2>2. FwDoes(r) => \A p \in Params : (p \in stored' <=> p \in stored) \/ (r.param = p /\ r.cmd \in {"store", "clear"})
    BY DEF FwDoes
  <2> QED BY <1>2, <2>1, <2>2
<1>9. HoldInv'
  <2> SUFFICES ASSUME NEW x \in Due', Sure(x)' PROVE Holds(x)'
    BY DEF HoldInv
  <2>1. Sure(x)
    BY <1>3 DEF Sure, Fresh, Undropped
  <2>2. CASE x = a
    BY <1>7, <2>1, <2>2 DEF Sure
  <2>3. CASE x # a
    <3>1. x \in Due /\ Holds(x)
      BY <1>5, <2>1, <2>3 DEF HoldInv
    <3>2. x.param \in Params
      BY <2>1, <3>1, LineFacts DEF Sure, Due, Here
    <3>3. CASE r.param = x.param /\ r.cmd \in {"store", "clear"}
      <4>1. Fresh(dropped, r)
        BY <2>1, <3>3 DEF Fresh, Sure, Undropped, Commands
      <4> QED BY <1>1, <1>3, <2>1, <3>1, <4>1, RequestAlone
    <3>4. CASE ~(r.param = x.param /\ r.cmd \in {"store", "clear"})
      BY <1>8, <3>1, <3>2, <3>4 DEF Holds
    <3> QED BY <3>3, <3>4
  <2> QED BY <2>2, <2>3
<1>10. ASSUME downlinkUp' /\ loop' = "recv", NEW p \in Params, Undropped(p)'
       PROVE  Agrees(p)' \/ DoneDue(p)'
  <2>1. Undropped(p) /\ (Agrees(p) \/ DoneDue(p))
    BY <1>3, <1>10 DEF LastInv, Undropped
  <2>2. CASE r.param = p /\ r.cmd \in {"store", "clear"} /\ a.status = "ok"
    BY <1>3, <1>4, <1>6, <1>10, <2>2 DEF DoneDue
  <2>3. CASE p \in stored' <=> p \in stored
    <3>1. Agrees(p) => Agrees(p)'
      BY <1>3, <2>3 DEF Agrees
    <3>2. DoneDue(p) => DoneDue(p)'
      BY <1>5 DEF DoneDue
    <3> QED BY <2>1, <3>1, <3>2
  <2> QED BY <1>8, <2>2, <2>3
<1> QED BY <1>9, <1>10 DEF LastInv

LEMMA OtherStepHold ==
    ASSUME BaseInv, OwnInv, HoldInv, LastInv,
           LoopStep \/ FwRequest \/ FwMalformed \/ DownlinkEnds \/ UplinkEnds
    PROVE  HoldInv' /\ LastInv'
<1>1. CASE LoopForward
  <2>1. PICK x \in Answers : x = Head(misc)
    BY <1>1, QueueFacts DEF LoopForward, BaseInv, WireInv
  <2>2. /\ misc # <<>> /\ misc' = Tail(misc) /\ miscCmd' = Append(miscCmd, x)
        /\ UNCHANGED <<stored, done, dropped, downlinkUp, loop>>
    BY <1>1, <2>1 DEF LoopForward
  <2>3. /\ Range(misc') \subseteq Range(misc) /\ Range(misc) \subseteq {x} \union Range(misc')
        /\ x \in Range(misc)
    BY <2>1, <2>2, QueueFacts DEF BaseInv, WireInv
  <2>4. Range(miscCmd') = Range(miscCmd) \union {x}
    BY <2>2, AppendFacts DEF BaseInv, WireInv
  <2>5. Due' = Due
    BY <2>3, <2>4 DEF Due
  <2> QED BY <2>2, <2>5, HoldSame, LastSame
<1>2. CASE LoopEnd
  <2>1. Range(misc') = {}
    BY <1>2, EmptyFacts DEF LoopEnd
  <2>2. Due' \subseteq Due
    BY <1>2, <2>1 DEF LoopEnd, Due
  <2> QED BY <1>2, <2>2, HoldSame, LastSame DEF LoopEnd
<1>3. CASE FwRequest
  BY <1>3, RequestHold
<1>4. CASE FwMalformed
  <2>1. Range(misc') \subseteq Range(misc) \union {Malformed} /\ Range(misc) \subseteq Range(misc')
    <3>1. Range(Append(misc, Malformed)) = Range(misc) \union {Malformed}
      BY AppendFacts DEF BaseInv, WireInv
    <3> QED BY <1>4, <3>1 DEF FwMalformed, Arrives
  <2>2. /\ \A x \in Due' : x \in Due \/ x = Malformed
        /\ \A x \in Due : x \in Due'
    BY <1>4, <2>1 DEF FwMalformed, Due
  <2> QED BY <1>4, <2>2, HoldSame, LastSame DEF FwMalformed
<1>5. CASE DownlinkEnds
  <2>1. Range(misc') \subseteq Range(misc)
    BY <1>5, PrefixFacts DEF DownlinkEnds, BaseInv, WireInv
  <2>2. Due' \subseteq Due
    BY <1>5, <2>1 DEF DownlinkEnds, Due
  <2> QED BY <1>5, <2>2, HoldSame, LastSame DEF DownlinkEnds
<1>6. CASE UplinkEnds
  <2>1. Due' = Due
    BY <1>6 DEF UplinkEnds, Due
  <2> QED BY <1>6, <2>1, HoldSame, LastSame DEF UplinkEnds
<1> QED BY <1>1, <1>2, <1>3, <1>4, <1>5, <1>6 DEF LoopStep

SafeInv == BaseInv /\ OwnInv /\ HoldInv /\ LastInv

LEMMA InitSafe == Init => SafeInv
  BY InitBase, InitOwn, InitHold DEF SafeInv

LEMMA StepSafe == SafeInv /\ [Next]_vars => SafeInv'
<1> SUFFICES ASSUME SafeInv, [Next]_vars PROVE SafeInv'
  OBVIOUS
<1>1. CASE UNCHANGED vars
  <2>1. Due' = Due
    BY <1>1 DEF vars, Due
  <2>2. HoldInv' /\ LastInv'
    BY <1>1, <2>1, HoldSame, LastSame DEF vars, SafeInv
  <2> QED BY <2>2, StepBase, StepOwn DEF SafeInv
<1>2. CASE Next
  BY <1>2, CallStepHold, OtherStepHold, StepBase, StepOwn DEF Next, SafeInv
<1> QED BY <1>1, <1>2

\* What persistent_get_state returns is still true when it returns: no other
\* call stores or clears the parameter between the answer and the return.
THEOREM StatesCurrent == Spec => []StateCurrent
<1>1. SafeInv => StateCurrent
  <2> SUFFICES ASSUME SafeInv, NEW u \in Users, Takes(u), Head(rounds[u]) = "state",
                      Head(miscCmd).status = "ok",
                      \A c \in {"state", "store", "clear"} : <<c, param[u]>> \notin dropped
               PROVE  Head(miscCmd).data = (param[u] \in stored)
    BY DEF StateCurrent
  <2> DEFINE x == Head(miscCmd)
  <2>1. x \in Due /\ x.cmd = "state" /\ x.param = param[u]
    BY QueueFacts DEF SafeInv, BaseInv, WireInv, Takes, Matches, Due
  <2>2. Sure(x)
    BY <2>1 DEF Sure, Fresh, Undropped, Commands, Storing
  <2> QED BY <2>1, <2>2 DEF SafeInv, HoldInv, Holds
<1> QED BY <1>1, InitSafe, StepSafe, PTL DEF Spec

\* While no call waits on a live connection, the last store or clear of a
\* parameter that returned Ok says whether it is stored.
THEOREM LastWordRight == Spec => []LastAgrees
<1>1. SafeInv => LastAgrees
  <2> SUFFICES ASSUME SafeInv, \A u \in Users : pc[u] # "wait", uplinkUp, downlinkUp, loop = "recv",
                      NEW p \in Params, {<<"store", p>>, <<"clear", p>>} \cap dropped = {}
               PROVE  Agrees(p)
    BY DEF LastAgrees, Agrees
  <2>1. \A u \in Users : miscLock # u
    BY DEF SafeInv, BaseInv, CallInv
  <2>2. \A x \in Due : ~Fresh(dropped, x)
    BY <2>1, FreeNone DEF SafeInv, Due, Here
  <2>3. Undropped(p)
    BY DEF Undropped
  <2>4. ~DoneDue(p)
    BY <2>2, <2>3 DEF DoneDue, Fresh, Undropped, Commands
  <2> QED BY <2>3, <2>4 DEF SafeInv, LastInv
<1> QED BY <1>1, InitSafe, StepSafe, PTL DEF Spec
=============================================================================
