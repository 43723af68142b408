----------------------------- MODULE ParamProofs -----------------------------
(***************************************************************************)
(* What Param guarantees for any number of tasks, parameters, values and   *)
(* calls: the types, that a set succeeds only if it was carried out, that  *)
(* the cache agrees with the Crazyflie, and the streams with the cache.    *)
(***************************************************************************)
EXTENDS Param, SequenceTheorems, TLAPS

USE DEF callVars, cacheVars, watchVars, loopVars, wireVars, linkVars, fwVars, boundVars

-----------------------------------------------------------------------------
(* Who holds which lock, and what it is used for *)

\* The calls of set from the request to the notification.
InSet(u) == pc[u] \in {"setWait", "setStore", "setNotify"}

\* The lock of write_downlink is that of the set under way, the lock of values
\* that of the get under way; the misc loop keeps neither.
LockInv ==
    /\ \A u \in Users : writeLock = u <=> InSet(u)
    /\ \A u \in Users : valuesLock = u <=> pc[u] = "getWait"
    /\ valuesLock # Loop

\* The program sets what is settable, the Crazyflie changes what is changing,
\* a value that is being read is not in the cache, and the cache is whole until
\* the misc loop clears it.
PlaceInv ==
    /\ ~downlinkUp => uplink = <<>>
    /\ \A u \in Users : pc[u] = "setLock" \/ InSet(u) => arg[u].param \in Settable
    /\ \A i \in 1..Len(misc) : misc[i].kind = "update" => misc[i].param \in Changing
    /\ loop \in {"store", "notify"} => update.param \in Changing
    /\ loop \in {"recv", "store", "notify", "clearValues"} => DOMAIN values = Params
    /\ \A u \in Users : pc[u] = "getWait" /\ arg[u].param \in DOMAIN values =>
                            values[arg[u].param] = NoValue

BaseInv == TypeOK /\ LockInv /\ PlaceInv

-----------------------------------------------------------------------------
(* Types *)

LEMMA NoArgType == NoArg \in [param : Params, value : Values] /\ NoUpdate \in MiscPackets
  BY ParamAssumption, ValueAssumption DEF NoArg, NoUpdate, MiscPackets

\* What is stored in the cache has the type of a cache, and an empty one stays so.
LEMMA StoredType ==
    ASSUME TypeOK, NEW p \in Params, NEW v \in Values
    PROVE  /\ Stored(p, v) \in [Params -> Values \union {NoValue}] \/ Stored(p, v) = <<>>
           /\ DOMAIN Stored(p, v) = DOMAIN values
           /\ \A q \in DOMAIN values : Stored(p, v)[q] = IF q = p THEN v ELSE values[q]
<1>1. CASE values \in [Params -> Values \union {NoValue}]
  BY <1>1 DEF Stored
<1>2. CASE values = <<>>
  BY <1>2 DEF Stored
<1> QED BY <1>1, <1>2 DEF TypeOK

\* The head and the rest of a queue, and the first packets of it.
LEMMA QueueFacts ==
    ASSUME NEW S, NEW q \in Seq(S)
    PROVE  /\ Len(q) \in Nat
           /\ \A i \in 1..Len(q) : q[i] \in S
           /\ q # <<>> => /\ Len(q) \in Nat \ {0} /\ Head(q) = q[1] /\ q[1] \in S
                          /\ Tail(q) \in Seq(S) /\ Len(Tail(q)) = Len(q) - 1
                          /\ \A i \in 1..Len(Tail(q)) : Tail(q)[i] = q[i + 1]
           /\ \A n \in 0..Len(q) : /\ SubSeq(q, 1, n) \in Seq(S) /\ Len(SubSeq(q, 1, n)) = n
                                   /\ \A i \in 1..n : SubSeq(q, 1, n)[i] = q[i]
<1>1. Len(q) \in Nat /\ \A i \in 1..Len(q) : q[i] \in S
  BY LenProperties, ElementOfSeq
<1>2. ASSUME q # <<>>
      PROVE  /\ Len(q) \in Nat \ {0} /\ Head(q) = q[1] /\ q[1] \in S
             /\ Tail(q) \in Seq(S) /\ Len(Tail(q)) = Len(q) - 1
             /\ \A i \in 1..Len(Tail(q)) : Tail(q)[i] = q[i + 1]
  <2>1. Len(q) \in Nat \ {0}
    BY <1>2, EmptySeq
  <2>2. 1 \in 1..Len(q)
    BY <2>1
  <2> QED BY <1>1, <1>2, <2>1, <2>2, HeadTailProperties
<1>3. ASSUME NEW n \in 0..Len(q)
      PROVE  /\ SubSeq(q, 1, n) \in Seq(S) /\ Len(SubSeq(q, 1, n)) = n
             /\ \A i \in 1..n : SubSeq(q, 1, n)[i] = q[i]
  <2>1. \A i \in 1..n : q[i] \in S
    BY <1>1
  <2>2. n \in Int /\ (IF 1 <= n THEN n - 1 + 1 ELSE 0) = n /\ n - 1 + 1 = n
        /\ \A i \in 1..n : 1 + i - 1 = i
    BY <1>1
  <2> QED BY <2>1, <2>2, SubSeqProperties
<1> QED BY <1>1, <1>2, <1>3

LEMMA InitBase == Init => BaseInv
<1> SUFFICES ASSUME Init PROVE BaseInv
  OBVIOUS
<1>1. <<>> \in Seq(Requests) /\ <<>> \in Seq(Readings) /\ <<>> \in Seq(Answers)
      /\ <<>> \in Seq(MiscPackets)
  BY EmptySeq
<1>2. TypeOK
  BY <1>1, NoArgType, ValueAssumption DEF Init, TypeOK, Pcs, NothingHeard
<1>3. LockInv /\ PlaceInv
  BY <1>1, HolderAssumption, EmptySeq DEF Init, LockInv, PlaceInv, InSet
<1> QED BY <1>2, <1>3 DEF BaseInv

\* A call returns or fails: what it held is gone.
LEMMA ReturnBase ==
    ASSUME BaseInv, NEW u \in Users, Return(u),
           valuesLock' = Unlocked(valuesLock, u), writeLock' = Unlocked(writeLock, u),
           UNCHANGED <<uplink, downlinkUp, misc, loop, update, values>>
    PROVE  LockInv' /\ PlaceInv' /\ pc' \in [Users -> Pcs]
           /\ arg' \in [Users -> [param : Params, value : Values]]
           /\ applied' \in [Users -> BOOLEAN]
<1>1. /\ pc' \in [Users -> Pcs] /\ arg' \in [Users -> [param : Params, value : Values]]
      /\ applied' \in [Users -> BOOLEAN]
  BY NoArgType DEF BaseInv, TypeOK, Return, Goto, Pcs
<1>2. pc'[u] = "idle" /\ \A w \in Users \ {u} : pc'[w] = pc[w] /\ arg'[w] = arg[w]
  BY DEF BaseInv, TypeOK, Return, Goto
<1>3. LockInv'
  BY <1>2, HolderAssumption DEF BaseInv, LockInv, InSet, Unlocked
<1>4. PlaceInv'
  BY <1>2 DEF BaseInv, PlaceInv, InSet
<1> QED BY <1>1, <1>3, <1>4


LEMMA CallBase ==
    ASSUME BaseInv, NEW u \in Users, CallGet(u) \/ CallSet(u) \/ CallWatch(u)
    PROVE  BaseInv'
<1> USE DEF BaseInv, TypeOK
<1>0. /\ pc[u] = "idle"
      /\ UNCHANGED <<valuesLock, writeLock, uplink, downlinkUp, misc, loop, update, values>>
      /\ \E l \in {"getLock", "setLock", "watchPush"} : Goto(u, l)
  BY DEF CallGet, CallSet, CallWatch, Call
<1>1. /\ pc'[u] \in {"getLock", "setLock", "watchPush"}
      /\ \A w \in Users \ {u} : pc'[w] = pc[w] /\ arg'[w] = arg[w]
      /\ pc' \in [Users -> Pcs]
      /\ pc'[u] = "setLock" => arg'[u].param \in Settable
  <2>1. CASE CallGet(u)
    BY <2>1 DEF CallGet, Call, Goto, Pcs
  <2>2. CASE CallSet(u)
    BY <2>2 DEF CallSet, Call, Goto, Pcs
  <2>3. CASE CallWatch(u)
    BY <2>3 DEF CallWatch, Goto, Pcs
  <2> QED BY <2>1, <2>2, <2>3
<1>2. arg' \in [Users -> [param : Params, value : Values]]
  <2>1. CASE CallGet(u)
    <3>1. PICK p \in Params : arg' = [arg EXCEPT ![u] = [arg[u] EXCEPT !.param = p]]
      BY <2>1 DEF CallGet, Call
    <3>2. [arg[u] EXCEPT !.param = p] \in [param : Params, value : Values]
      BY DEF BaseInv, TypeOK
    <3> QED BY <3>1, <3>2 DEF BaseInv, TypeOK
  <2>2. CASE CallSet(u)
    BY <2>2, ParamAssumption DEF BaseInv, TypeOK, CallSet, Call
  <2>3. CASE CallWatch(u)
    BY <2>3 DEF BaseInv, TypeOK, CallWatch
  <2> QED BY <2>1, <2>2, <2>3
<1>3. TypeOK'
  BY <1>0, <1>1, <1>2 DEF CallGet, CallSet, CallWatch, Call
<1>4. LockInv' /\ PlaceInv'
  BY <1>0, <1>1 DEF LockInv, PlaceInv, InSet
<1> QED BY <1>3, <1>4

\* A request is put in the uplink, if there is a link, and has its place there.
LEMMA SendType ==
    ASSUME BaseInv, NEW u \in Users, NEW c \in {"read", "set"}, Send(u, c)
    PROVE  uplink' \in Seq(Requests) /\ (~downlinkUp => uplink' = <<>>)
<1>1. [cmd |-> c, by |-> u, param |-> arg[u].param, value |-> arg[u].value] \in Requests
  BY DEF BaseInv, TypeOK, Requests
<1>2. uplink \in Seq(Requests) /\ (~downlinkUp => uplink = <<>>)
  BY DEF BaseInv, TypeOK, PlaceInv
<1> QED BY <1>1, <1>2, AppendProperties DEF Send

LEMMA GetCachedBase == ASSUME BaseInv, NEW u \in Users, GetCached(u) PROVE BaseInv'
<1>1. pc[u] = "getLock" /\ Return(u)
      /\ UNCHANGED <<cacheVars, writeLock, watchVars, loopVars, wireVars, linkVars, fw, boundVars>>
  BY DEF GetCached
<1>2. valuesLock' = Unlocked(valuesLock, u) /\ writeLock' = Unlocked(writeLock, u)
  BY <1>1 DEF BaseInv, LockInv, InSet, Unlocked
<1>3. LockInv' /\ PlaceInv' /\ pc' \in [Users -> Pcs]
      /\ arg' \in [Users -> [param : Params, value : Values]] /\ applied' \in [Users -> BOOLEAN]
  BY <1>1, <1>2, ReturnBase
<1> QED BY <1>1, <1>3 DEF BaseInv, TypeOK

LEMMA GetReadBase == ASSUME BaseInv, NEW u \in Users, GetRead(u) PROVE BaseInv'
<1>1. uplink' \in Seq(Requests) /\ (~downlinkUp => uplink' = <<>>)
  BY SendType DEF GetRead
<1>2. TypeOK'
  BY <1>1 DEF BaseInv, TypeOK, GetRead, HoldForRead, Goto, Pcs
<1>3. pc'[u] = "getWait" /\ \A w \in Users \ {u} : pc'[w] = pc[w]
  BY DEF BaseInv, TypeOK, GetRead, Goto
<1>4. LockInv'
  BY <1>3, HolderAssumption DEF BaseInv, LockInv, InSet, GetRead, HoldForRead
<1>5. PlaceInv'
  BY <1>1, <1>3 DEF BaseInv, PlaceInv, InSet, GetRead, Cached
<1> QED BY <1>2, <1>4, <1>5 DEF BaseInv

LEMMA GetAnsweredBase == ASSUME BaseInv, NEW u \in Users, GetAnswered(u) PROVE BaseInv'
<1>1. read \in Seq(Readings) /\ read # <<>> /\ pc[u] = "getWait" /\ valuesLock = u
  BY DEF BaseInv, TypeOK, LockInv, GetAnswered
<1>2. read' \in Seq(Readings) /\ Head(read) \in Readings
  BY <1>1, QueueFacts DEF GetAnswered
<1>3. CASE Head(read).param # arg[u].param
  BY <1>2, <1>3 DEF BaseInv, TypeOK, LockInv, PlaceInv, InSet, GetAnswered
<1>4. CASE Head(read).param = arg[u].param
  <2>1. /\ values' \in {Stored(arg[u].param, Head(read).value), values}
        /\ valuesLock' = NoOne /\ Return(u)
        /\ UNCHANGED <<writeLock, watchVars, loopVars, uplink, write, misc, linkVars, fw, boundVars>>
    BY <1>4 DEF GetAnswered
  <2>2. /\ values' \in [Params -> Values \union {NoValue}] \/ values' = <<>>
        /\ DOMAIN values' = DOMAIN values
    BY <1>2, <2>1, StoredType DEF BaseInv, TypeOK, Readings
  <2>3. /\ pc' \in [Users -> Pcs] /\ arg' \in [Users -> [param : Params, value : Values]]
        /\ applied' \in [Users -> BOOLEAN]
    BY <2>1, NoArgType DEF BaseInv, TypeOK, Return, Goto, Pcs
  <2>4. TypeOK'
    BY <1>2, <2>1, <2>2, <2>3 DEF BaseInv, TypeOK
  <2>5. pc'[u] = "idle" /\ \A w \in Users \ {u} : pc'[w] = pc[w] /\ arg'[w] = arg[w]
    BY <2>1 DEF BaseInv, TypeOK, Return, Goto
  <2>6. \A w \in Users \ {u} : pc[w] # "getWait"
    BY <1>1 DEF BaseInv, LockInv
  <2>7. LockInv'
    BY <1>1, <2>1, <2>5, <2>6, HolderAssumption DEF BaseInv, LockInv, InSet
  <2>8. PlaceInv'
    BY <2>1, <2>2, <2>5, <2>6 DEF BaseInv, PlaceInv, InSet
  <2> QED BY <2>4, <2>7, <2>8 DEF BaseInv
<1> QED BY <1>3, <1>4

LEMMA SetSendBase == ASSUME BaseInv, NEW u \in Users, SetSend(u) PROVE BaseInv'
<1>1. uplink' \in Seq(Requests) /\ (~downlinkUp => uplink' = <<>>)
  BY SendType DEF SetSend
<1>2. TypeOK'
  BY <1>1 DEF BaseInv, TypeOK, SetSend, Goto, Pcs
<1>3. pc'[u] = "setWait" /\ \A w \in Users \ {u} : pc'[w] = pc[w]
  BY DEF BaseInv, TypeOK, SetSend, Goto
<1>4. LockInv'
  BY <1>3, HolderAssumption DEF BaseInv, LockInv, InSet, SetSend
<1>5. PlaceInv'
  BY <1>1, <1>3 DEF BaseInv, PlaceInv, InSet, SetSend
<1> QED BY <1>2, <1>4, <1>5 DEF BaseInv

LEMMA SetAnsweredBase == ASSUME BaseInv, NEW u \in Users, SetAnswered(u) PROVE BaseInv'
<1>1. write \in Seq(Answers) /\ write # <<>> /\ pc[u] = "setWait" /\ writeLock = u
  BY DEF BaseInv, TypeOK, LockInv, InSet, SetAnswered
<1>2. write' \in Seq(Answers)
  BY <1>1, QueueFacts DEF SetAnswered
<1>3. CASE UNCHANGED <<callVars, writeLock, applied>>
  BY <1>2, <1>3 DEF BaseInv, TypeOK, LockInv, PlaceInv, InSet, SetAnswered
<1>4. CASE Goto(u, "setStore") /\ UNCHANGED <<arg, writeLock, applied>>
  <2>1. TypeOK'
    BY <1>2, <1>4 DEF BaseInv, TypeOK, SetAnswered, Goto, Pcs
  <2>2. pc'[u] = "setStore" /\ \A w \in Users \ {u} : pc'[w] = pc[w]
    BY <1>4 DEF BaseInv, TypeOK, Goto
  <2>3. LockInv' /\ PlaceInv'
    BY <1>1, <1>4, <2>2 DEF BaseInv, LockInv, PlaceInv, InSet, SetAnswered
  <2> QED BY <2>1, <2>3 DEF BaseInv
<1>5. CASE Return(u) /\ writeLock' = NoOne
  <2>1. valuesLock' = Unlocked(valuesLock, u) /\ writeLock' = Unlocked(writeLock, u)
        /\ UNCHANGED <<uplink, downlinkUp, misc, loop, update, values>>
    BY <1>1, <1>5 DEF BaseInv, LockInv, SetAnswered, Unlocked
  <2>2. LockInv' /\ PlaceInv' /\ pc' \in [Users -> Pcs]
        /\ arg' \in [Users -> [param : Params, value : Values]] /\ applied' \in [Users -> BOOLEAN]
    BY <1>5, <2>1, ReturnBase
  <2> QED BY <1>2, <1>5, <2>2 DEF BaseInv, TypeOK, SetAnswered
<1> QED BY <1>3, <1>4, <1>5 DEF SetAnswered

LEMMA SetStoreBase == ASSUME BaseInv, NEW u \in Users, SetStore(u) PROVE BaseInv'
<1>1. pc[u] = "setStore" /\ writeLock = u /\ valuesLock = NoOne
      /\ arg[u].param \in Params /\ arg[u].value \in Values
  BY DEF BaseInv, TypeOK, LockInv, InSet, SetStore
<1>2. /\ values' \in [Params -> Values \union {NoValue}] \/ values' = <<>>
      /\ DOMAIN values' = DOMAIN values
  BY <1>1, StoredType DEF BaseInv, SetStore
<1>3. TypeOK'
  BY <1>2 DEF BaseInv, TypeOK, SetStore, KeepWriteLock, Goto, Pcs
<1>4. pc'[u] = "setNotify" /\ \A w \in Users \ {u} : pc'[w] = pc[w]
  BY DEF BaseInv, TypeOK, SetStore, Goto
<1>5. LockInv'
  BY <1>1, <1>4 DEF BaseInv, LockInv, InSet, SetStore, KeepWriteLock
<1>6. \A w \in Users : pc'[w] # "getWait"
  BY <1>1, <1>4, HolderAssumption DEF BaseInv, LockInv
<1>7. PlaceInv'
  BY <1>1, <1>2, <1>4, <1>6 DEF BaseInv, PlaceInv, InSet, SetStore
<1> QED BY <1>3, <1>5, <1>7 DEF BaseInv

LEMMA FailsBase ==
    ASSUME BaseInv, NEW u \in Users, Fails(u), boundVars' \in Nat \X Nat \X Nat \X Nat
    PROVE  BaseInv'
<1>1. LockInv' /\ PlaceInv' /\ pc' \in [Users -> Pcs]
      /\ arg' \in [Users -> [param : Params, value : Values]] /\ applied' \in [Users -> BOOLEAN]
  BY ReturnBase DEF Fails
<1>2. valuesLock' \in Users \union {Loop, NoOne} /\ writeLock' \in Users \union {NoOne}
  BY DEF BaseInv, TypeOK, Fails, Unlocked
<1> QED BY <1>1, <1>2 DEF BaseInv, TypeOK, Fails

LEMMA ErrorBase ==
    ASSUME BaseInv, NEW u \in Users, SetPanic(u) \/ SendError(u) \/ WaitError(u) \/ Cancel(u)
    PROVE  BaseInv'
<1>1. boundVars' \in Nat \X Nat \X Nat \X Nat
  BY DEF BaseInv, TypeOK, SetPanic, SendError, WaitError, Cancel
<1> QED BY <1>1, FailsBase DEF SetPanic, SendError, WaitError, Cancel

\* What the streams hear has the type of what they heard.
LEMMA NotifyType ==
    ASSUME BaseInv, NEW p \in Params, NEW v \in Values, Notify(p, v)
    PROVE  /\ heard' \in [Users -> [Params -> Values \union {NoValue}]] /\ UNCHANGED watchers
           /\ \A u \in Users, q \in Params :
                 heard'[u][q] = IF u \in watchers /\ q = p THEN v ELSE heard[u][q]
  BY DEF BaseInv, TypeOK, Notify

LEMMA SetNotifyBase == ASSUME BaseInv, NEW u \in Users, SetNotify(u) PROVE BaseInv'
<1>1. pc[u] = "setNotify" /\ writeLock' = Unlocked(writeLock, u) /\ Return(u)
      /\ UNCHANGED <<cacheVars, loopVars, wireVars, linkVars, fw, boundVars>>
  BY DEF SetNotify
<1>2. valuesLock' = Unlocked(valuesLock, u)
  BY <1>1 DEF BaseInv, LockInv, Unlocked
<1>3. LockInv' /\ PlaceInv' /\ pc' \in [Users -> Pcs]
      /\ arg' \in [Users -> [param : Params, value : Values]] /\ applied' \in [Users -> BOOLEAN]
  BY <1>1, <1>2, ReturnBase
<1>4. heard' \in [Users -> [Params -> Values \union {NoValue}]] /\ UNCHANGED watchers
  BY NotifyType DEF SetNotify, BaseInv, TypeOK
<1>5. writeLock' \in Users \union {NoOne}
  BY <1>1 DEF BaseInv, TypeOK, Unlocked
<1> QED BY <1>1, <1>3, <1>4, <1>5 DEF BaseInv, TypeOK

LEMMA WatchPushBase == ASSUME BaseInv, NEW u \in Users, WatchPush(u) PROVE BaseInv'
<1>1. pc[u] = "watchPush" /\ Return(u)
      /\ UNCHANGED <<cacheVars, writeLock, loopVars, wireVars, linkVars, fw, boundVars>>
  BY DEF WatchPush
<1>2. valuesLock' = Unlocked(valuesLock, u) /\ writeLock' = Unlocked(writeLock, u)
  BY <1>1 DEF BaseInv, LockInv, InSet, Unlocked
<1>3. LockInv' /\ PlaceInv' /\ pc' \in [Users -> Pcs]
      /\ arg' \in [Users -> [param : Params, value : Values]] /\ applied' \in [Users -> BOOLEAN]
  BY <1>1, <1>2, ReturnBase
<1>4. [p \in Params |-> IF p \in DOMAIN values THEN values[p] ELSE NoValue]
          \in [Params -> Values \union {NoValue}]
  BY DEF BaseInv, TypeOK
<1>5. heard' \in [Users -> [Params -> Values \union {NoValue}]] /\ watchers' \in SUBSET Users
  BY <1>4 DEF WatchPush, BaseInv, TypeOK
<1> QED BY <1>1, <1>3, <1>5 DEF BaseInv, TypeOK

LEMMA DropStreamBase == ASSUME BaseInv, NEW u \in Users, DropStream(u) PROVE BaseInv'
<1>1. TypeOK'
  BY DEF BaseInv, TypeOK, DropStream, NothingHeard
<1> QED BY <1>1 DEF BaseInv, LockInv, PlaceInv, InSet, DropStream

LEMMA LoopBase == ASSUME BaseInv, LoopStep PROVE BaseInv'
<1>1. CASE LoopRecv
  <2>1. /\ misc \in Seq(MiscPackets) /\ misc # <<>> /\ Head(misc) = misc[1] /\ 1 \in 1..Len(misc)
        /\ Head(misc) \in MiscPackets /\ misc' = Tail(misc) /\ misc' \in Seq(MiscPackets)
        /\ Len(misc) \in Nat /\ Len(misc') = Len(misc) - 1
        /\ \A i \in 1..Len(misc') : misc'[i] = misc[i + 1]
    BY <1>1, QueueFacts DEF BaseInv, TypeOK, LoopRecv
  <2>2. TypeOK'
    BY <1>1, <2>1 DEF BaseInv, TypeOK, LoopRecv
  <2>3. \A i \in 1..Len(misc') : i + 1 \in 1..Len(misc)
    BY <2>1
  <2>4. PlaceInv'
    BY <1>1, <2>1, <2>3 DEF BaseInv, PlaceInv, InSet, LoopRecv
  <2>5. LockInv'
    BY <1>1 DEF BaseInv, LockInv, InSet, LoopRecv
  <2> QED BY <2>2, <2>4, <2>5 DEF BaseInv
<1>2. CASE LoopRecvError
  <2>1. TypeOK'
    BY <1>2 DEF BaseInv, TypeOK, LoopRecvError
  <2> QED BY <1>2, <2>1 DEF BaseInv, LockInv, PlaceInv, InSet, LoopRecvError
<1>3. CASE LoopStore
  <2>1. update.param \in Params /\ update.value \in Values
    BY DEF BaseInv, TypeOK, MiscPackets
  <2>2. /\ values' \in [Params -> Values \union {NoValue}] \/ values' = <<>>
        /\ DOMAIN values' = DOMAIN values
    BY <1>3, <2>1, StoredType DEF BaseInv, LoopStore
  <2>3. TypeOK'
    BY <1>3, <2>2 DEF BaseInv, TypeOK, LoopStore, FreeValuesLock
  <2>4. \A w \in Users : pc'[w] # "getWait"
    BY <1>3, HolderAssumption DEF BaseInv, LockInv, LoopStore
  <2> QED BY <1>3, <2>2, <2>3, <2>4
          DEF BaseInv, LockInv, PlaceInv, InSet, LoopStore, FreeValuesLock
<1>4. CASE LoopNotify
  <2>1. update.param \in Params /\ update.value \in Values
    BY DEF BaseInv, TypeOK, MiscPackets
  <2>2. heard' \in [Users -> [Params -> Values \union {NoValue}]] /\ UNCHANGED watchers
    BY <1>4, <2>1, NotifyType DEF LoopNotify
  <2>3. TypeOK'
    BY <1>4, <2>2, NoArgType DEF BaseInv, TypeOK, LoopNotify
  <2> QED BY <1>4, <2>3 DEF BaseInv, LockInv, PlaceInv, InSet, LoopNotify
<1>5. CASE LoopClearValues
  <2>1. TypeOK'
    BY <1>5 DEF BaseInv, TypeOK, LoopClearValues
  <2>2. \A w \in Users : pc'[w] # "getWait"
    BY <1>5, HolderAssumption DEF BaseInv, LockInv, LoopClearValues
  <2> QED BY <1>5, <2>1, <2>2 DEF BaseInv, LockInv, PlaceInv, InSet, LoopClearValues
<1>6. CASE LoopClearWatchers
  <2>1. TypeOK'
    BY <1>6 DEF BaseInv, TypeOK, LoopClearWatchers, NothingHeard
  <2> QED BY <1>6, <2>1 DEF BaseInv, LockInv, PlaceInv, InSet, LoopClearWatchers
<1> QED BY <1>1, <1>2, <1>3, <1>4, <1>5, <1>6 DEF LoopStep

LEMMA FwRequestBase == ASSUME BaseInv, FwRequest PROVE BaseInv'
<1>1. Head(uplink) \in Requests /\ uplink' \in Seq(Requests)
  BY QueueFacts DEF BaseInv, TypeOK, FwRequest
<1> DEFINE r == Head(uplink)
<1>2. /\ r.param \in Params /\ r.value \in Values /\ r.by \in Users /\ fw[r.param] \in Values
  BY <1>1 DEF Requests, BaseInv, TypeOK
<1>3. FwRead(r) \/ FwSet(r) \/ FwRefuse(r)
  BY DEF FwRequest
<1> HIDE DEF r
<1>4. /\ [param |-> r.param, value |-> fw[r.param]] \in Readings
      /\ [param |-> r.param, value |-> r.value] \in Answers
      /\ [param |-> r.param, value |-> ErrorCode] \in Answers
  BY <1>2 DEF Readings, Answers
<1>5. read' \in Seq(Readings) /\ write' \in Seq(Answers) /\ UNCHANGED misc
      /\ fw' \in [Params -> Values] /\ applied' \in [Users -> BOOLEAN]
  <2>1. read \in Seq(Readings) /\ write \in Seq(Answers)
        /\ fw \in [Params -> Values] /\ applied \in [Users -> BOOLEAN]
    BY DEF BaseInv, TypeOK
  <2>2. CASE FwRead(r)
    BY <1>4, <2>1, <2>2, AppendProperties DEF FwRead
  <2>3. CASE FwSet(r)
    BY <1>2, <1>4, <2>1, <2>3, AppendProperties DEF FwSet
  <2>4. CASE FwRefuse(r)
    BY <1>4, <2>1, <2>4, AppendProperties DEF FwRefuse
  <2> QED BY <1>3, <2>2, <2>3, <2>4
<1>6. TypeOK'
  BY <1>1, <1>5 DEF BaseInv, TypeOK, FwRequest
<1> QED BY <1>5, <1>6 DEF BaseInv, LockInv, PlaceInv, InSet, FwRequest

\* One more packet of the misc channel.
LEMMA MiscBase ==
    ASSUME BaseInv, NEW k \in MiscPackets, misc' = Append(misc, k),
           k.kind = "update" => k.param \in Changing
    PROVE  /\ misc' \in Seq(MiscPackets)
           /\ \A i \in 1..Len(misc') : misc'[i].kind = "update" => misc'[i].param \in Changing
<1>1. misc \in Seq(MiscPackets) /\ Len(misc) \in Nat
  BY LenProperties DEF BaseInv, TypeOK
<1>2. /\ misc' \in Seq(MiscPackets) /\ Len(misc') = Len(misc) + 1
      /\ \A i \in 1..Len(misc) : misc'[i] = misc[i]
      /\ misc'[Len(misc) + 1] = k
  BY <1>1, AppendProperties
<1>3. \A i \in 1..Len(misc') : i \in 1..Len(misc) \/ i = Len(misc) + 1
  BY <1>1, <1>2
<1> QED BY <1>2, <1>3 DEF BaseInv, PlaceInv

LEMMA FwMiscBase ==
    ASSUME BaseInv, FwMalformed \/ \E p \in Changing, v \in Values : FwChange(p, v)
    PROVE  BaseInv'
<1>1. CASE FwMalformed
  <2>1. [NoUpdate EXCEPT !.kind = "malformed"] \in MiscPackets
        /\ [NoUpdate EXCEPT !.kind = "malformed"].kind # "update"
    BY NoArgType DEF MiscPackets
  <2>2. misc' \in Seq(MiscPackets)
        /\ \A i \in 1..Len(misc') : misc'[i].kind = "update" => misc'[i].param \in Changing
    BY <1>1, <2>1, MiscBase DEF FwMalformed
  <2>3. TypeOK'
    BY <1>1, <2>2 DEF BaseInv, TypeOK, FwMalformed
  <2> QED BY <1>1, <2>2, <2>3 DEF BaseInv, LockInv, PlaceInv, InSet, FwMalformed
<1>2. ASSUME NEW p \in Changing, NEW v \in Values, FwChange(p, v) PROVE BaseInv'
  <2> DEFINE k == [kind |-> "update", param |-> p, value |-> v]
  <2>1. k \in MiscPackets /\ k.param = p
    BY ParamAssumption DEF MiscPackets
  <2> HIDE DEF k
  <2>2. misc' \in Seq(MiscPackets)
        /\ \A i \in 1..Len(misc') : misc'[i].kind = "update" => misc'[i].param \in Changing
    BY <1>2, <2>1, MiscBase DEF FwChange, k
  <2>3. TypeOK'
    <3>1. fw' \in [Params -> Values]
      BY <1>2 DEF BaseInv, TypeOK, FwChange
    <3>2. updates' \in Nat
      BY <1>2 DEF BaseInv, TypeOK, FwChange
    <3>3. UNCHANGED <<callVars, cacheVars, writeLock, watchVars, loopVars, uplink, read, write,
                      linkVars, applied, calls, opened, cancels>>
      BY <1>2 DEF FwChange
    <3> QED BY <2>2, <3>1, <3>2, <3>3 DEF BaseInv, TypeOK
  <2> QED BY <1>2, <2>2, <2>3 DEF BaseInv, LockInv, PlaceInv, InSet, FwChange
<1> QED BY <1>1, <1>2

LEMMA DownlinkEndsBase == ASSUME BaseInv, DownlinkEnds PROVE BaseInv'
<1>1. read' \in Seq(Readings) /\ write' \in Seq(Answers) /\ uplink' \in Seq(Requests)
  BY QueueFacts, EmptySeq DEF BaseInv, TypeOK, DownlinkEnds
<1>2. PICK n \in 0..Len(misc) : misc' = SubSeq(misc, 1, n)
  BY DEF DownlinkEnds
<1>3. misc' \in Seq(MiscPackets) /\ Len(misc') = n /\ \A i \in 1..n : misc'[i] = misc[i]
      /\ Len(misc) \in Nat
  BY <1>2, QueueFacts DEF BaseInv, TypeOK
<1>4. \A i \in 1..n : i \in 1..Len(misc)
  BY <1>3
<1>5. TypeOK'
  BY <1>1, <1>3 DEF BaseInv, TypeOK, DownlinkEnds
<1> QED BY <1>3, <1>4, <1>5 DEF BaseInv, LockInv, PlaceInv, InSet, DownlinkEnds

LEMMA UplinkEndsBase == ASSUME BaseInv, UplinkEnds PROVE BaseInv'
<1>1. uplink' \in Seq(Requests) /\ (uplink = <<>> => uplink' = <<>>)
  <2>1. PICK n \in 0..Len(uplink) : uplink' = SubSeq(uplink, 1, n)
    BY DEF UplinkEnds
  <2>2. uplink' \in Seq(Requests) /\ Len(uplink') = n
    BY <2>1, QueueFacts DEF BaseInv, TypeOK
  <2>3. uplink = <<>> => n = 0
    BY EmptySeq
  <2> QED BY <2>1, <2>2, <2>3, EmptySeq
<1>2. TypeOK'
  BY <1>1 DEF BaseInv, TypeOK, UplinkEnds
<1> QED BY <1>1, <1>2 DEF BaseInv, LockInv, PlaceInv, InSet, UplinkEnds

LEMMA StepBase == BaseInv /\ [Next]_vars => BaseInv'
<1> SUFFICES ASSUME BaseInv, [Next]_vars PROVE BaseInv'
  OBVIOUS
<1>1. ASSUME NEW u \in Users,
             \/ CallGet(u) \/ CallSet(u) \/ CallWatch(u)
             \/ CallStep(u) \/ DropStream(u) \/ Cancel(u)
      PROVE  BaseInv'
  BY <1>1, CallBase, GetCachedBase, GetReadBase, GetAnsweredBase, SetSendBase, SetAnsweredBase,
     SetStoreBase, SetNotifyBase, WatchPushBase, ErrorBase, DropStreamBase DEF CallStep
<1>2. CASE UNCHANGED vars
  BY <1>2 DEF vars, BaseInv, TypeOK, LockInv, PlaceInv, InSet
<1> QED BY <1>1, <1>2, LoopBase, FwRequestBase, FwMiscBase, DownlinkEndsBase, UplinkEndsBase DEF Next

(***************************************************************************)
(* The variables of Param have their types: the cache is a whole map or an *)
(* empty one, and each lock has a holder or none.                          *)
(***************************************************************************)
THEOREM TypeCorrect == Spec => []TypeOK
<1>1. BaseInv => TypeOK
  BY DEF BaseInv
<1> QED BY <1>1, InitBase, StepBase, PTL DEF Spec

-----------------------------------------------------------------------------
(* What is under way *)

\* Requests of one kind are answered on one queue, for which calls wait in one place.
Queue(c) == IF c = "read" THEN read ELSE write
WaitPc(c) == IF c = "read" THEN "getWait" ELSE "setWait"
Kinds == {"read", "set"}

\* One request or answer of a kind at most is under way, for the call that waits.
Traffic(c) ==
    /\ Len(Queue(c)) <= 1
    /\ \A i \in 1..Len(uplink) : uplink[i].cmd = c =>
          /\ pc[uplink[i].by] = WaitPc(c)
          /\ uplink[i].param = arg[uplink[i].by].param
          /\ uplink[i].value = arg[uplink[i].by].value
          /\ Queue(c) = <<>>
    /\ \A i, j \in 1..Len(uplink) : uplink[i].cmd = c /\ uplink[j].cmd = c => i = j
    /\ Queue(c) # <<>> => \E u \in Users : pc[u] = WaitPc(c) /\ Queue(c)[1].param = arg[u].param

TrafficInv == cancels = 0 => \A c \in Kinds : Traffic(c)

\* A request of a kind: c, and who it is from.
LEMMA Waiters ==
    ASSUME BaseInv, NEW c \in Kinds
    PROVE  /\ \A u, w \in Users : pc[u] = WaitPc(c) /\ pc[w] = WaitPc(c) => u = w
           /\ \A i \in 1..Len(uplink) : uplink[i] \in Requests /\ uplink[i].by \in Users
           /\ Queue(c) \in Seq(Answers) /\ Len(uplink) \in Nat
<1>1. \A u, w \in Users : pc[u] = WaitPc(c) /\ pc[w] = WaitPc(c) => u = w
  BY DEF BaseInv, LockInv, InSet, Kinds, WaitPc
<1>2. \A i \in 1..Len(uplink) : uplink[i] \in Requests /\ uplink[i].by \in Users
  <2>1. \A i \in 1..Len(uplink) : uplink[i] \in Requests
    BY ElementOfSeq DEF BaseInv, TypeOK
  <2> QED BY <2>1 DEF Requests
<1>3. Readings \subseteq Answers
  BY DEF Readings, Answers
<1>4. Queue(c) \in Seq(Answers)
  BY <1>3, SeqMonotonic DEF BaseInv, TypeOK, Queue
<1> QED BY <1>1, <1>2, <1>4, LenProperties DEF BaseInv, TypeOK

\* A step that leaves alone what is under way, and the call that waits for it.
LEMMA TrafficKept ==
    ASSUME BaseInv, NEW c \in Kinds, Traffic(c), UNCHANGED <<uplink, Queue(c)>>,
           \A u \in Users : pc[u] = WaitPc(c) => pc'[u] = WaitPc(c) /\ arg'[u] = arg[u]
    PROVE  Traffic(c)'
  BY Waiters DEF Traffic

\* Nothing is under way that no call waits for.
LEMMA TrafficNone ==
    ASSUME BaseInv, NEW c \in Kinds, Traffic(c), \A u \in Users : pc[u] # WaitPc(c)
    PROVE  Queue(c) = <<>> /\ \A i \in 1..Len(uplink) : uplink[i].cmd # c
  BY Waiters DEF Traffic

\* A step after which nothing is under way.
LEMMA TrafficOver ==
    ASSUME NEW c, Queue(c)' = <<>>, \A i \in 1..Len(uplink') : uplink'[i].cmd # c
    PROVE  Traffic(c)'
  BY EmptySeq DEF Traffic

\* A call asks, when nothing is under way.
LEMMA TrafficSent ==
    ASSUME BaseInv, NEW c \in Kinds, \A d \in Kinds : Traffic(d),
           NEW u \in Users, pc[u] \notin {"getWait", "setWait"}, \A w \in Users : pc[w] # WaitPc(c),
           Send(u, c), Goto(u, WaitPc(c)), UNCHANGED <<arg, read, write, downlinkUp>>
    PROVE  \A d \in Kinds : Traffic(d)'
<1>1. pc'[u] = WaitPc(c) /\ \A w \in Users \ {u} : pc'[w] = pc[w]
  BY DEF BaseInv, TypeOK, Goto
<1>2. \A d \in Kinds : UNCHANGED Queue(d)
  BY DEF Queue
<1>3. CASE ~downlinkUp
  <2>1. uplink = <<>> /\ uplink' = <<>>
    BY <1>3 DEF Send, BaseInv, PlaceInv
  <2> SUFFICES ASSUME NEW d \in Kinds PROVE Traffic(d)'
    OBVIOUS
  <2>2. \A w \in Users : pc[w] = WaitPc(d) => pc'[w] = WaitPc(d)
    BY <1>1 DEF WaitPc
  <2> QED BY <1>2, <2>1, <2>2, TrafficKept
<1>4. CASE downlinkUp
  <2> DEFINE r == [cmd |-> c, by |-> u, param |-> arg[u].param, value |-> arg[u].value]
  <2>1. uplink' = Append(uplink, r) /\ r \in Requests
    BY <1>4 DEF Send, BaseInv, TypeOK, Requests, Kinds
  <2>2. r.cmd = c /\ r.by = u /\ r.param = arg[u].param /\ r.value = arg[u].value
    OBVIOUS
  <2> HIDE DEF r
  <2>3. /\ Len(uplink') = Len(uplink) + 1 /\ Len(uplink) \in Nat
        /\ uplink'[Len(uplink) + 1] = r
        /\ \A k \in 1..Len(uplink) : uplink'[k] = uplink[k]
    BY <2>1, AppendProperties, LenProperties DEF BaseInv, TypeOK
  <2>4. \A k \in 1..Len(uplink') : k \in 1..Len(uplink) \/ k = Len(uplink) + 1
    BY <2>3
  <2> SUFFICES ASSUME NEW d \in Kinds PROVE Traffic(d)'
    OBVIOUS
  <2>5. CASE d = c
    <3>1. Queue(c) = <<>> /\ \A i \in 1..Len(uplink) : uplink[i].cmd # c
      BY TrafficNone
    <3>2. Queue(c)' = <<>> /\ Len(<<>>) = 0
      BY <1>2, <3>1, EmptySeq
    <3>3. \A k \in 1..Len(uplink') : uplink'[k].cmd = c => k = Len(uplink) + 1
      BY <2>3, <2>4, <3>1
    <3> QED BY <1>1, <2>2, <2>3, <2>5, <3>2, <3>3 DEF Traffic
  <2>6. CASE d # c
    <3>1. \A w \in Users : pc[w] = WaitPc(d) => pc'[w] = WaitPc(d)
      BY <1>1 DEF WaitPc
    <3>2. \A k \in 1..Len(uplink') : uplink'[k].cmd = d => k \in 1..Len(uplink) /\ uplink'[k] = uplink[k]
      BY <2>2, <2>3, <2>4, <2>6
    <3> QED BY <1>2, <3>1, <3>2, Waiters DEF Traffic
  <2> QED BY <2>5, <2>6
<1> QED BY <1>3, <1>4

\* A call takes its answer: nothing of its kind is left.
LEMMA TrafficReceived ==
    ASSUME BaseInv, NEW c \in Kinds, Traffic(c), Queue(c) # <<>>
    PROVE  /\ Head(Queue(c)) = Queue(c)[1] /\ Tail(Queue(c)) = <<>> /\ 1 \in 1..Len(Queue(c))
           /\ \A i \in 1..Len(uplink) : uplink[i].cmd # c
<1> DEFINE q == Queue(c)
<1>1. q \in Seq(Answers) /\ q # <<>> /\ Len(q) <= 1
  BY Waiters DEF Traffic
<1> HIDE DEF q
<1>2. Len(q) \in Nat \ {0} /\ Head(q) = q[1] /\ Tail(q) \in Seq(Answers) /\ Len(Tail(q)) = Len(q) - 1
  BY <1>1, QueueFacts
<1>3. Len(q) = 1
  <2>1. \A n \in Nat \ {0} : n <= 1 => n = 1
    OBVIOUS
  <2> QED BY <1>1, <1>2, <2>1
<1>4. Tail(q) = <<>>
  <2>1. Len(Tail(q)) = 0
    BY <1>2, <1>3
  <2> QED BY <1>2, <2>1, EmptySeq
<1> QED BY <1>2, <1>3, <1>4 DEF q, Traffic

\* The Crazyflie answers the first request.
LEMMA TrafficAnswered ==
    ASSUME BaseInv, \A d \in Kinds : Traffic(d), uplink # <<>>, uplink' = Tail(uplink),
           NEW a \in Answers, a.param = Head(uplink).param,
           NEW c \in Kinds, c = Head(uplink).cmd,
           Queue(c)' = Append(Queue(c), a), \A d \in Kinds \ {c} : UNCHANGED Queue(d),
           UNCHANGED <<pc, arg>>
    PROVE  \A d \in Kinds : Traffic(d)'
<1> DEFINE r == Head(uplink)
<1>1. /\ r = uplink[1] /\ r \in Requests /\ Len(uplink) \in Nat \ {0} /\ Len(uplink') = Len(uplink) - 1
      /\ \A i \in 1..Len(uplink') : uplink'[i] = uplink[i + 1]
  BY QueueFacts DEF BaseInv, TypeOK
<1> HIDE DEF r
<1>2. /\ 1 \in 1..Len(uplink)
      /\ \A i \in 1..Len(uplink') : i \in Nat /\ i # 0 /\ i + 1 # 1 /\ i + 1 \in 1..Len(uplink)
      /\ \A i, j \in 1..Len(uplink') : i + 1 = j + 1 => i = j
  BY <1>1
<1> SUFFICES ASSUME NEW d \in Kinds PROVE Traffic(d)'
  OBVIOUS
<1>3. CASE d = r.cmd
  <2>1. pc[r.by] = WaitPc(d) /\ r.param = arg[r.by].param /\ Queue(d) = <<>> /\ r.by \in Users
    BY <1>1, <1>2, <1>3, Waiters DEF Traffic
  <2>2. Queue(d)' = Append(<<>>, a)
    BY <1>3, <2>1 DEF r
  <2>3. Len(Queue(d)') = 1 /\ Queue(d)'[1] = a
    <3>1. <<>> \in Seq(Answers) /\ Len(<<>>) = 0
      BY EmptySeq
    <3> QED BY <2>2, <3>1, AppendProperties
  <2>4. \A i \in 1..Len(uplink') : uplink'[i].cmd # d
    BY <1>1, <1>2, <1>3 DEF Traffic
  <2> QED BY <2>1, <2>2, <2>3, <2>4 DEF Traffic, r
<1>4. CASE d # r.cmd
  <2>1. UNCHANGED Queue(d)
    BY <1>4 DEF r
  <2> QED BY <1>1, <1>2, <2>1 DEF Traffic
<1> QED BY <1>3, <1>4

\* The link is lost: what is left is the first packets of each queue.
LEMMA TrafficLost ==
    ASSUME BaseInv, NEW c \in Kinds, Traffic(c), UNCHANGED <<pc, arg>>,
           \E n \in 0..Len(Queue(c)) : Queue(c)' = SubSeq(Queue(c), 1, n),
           \E n \in 0..Len(uplink) : uplink' = SubSeq(uplink, 1, n)
    PROVE  Traffic(c)' /\ (Queue(c)' # <<>> => Queue(c)' = Queue(c))
<1> DEFINE q == Queue(c)
           p == Queue(c)'
<1>1. q \in Seq(Answers) /\ Len(q) <= 1
  BY Waiters DEF Traffic
<1>2. PICK n \in 0..Len(q) : p = SubSeq(q, 1, n)
  OBVIOUS
<1>3. PICK m \in 0..Len(uplink) : uplink' = SubSeq(uplink, 1, m)
  OBVIOUS
<1>4. Len(uplink) \in Nat /\ Len(uplink') = m /\ \A i \in 1..m : uplink'[i] = uplink[i] /\ i \in 1..Len(uplink)
  BY <1>3, QueueFacts DEF BaseInv, TypeOK
<1>5. p = <<>> \/ p = q
  <2> HIDE DEF q, p
  <2>1. Len(q) \in Nat /\ p \in Seq(Answers) /\ Len(p) = n /\ \A i \in 1..n : p[i] = q[i]
    BY <1>1, <1>2, QueueFacts
  <2>2. n = 0 \/ n = Len(q)
    BY <1>1, <2>1
  <2>3. n = 0 => p = <<>>
    BY <2>1, EmptySeq
  <2>4. n = Len(q) => p = q
    BY <1>1, <2>1, SeqEqual
  <2> QED BY <2>2, <2>3, <2>4
<1>6. CASE p = <<>>
  <2>1. \A i \in 1..Len(uplink') : uplink'[i].cmd = c =>
            /\ pc[uplink'[i].by] = WaitPc(c)
            /\ uplink'[i].param = arg[uplink'[i].by].param
            /\ uplink'[i].value = arg[uplink'[i].by].value
    BY <1>4 DEF Traffic
  <2>2. \A i, j \in 1..Len(uplink') : uplink'[i].cmd = c /\ uplink'[j].cmd = c => i = j
    BY <1>4 DEF Traffic
  <2> QED BY <1>6, <2>1, <2>2, EmptySeq DEF Traffic
<1>7. CASE p = q
  BY <1>4, <1>7 DEF Traffic
<1> QED BY <1>5, <1>6, <1>7

-----------------------------------------------------------------------------
LEMMA InitTraffic == Init => TrafficInv
  BY EmptySeq DEF Init, TrafficInv, Traffic, Queue

\* Only Cancel counts a dropped call.
LEMMA NoneDropped ==
    ASSUME BaseInv, [Next]_vars, cancels' = 0
    PROVE  cancels = 0 /\ \A u \in Users : ~Cancel(u)
<1>1. \A u \in Users : ~Cancel(u)
  BY DEF Cancel, BaseInv, TypeOK
<1>2. CASE UNCHANGED vars
  BY <1>1, <1>2 DEF vars
<1>3. CASE Next
  BY <1>1, <1>3 DEF Next, CallStep, CallGet, CallSet, CallWatch, Call, GetCached, GetRead,
     GetAnswered, SetSend, SetAnswered, SetStore, SetPanic, SetNotify, WatchPush, DropStream,
     SendError, WaitError, LoopStep, LoopRecv, LoopRecvError, LoopStore, LoopNotify,
     LoopClearValues, LoopClearWatchers, FwRequest, FwChange, FwMalformed, DownlinkEnds, UplinkEnds
<1> QED BY <1>1, <1>2, <1>3

LEMMA StepTraffic == ASSUME BaseInv, TrafficInv, [Next]_vars PROVE TrafficInv'
<1> SUFFICES ASSUME cancels' = 0 PROVE \A c \in Kinds : Traffic(c)'
  BY DEF TrafficInv
<1>1. cancels = 0 /\ \A u \in Users : ~Cancel(u)
  BY NoneDropped
<1>2. CASE UNCHANGED vars
  BY <1>1, <1>2, TrafficKept DEF vars, Queue, TrafficInv
<1>3. \A c \in Kinds : Traffic(c)
  BY <1>1 DEF TrafficInv
<1>4. ASSUME NEW u \in Users, UNCHANGED wireVars, pc[u] \notin {"getWait", "setWait"},
             \A w \in Users \ {u} : pc'[w] = pc[w] /\ arg'[w] = arg[w]
      PROVE  \A c \in Kinds : Traffic(c)'
  <2>1. \A c \in Kinds : UNCHANGED <<uplink, Queue(c)>> /\ WaitPc(c) \in {"getWait", "setWait"}
    BY <1>4 DEF Queue, WaitPc
  <2> SUFFICES ASSUME NEW c \in Kinds PROVE Traffic(c)'
    OBVIOUS
  <2>2. \A w \in Users : pc[w] = WaitPc(c) => pc'[w] = WaitPc(c) /\ arg'[w] = arg[w]
    BY <1>4, <2>1
  <2> QED BY <1>3, <2>1, <2>2, TrafficKept
<1>5. ASSUME NEW u \in Users, CallGet(u) \/ CallSet(u) \/ CallWatch(u) PROVE \A c \in Kinds : Traffic(c)'
  <2>1. UNCHANGED wireVars /\ pc[u] \notin {"getWait", "setWait"}
        /\ \A w \in Users \ {u} : pc'[w] = pc[w] /\ arg'[w] = arg[w]
    BY <1>5 DEF CallGet, CallSet, CallWatch, Call, Goto, BaseInv, TypeOK
  <2> QED BY <1>4, <2>1
<1>6. ASSUME NEW u \in Users, GetCached(u) \/ SetStore(u) \/ SetPanic(u) \/ SetNotify(u) \/ WatchPush(u)
                                 \/ SendError(u)
      PROVE \A c \in Kinds : Traffic(c)'
  <2>1. UNCHANGED wireVars /\ pc[u] \notin {"getWait", "setWait"}
    BY <1>6 DEF GetCached, SetStore, SetPanic, SetNotify, WatchPush, SendError, Fails
  <2>2. \A w \in Users \ {u} : pc'[w] = pc[w] /\ arg'[w] = arg[w]
    BY <1>6 DEF GetCached, SetStore, SetPanic, SetNotify, WatchPush, SendError, Fails, Return, Goto, BaseInv, TypeOK
  <2> QED BY <1>4, <2>1, <2>2
<1>7. ASSUME NEW u \in Users, GetRead(u) PROVE \A c \in Kinds : Traffic(c)'
  <2>1. \A w \in Users : pc[w] # "getWait"
    BY <1>7, HolderAssumption DEF GetRead, BaseInv, LockInv
  <2> QED BY <1>3, <1>7, <2>1, TrafficSent DEF GetRead, WaitPc, Kinds
<1>8. ASSUME NEW u \in Users, SetSend(u) PROVE \A c \in Kinds : Traffic(c)'
  <2>1. \A w \in Users : pc[w] # "setWait"
    BY <1>8, HolderAssumption DEF SetSend, BaseInv, LockInv, InSet
  <2> QED BY <1>3, <1>8, <2>1, TrafficSent DEF SetSend, WaitPc, Kinds
<1>9. ASSUME NEW u \in Users, GetAnswered(u) PROVE \A c \in Kinds : Traffic(c)'
  <2>1. Queue("read")' = <<>> /\ UNCHANGED <<uplink, Queue("set")>>
    BY <1>3, <1>9, TrafficReceived DEF GetAnswered, Queue, Kinds
  <2>2. \A i \in 1..Len(uplink') : uplink'[i].cmd # "read"
    BY <1>3, <1>9, TrafficReceived DEF GetAnswered, Queue, Kinds
  <2>3. Traffic("read")'
    BY <2>1, <2>2, TrafficOver
  <2>4. \A w \in Users : pc[w] = WaitPc("set") => pc'[w] = WaitPc("set") /\ arg'[w] = arg[w]
    BY <1>9 DEF GetAnswered, WaitPc, BaseInv, TypeOK, Return, Goto
  <2>5. Traffic("set")'
    BY <1>3, <2>1, <2>4, TrafficKept DEF Kinds
  <2> QED BY <2>3, <2>5 DEF Kinds
<1>10. ASSUME NEW u \in Users, SetAnswered(u) PROVE \A c \in Kinds : Traffic(c)'
  <2>1. Queue("set")' = <<>> /\ UNCHANGED <<uplink, Queue("read")>>
    BY <1>3, <1>10, TrafficReceived DEF SetAnswered, Queue, Kinds
  <2>2. \A i \in 1..Len(uplink') : uplink'[i].cmd # "set"
    BY <1>3, <1>10, TrafficReceived DEF SetAnswered, Queue, Kinds
  <2>3. Traffic("set")'
    BY <2>1, <2>2, TrafficOver
  <2>4. \A w \in Users : pc[w] = WaitPc("read") => pc'[w] = WaitPc("read") /\ arg'[w] = arg[w]
    BY <1>10 DEF SetAnswered, WaitPc, BaseInv, TypeOK, Return, Goto
  <2>5. Traffic("read")'
    BY <1>3, <2>1, <2>4, TrafficKept DEF Kinds
  <2> QED BY <2>3, <2>5 DEF Kinds
<1>11. ASSUME NEW u \in Users, WaitError(u) PROVE \A c \in Kinds : Traffic(c)'
  <2>1. uplink = <<>> /\ UNCHANGED <<uplink, read, write>>
    BY <1>11 DEF WaitError, Fails, BaseInv, PlaceInv
  <2>2. \A w \in Users \ {u} : pc'[w] = pc[w] /\ arg'[w] = arg[w]
    BY <1>11 DEF WaitError, Fails, Return, Goto, BaseInv, TypeOK
  <2> SUFFICES ASSUME NEW c \in Kinds PROVE Traffic(c)'
    OBVIOUS
  <2>3. CASE pc[u] = WaitPc(c)
    <3>1. Queue(c)' = <<>>
      BY <1>11, <2>1, <2>3 DEF WaitError, Queue, WaitPc, Kinds
    <3>2. \A i \in 1..Len(uplink') : uplink'[i].cmd # c
      BY <2>1, EmptySeq
    <3> QED BY <3>1, <3>2, TrafficOver
  <2>4. CASE pc[u] # WaitPc(c)
    <3>1. \A w \in Users : pc[w] = WaitPc(c) => pc'[w] = WaitPc(c) /\ arg'[w] = arg[w]
      BY <2>2, <2>4
    <3>2. UNCHANGED <<uplink, Queue(c)>>
      BY <2>1 DEF Queue
    <3> QED BY <1>3, <3>1, <3>2, TrafficKept
  <2> QED BY <2>3, <2>4
<1>12. CASE LoopStep \/ FwMalformed \/ (\E u \in Users : DropStream(u)) \/ \E p \in Changing, v \in Values : FwChange(p, v)
  <2>1. UNCHANGED <<pc, arg, uplink, read, write>>
    BY <1>12 DEF LoopStep, LoopRecv, LoopRecvError, LoopStore, LoopNotify, LoopClearValues, LoopClearWatchers,
       FwChange, FwMalformed, DropStream
  <2>2. \A c \in Kinds : UNCHANGED <<uplink, Queue(c)>>
    BY <2>1 DEF Queue
  <2> QED BY <1>3, <2>1, <2>2, TrafficKept
<1>13. CASE FwRequest
  <2>1. /\ Head(uplink) \in Requests /\ uplink # <<>> /\ uplink' = Tail(uplink)
        /\ UNCHANGED <<pc, arg>>
    BY <1>13, QueueFacts DEF BaseInv, TypeOK, FwRequest
  <2> DEFINE r == Head(uplink)
  <2>2. /\ r.cmd \in Kinds /\ r.param \in Params /\ fw[r.param] \in Values /\ r.value \in Values
        /\ FwRead(r) \/ FwSet(r) \/ FwRefuse(r)
    BY <1>13, <2>1 DEF Requests, Kinds, BaseInv, TypeOK, FwRequest
  <2>3. PICK c \in Kinds : c = r.cmd
    BY <2>2
  <2> HIDE DEF r
  <2>4. \E a \in Answers : /\ a.param = r.param
                           /\ Queue(c)' = Append(Queue(c), a)
                           /\ \A d \in Kinds \ {c} : UNCHANGED Queue(d)
    <3> DEFINE yes == [param |-> r.param, value |-> fw[r.param]]
               ok == [param |-> r.param, value |-> r.value]
               no == [param |-> r.param, value |-> ErrorCode]
    <3>1. /\ yes \in Answers /\ ok \in Answers /\ no \in Answers
          /\ yes.param = r.param /\ ok.param = r.param /\ no.param = r.param
      BY <2>2 DEF Answers
    <3>2. CASE FwRead(r)
      <4>1. c = "read" /\ read' = Append(read, yes) /\ UNCHANGED write
        BY <2>3, <3>2 DEF FwRead
      <4> QED BY <3>1, <4>1 DEF Queue, Kinds
    <3>3. CASE FwSet(r)
      <4>1. c = "set" /\ write' = Append(write, ok) /\ UNCHANGED read
        BY <2>3, <3>3 DEF FwSet
      <4> QED BY <3>1, <4>1 DEF Queue, Kinds
    <3>4. CASE FwRefuse(r)
      <4>1. c = "set" /\ write' = Append(write, no) /\ UNCHANGED read
        BY <2>3, <3>4 DEF FwRefuse
      <4> QED BY <3>1, <4>1 DEF Queue, Kinds
    <3> QED BY <2>2, <3>2, <3>3, <3>4
  <2> QED BY <1>3, <2>1, <2>3, <2>4, TrafficAnswered DEF r
<1>14. CASE DownlinkEnds
  <2>1. SubSeq(uplink, 1, 0) = <<>> /\ 0 \in 0..Len(uplink)
    BY SubSeqEmpty, LenProperties DEF BaseInv, TypeOK
  <2>2. UNCHANGED <<pc, arg>> /\ \E n \in 0..Len(uplink) : uplink' = SubSeq(uplink, 1, n)
    BY <1>14, <2>1 DEF DownlinkEnds
  <2>3. \A c \in Kinds : \E n \in 0..Len(Queue(c)) : Queue(c)' = SubSeq(Queue(c), 1, n)
    BY <1>14 DEF DownlinkEnds, Queue
  <2> QED BY <1>3, <2>2, <2>3, TrafficLost
<1>15. CASE UplinkEnds
  <2>1. UNCHANGED <<pc, arg>> /\ \E n \in 0..Len(uplink) : uplink' = SubSeq(uplink, 1, n)
    BY <1>15 DEF UplinkEnds
  <2> SUFFICES ASSUME NEW c \in Kinds PROVE Traffic(c)'
    OBVIOUS
  <2> DEFINE q == Queue(c)
  <2>2. q \in Seq(Answers) /\ Queue(c)' = q
    BY <1>15, Waiters DEF UplinkEnds, Queue
  <2> HIDE DEF q
  <2>3. Len(q) \in 0..Len(q) /\ Queue(c)' = SubSeq(q, 1, Len(q))
    BY <2>2, SubSeqFull, LenProperties
  <2> QED BY <1>3, <2>1, <2>3, TrafficLost DEF q
<1> QED BY <1>1, <1>2, <1>5, <1>6, <1>7, <1>8, <1>9, <1>10, <1>11, <1>12, <1>13, <1>14, <1>15
        DEF Next, CallStep

-----------------------------------------------------------------------------
(* Whether the Crazyflie has carried out a set *)

\* A call of set knows from the answer whether its request was carried out, and
\* goes on to store the value only if it was.
EchoInv == cancels = 0 =>
    /\ \A u \in Users : applied[u] => InSet(u)
    /\ \A u \in Users : pc[u] \in {"setStore", "setNotify"} => applied[u]
    /\ \A i \in 1..Len(uplink) : uplink[i].cmd = "set" => ~applied[uplink[i].by]
    /\ write # <<>> => \A u \in Users : pc[u] = "setWait" =>
                            (write[1].value = arg[u].value <=> applied[u])

\* A step of a call that is not a set, or of the misc loop.
LEMMA EchoKept ==
    ASSUME BaseInv, EchoInv, cancels = 0, UNCHANGED <<uplink, write, applied>>,
           \A u \in Users : \/ pc'[u] = pc[u] /\ arg'[u] = arg[u]
                            \/ ~InSet(u) /\ pc'[u] \notin {"setWait", "setStore", "setNotify"}
    PROVE  EchoInv'
  BY DEF EchoInv, InSet

\* Nothing is under way of a set that does not wait.
LEMMA NotWaiting ==
    ASSUME BaseInv, TrafficInv, cancels = 0, NEW u \in Users, pc[u] \in {"setStore", "setNotify"}
    PROVE  write = <<>> /\ \A i \in 1..Len(uplink) : uplink[i].cmd # "set"
<1>1. \A w \in Users : pc[w] # "setWait"
  BY DEF BaseInv, LockInv, InSet
<1> QED BY <1>1, TrafficNone DEF TrafficInv, Kinds, Queue, WaitPc

\* The answer to a set is the last thing under way.
LEMMA SetReceived ==
    ASSUME BaseInv, TrafficInv, cancels = 0, write # <<>>
    PROVE  /\ Head(write) = write[1] /\ Tail(write) = <<>>
           /\ \A i \in 1..Len(uplink) : uplink[i].cmd # "set"
  BY TrafficReceived DEF TrafficInv, Kinds, Queue

\* A set is over.
LEMMA EchoOver ==
    ASSUME BaseInv, EchoInv, cancels = 0, NEW u \in Users, Return(u), write' = <<>>,
           \A i \in 1..Len(uplink') : uplink'[i].cmd # "set"
    PROVE  EchoInv'
<1>1. \A w \in Users \ {u} : pc'[w] = pc[w] /\ applied'[w] = applied[w]
  BY DEF BaseInv, TypeOK, Return, Goto
<1>2. pc'[u] = "idle" /\ applied'[u] = FALSE
  BY DEF BaseInv, TypeOK, Return, Goto
<1> QED BY <1>1, <1>2 DEF EchoInv, InSet

LEMMA InitEcho == Init => EchoInv
  BY EmptySeq DEF Init, EchoInv

LEMMA StepEcho ==
    ASSUME BaseInv, TrafficInv, EchoInv, ErrorCode \notin Values, [Next]_vars
    PROVE  EchoInv'
<1> SUFFICES ASSUME cancels' = 0 PROVE EchoInv'
  BY DEF EchoInv
<1>1. cancels = 0 /\ \A u \in Users : ~Cancel(u)
  BY NoneDropped
<1>2. CASE UNCHANGED vars
  BY <1>1, <1>2 DEF vars, EchoInv, InSet
<1>3. ASSUME NEW u \in Users, CallGet(u) \/ CallSet(u) \/ CallWatch(u) PROVE EchoInv'
  <2>1. /\ UNCHANGED <<uplink, write, applied>> /\ pc[u] = "idle"
        /\ pc'[u] \notin {"setWait", "setStore", "setNotify"}
        /\ \A w \in Users \ {u} : pc'[w] = pc[w] /\ arg'[w] = arg[w]
    BY <1>3 DEF CallGet, CallSet, CallWatch, Call, Goto, BaseInv, TypeOK
  <2> QED BY <1>1, <2>1, EchoKept DEF InSet
\* A call that ends and is not a set under way.
<1>4. ASSUME NEW u \in Users, ~InSet(u), Return(u), UNCHANGED <<uplink, write>> PROVE EchoInv'
  <2>1. UNCHANGED applied
    BY <1>1, <1>4 DEF EchoInv, Return, BaseInv, TypeOK
  <2>2. pc'[u] = "idle" /\ \A w \in Users \ {u} : pc'[w] = pc[w] /\ arg'[w] = arg[w]
    BY <1>4 DEF Return, Goto, BaseInv, TypeOK
  <2> QED BY <1>1, <1>4, <2>1, <2>2, EchoKept
<1>5. ASSUME NEW u \in Users, GetCached(u) \/ WatchPush(u) \/ SendError(u) PROVE EchoInv'
  <2>1. ~InSet(u) /\ Return(u) /\ UNCHANGED <<uplink, write>>
    BY <1>5 DEF GetCached, WatchPush, SendError, Fails, InSet
  <2> QED BY <1>4, <2>1
<1>6. ASSUME NEW u \in Users, GetAnswered(u) PROVE EchoInv'
  <2>1. ~InSet(u) /\ UNCHANGED <<uplink, write>>
    BY <1>6 DEF GetAnswered, InSet
  <2>2. CASE Return(u)
    BY <1>4, <2>1, <2>2
  <2>3. CASE UNCHANGED <<cacheVars, callVars, applied>>
    BY <1>1, <2>1, <2>3, EchoKept
  <2> QED BY <1>6, <2>2, <2>3 DEF GetAnswered
<1>7. ASSUME NEW u \in Users, WaitError(u) PROVE EchoInv'
  <2>1. Return(u) /\ UNCHANGED <<uplink, write>> /\ uplink = <<>>
    BY <1>7 DEF WaitError, Fails, BaseInv, PlaceInv
  <2>2. CASE pc[u] = "getWait"
    BY <1>4, <2>1, <2>2 DEF InSet
  <2>3. CASE pc[u] = "setWait"
    <3>1. write' = <<>> /\ \A i \in 1..Len(uplink') : uplink'[i].cmd # "set"
      BY <1>7, <2>1, <2>3, EmptySeq DEF WaitError
    <3> QED BY <1>1, <2>1, <3>1, EchoOver
  <2> QED BY <1>7, <2>2, <2>3 DEF WaitError
<1>8. ASSUME NEW u \in Users, SetPanic(u) \/ SetNotify(u) PROVE EchoInv'
  <2>1. Return(u) /\ UNCHANGED <<uplink, write>> /\ pc[u] \in {"setStore", "setNotify"}
    BY <1>8 DEF SetPanic, SetNotify, Fails
  <2> QED BY <1>1, <2>1, NotWaiting, EchoOver
<1>9. ASSUME NEW u \in Users, SetStore(u) PROVE EchoInv'
  <2>1. write' = <<>> /\ UNCHANGED <<uplink, applied>> /\ pc[u] = "setStore"
    BY <1>1, <1>9, NotWaiting DEF SetStore
  <2>2. pc'[u] = "setNotify" /\ \A w \in Users \ {u} : pc'[w] = pc[w]
    BY <1>9 DEF SetStore, Goto, BaseInv, TypeOK
  <2> QED BY <1>1, <2>1, <2>2 DEF EchoInv, InSet
<1>10. ASSUME NEW u \in Users, SetAnswered(u) PROVE EchoInv'
  <2>1. /\ write' = <<>> /\ \A i \in 1..Len(uplink') : uplink'[i].cmd # "set"
        /\ Head(write) = write[1] /\ write # <<>> /\ pc[u] = "setWait"
    BY <1>1, <1>10, SetReceived DEF SetAnswered
  <2>2. CASE UNCHANGED <<callVars, writeLock, applied>>
    BY <1>1, <2>1, <2>2 DEF EchoInv, InSet
  <2>3. CASE Echoed(u, Head(write)) /\ Goto(u, "setStore") /\ UNCHANGED <<arg, writeLock, applied>>
    <3>1. applied[u]
      BY <1>1, <2>1, <2>3 DEF EchoInv, Echoed
    <3>2. pc'[u] = "setStore" /\ \A w \in Users \ {u} : pc'[w] = pc[w]
      BY <2>3 DEF Goto, BaseInv, TypeOK
    <3> QED BY <1>1, <2>1, <2>3, <3>1, <3>2 DEF EchoInv, InSet
  <2>4. CASE Return(u)
    BY <1>1, <2>1, <2>4, EchoOver
  <2> QED BY <1>10, <2>2, <2>3, <2>4 DEF SetAnswered
\* A request is sent.
<1>11. ASSUME NEW u \in Users, NEW c \in Kinds, Send(u, c), Goto(u, WaitPc(c)),
              UNCHANGED <<arg, write, applied>>, ~InSet(u), c = "set" => write = <<>>
       PROVE  EchoInv'
  <2>1. pc'[u] = WaitPc(c) /\ \A w \in Users \ {u} : pc'[w] = pc[w]
    BY <1>11 DEF Goto, BaseInv, TypeOK
  <2>2. ~applied[u]
    BY <1>1, <1>11 DEF EchoInv
  <2> DEFINE r == [cmd |-> c, by |-> u, param |-> arg[u].param, value |-> arg[u].value]
  <2>3. r \in Requests /\ r.by = u /\ r.cmd = c /\ uplink' \in {Append(uplink, r), uplink}
    BY <1>11 DEF Send, BaseInv, TypeOK, Requests, Kinds
  <2> HIDE DEF r
  <2>4. \A i \in 1..Len(uplink') : \/ i \in 1..Len(uplink) /\ uplink'[i] = uplink[i]
                                   \/ uplink'[i] = r
    <3>1. uplink \in Seq(Requests) /\ Len(uplink) \in Nat
      BY LenProperties DEF BaseInv, TypeOK
    <3>2. CASE uplink' = Append(uplink, r)
      <4>1. /\ Len(uplink') = Len(uplink) + 1 /\ uplink'[Len(uplink) + 1] = r
            /\ \A i \in 1..Len(uplink) : uplink'[i] = uplink[i]
        BY <2>3, <3>1, <3>2, AppendProperties
      <4> QED BY <3>1, <4>1
    <3> QED BY <2>3, <3>2
  <2>5. \A i \in 1..Len(uplink') : uplink'[i].cmd = "set" => ~applied'[uplink'[i].by]
    BY <1>1, <1>11, <2>2, <2>3, <2>4 DEF EchoInv
  <2>6. \A w \in Users : pc'[w] = "setWait" => pc[w] = "setWait" \/ c = "set"
    BY <2>1 DEF WaitPc, Kinds
  <2>7. write' # <<>> => \A w \in Users : pc'[w] = "setWait" =>
                            (write'[1].value = arg'[w].value <=> applied'[w])
    BY <1>1, <1>11, <2>6 DEF EchoInv
  <2>8. \A w \in Users : /\ applied'[w] => InSet(w)'
                         /\ pc'[w] \in {"setStore", "setNotify"} => applied'[w]
    BY <1>1, <1>11, <2>1, <2>2 DEF EchoInv, InSet, WaitPc
  <2> QED BY <2>5, <2>7, <2>8 DEF EchoInv
<1>12. ASSUME NEW u \in Users, GetRead(u) PROVE EchoInv'
  BY <1>11, <1>12 DEF GetRead, Kinds, WaitPc, InSet
<1>13. ASSUME NEW u \in Users, SetSend(u) PROVE EchoInv'
  <2>1. \A w \in Users : pc[w] # "setWait"
    BY <1>13, HolderAssumption DEF SetSend, BaseInv, LockInv, InSet
  <2>2. write = <<>>
    BY <1>1, <2>1, TrafficNone DEF TrafficInv, Kinds, Queue, WaitPc
  <2> QED BY <1>11, <1>13, <2>2 DEF SetSend, Kinds, WaitPc, InSet
<1>14. CASE LoopStep \/ FwMalformed \/ (\E u \in Users : DropStream(u))
              \/ \E p \in Changing, v \in Values : FwChange(p, v)
  <2>1. UNCHANGED <<pc, arg, uplink, write, applied>>
    BY <1>14 DEF LoopStep, LoopRecv, LoopRecvError, LoopStore, LoopNotify, LoopClearValues,
       LoopClearWatchers, FwChange, FwMalformed, DropStream
  <2> QED BY <1>1, <2>1, EchoKept
<1>15. CASE FwRequest
  <2>1. /\ Head(uplink) \in Requests /\ uplink # <<>> /\ Head(uplink) = uplink[1]
        /\ 1 \in 1..Len(uplink) /\ UNCHANGED <<pc, arg>>
        /\ \A i \in 1..Len(uplink') : i + 1 \in 1..Len(uplink) /\ i + 1 # 1 /\ uplink'[i] = uplink[i + 1]
    BY <1>15, QueueFacts DEF BaseInv, TypeOK, FwRequest
  <2> DEFINE r == Head(uplink)
  <2>2. r.by \in Users /\ r.value \in Values /\ (FwRead(r) \/ FwSet(r) \/ FwRefuse(r))
    BY <1>15, <2>1 DEF Requests, FwRequest
  <2>3. r = uplink[1]
    BY <2>1
  <2> HIDE DEF r
  <2>4. CASE FwRead(r)
    BY <1>1, <2>1, <2>4 DEF FwRead, EchoInv, InSet
  <2>5. CASE FwSet(r) \/ FwRefuse(r)
    <3>1. r.cmd = "set"
      BY <2>5 DEF FwSet, FwRefuse
    <3>2. pc[r.by] = "setWait" /\ r.value = arg[r.by].value /\ ~applied[r.by] /\ write = <<>>
      BY <1>1, <2>1, <2>3, <3>1 DEF EchoInv, TrafficInv, Traffic, Kinds, WaitPc, Queue
    <3>3. \A w \in Users : pc[w] = "setWait" => w = r.by
      BY <2>2, <3>2 DEF BaseInv, LockInv, InSet
    <3>4. \A i \in 1..Len(uplink') : uplink'[i].cmd # "set"
      BY <1>1, <2>1, <2>3, <3>1 DEF TrafficInv, Traffic, Kinds
    <3>5. CASE FwSet(r)
      <4>1. /\ applied'[r.by] /\ \A w \in Users \ {r.by} : applied'[w] = applied[w]
            /\ write' = Append(<<>>, [param |-> r.param, value |-> r.value])
        BY <2>2, <3>2, <3>5 DEF FwSet, BaseInv, TypeOK
      <4>2. write'[1].value = r.value
        BY <4>1
      <4> QED BY <1>1, <2>1, <2>2, <3>2, <3>3, <3>4, <4>1, <4>2 DEF EchoInv, InSet
    <3>6. CASE FwRefuse(r)
      <4>1. UNCHANGED applied /\ write' = Append(<<>>, [param |-> r.param, value |-> ErrorCode])
        BY <3>2, <3>6 DEF FwRefuse
      <4>2. write'[1].value = ErrorCode
        BY <4>1
      <4> QED BY <1>1, <2>1, <2>2, <3>2, <3>3, <3>4, <4>1, <4>2 DEF EchoInv, InSet
    <3> QED BY <2>5, <3>5, <3>6
  <2> QED BY <2>2, <2>4, <2>5
<1>16. CASE DownlinkEnds \/ UplinkEnds
  <2>1. UNCHANGED <<pc, arg, applied>> /\ (write' = <<>> \/ write' = write)
    <3>1. CASE UplinkEnds
      BY <3>1 DEF UplinkEnds
    <3>2. CASE DownlinkEnds
      <4>1. SubSeq(uplink, 1, 0) = <<>> /\ 0 \in 0..Len(uplink)
        BY SubSeqEmpty, LenProperties DEF BaseInv, TypeOK
      <4>2. UNCHANGED <<pc, arg, applied>> /\ \E n \in 0..Len(uplink) : uplink' = SubSeq(uplink, 1, n)
        BY <3>2, <4>1 DEF DownlinkEnds
      <4>3. \E n \in 0..Len(Queue("set")) : Queue("set")' = SubSeq(Queue("set"), 1, n)
        BY <3>2 DEF DownlinkEnds, Queue
      <4>4. Queue("set")' # <<>> => Queue("set")' = Queue("set")
        BY <1>1, <4>2, <4>3, TrafficLost DEF TrafficInv, Kinds
      <4> QED BY <4>2, <4>4 DEF Queue
    <3> QED BY <1>16, <3>1, <3>2
  <2>2. \A i \in 1..Len(uplink') : i \in 1..Len(uplink) /\ uplink'[i] = uplink[i]
    <3>1. CASE UplinkEnds
      <4>1. PICK n \in 0..Len(uplink) : uplink' = SubSeq(uplink, 1, n)
        BY <3>1 DEF UplinkEnds
      <4>2. uplink \in Seq(Requests)
        BY DEF BaseInv, TypeOK
      <4> QED BY <4>1, <4>2, QueueFacts
    <3>2. CASE DownlinkEnds
      BY <3>2, EmptySeq DEF DownlinkEnds
    <3> QED BY <1>16, <3>1, <3>2
  <2> QED BY <1>1, <2>1, <2>2 DEF EchoInv, InSet
<1> QED BY <1>1, <1>2, <1>3, <1>5, <1>6, <1>7, <1>8, <1>9, <1>10, <1>12, <1>13, <1>14, <1>15, <1>16
        DEF Next, CallStep

(***************************************************************************)
(* Where the code of a refusal is no value of the parameter, a set that is *)
(* about to succeed has been carried out by the Crazyflie, for this call:  *)
(* the lock of write_downlink keeps every other answer away from it.       *)
(***************************************************************************)
THEOREM SetsHonest == ErrorCode \notin Values => (Spec => []SetHonest)
<1> SUFFICES ASSUME ErrorCode \notin Values PROVE Spec => []SetHonest
  OBVIOUS
<1> DEFINE Inv == BaseInv /\ TrafficInv /\ EchoInv
<1>1. Init => Inv
  BY InitBase, InitTraffic, InitEcho
<1>2. Inv /\ [Next]_vars => Inv'
  BY StepBase, StepTraffic, StepEcho
<1>3. Inv => SetHonest
  BY DEF EchoInv, SetHonest
<1> HIDE DEF Inv
<1> QED BY <1>1, <1>2, <1>3, PTL DEF Spec

-----------------------------------------------------------------------------
(* The cache and the Crazyflie *)

\* A parameter is changed by the program or by the Crazyflie, not by both.
Apart == Settable \intersect Changing = {} /\ ErrorCode \notin Values

\* What a set that was carried out wrote is still there.
AppliedInv == cancels = 0 => \A u \in Users : applied[u] => fw[arg[u].param] = arg[u].value

\* The cache is behind the Crazyflie for a set that was carried out and not yet
\* stored, or for an update that is not yet stored.
Tells(k, p) == k.kind = "update" /\ k.param = p
Setting(p) == \E u \in Users : /\ pc[u] \in {"setWait", "setStore"}
                               /\ applied[u] /\ arg[u].param = p
Storing(p) == loop = "store" /\ update.param = p
Told(p) == \E i \in 1..Len(misc) : Tells(misc[i], p)
Behind(p) == Setting(p) \/ Storing(p) \/ Told(p)

\* The last update of a parameter has its value.
LastTold(p) ==
    /\ \A i \in 1..Len(misc) :
          Tells(misc[i], p) /\ (\A j \in 1..Len(misc) : j > i => ~Tells(misc[j], p)) =>
              misc[i].value = fw[p]
    /\ Storing(p) /\ ~Told(p) => update.value = fw[p]

\* Else the cache agrees with the Crazyflie, and so does a value that was read.
Coherent(p) ==
    /\ values[p] \in {NoValue, fw[p]} \/ Behind(p)
    /\ \A i \in 1..Len(read) : read[i].param = p => read[i].value = fw[p] \/ Behind(p)
    /\ LastTold(p)

Alive == downlinkUp /\ cancels = 0 /\ loop \in {"recv", "store", "notify"}

CacheInv == Alive => \A p \in Params : Coherent(p)

HonestInv == BaseInv /\ TrafficInv /\ EchoInv
HeardInv == HonestInv /\ AppliedInv

LEMMA StepHonest == ASSUME HonestInv, ErrorCode \notin Values, [Next]_vars PROVE HonestInv'
  BY StepBase, StepTraffic, StepEcho DEF HonestInv

LEMMA InitApplied == Init => AppliedInv
  BY DEF Init, AppliedInv

LEMMA StepApplied == ASSUME HonestInv, AppliedInv, Apart, [Next]_vars PROVE AppliedInv'
<1> USE DEF HonestInv
<1> SUFFICES ASSUME cancels' = 0, NEW w \in Users, applied'[w]
             PROVE  fw'[arg'[w].param] = arg'[w].value
  BY DEF AppliedInv
<1>1. cancels = 0 /\ \A u \in Users : ~Cancel(u)
  BY NoneDropped
<1>2. CASE UNCHANGED <<fw, applied, arg>>
  BY <1>1, <1>2 DEF AppliedInv
<1>3. CASE UNCHANGED vars
  BY <1>2, <1>3 DEF vars
<1>4. ASSUME NEW u \in Users, CallGet(u) \/ CallSet(u) \/ CallWatch(u)
      PROVE  fw'[arg'[w].param] = arg'[w].value
  <2>1. UNCHANGED <<fw, applied>> /\ pc[u] = "idle" /\ (u # w => arg'[w] = arg[w])
    BY <1>4 DEF CallGet, CallSet, CallWatch, Call, BaseInv, TypeOK
  <2>2. u # w
    BY <1>1, <2>1 DEF EchoInv, InSet
  <2> QED BY <1>1, <2>1, <2>2 DEF AppliedInv
<1>5. ASSUME NEW u \in Users, Return(u), UNCHANGED fw PROVE fw'[arg'[w].param] = arg'[w].value
  BY <1>1, <1>5 DEF AppliedInv, Return, BaseInv, TypeOK
<1>6. ASSUME NEW u \in Users, CallStep(u) PROVE fw'[arg'[w].param] = arg'[w].value
  <2>1. UNCHANGED fw /\ (Return(u) \/ UNCHANGED <<arg, applied>>)
    BY <1>6 DEF CallStep, GetCached, GetRead, GetAnswered, SetSend, SetAnswered, SetStore,
       SetPanic, SetNotify, WatchPush, SendError, WaitError, Fails
  <2> QED BY <1>2, <1>5, <2>1
<1>7. CASE LoopStep \/ FwMalformed \/ (\E u \in Users : DropStream(u)) \/ DownlinkEnds \/ UplinkEnds
  BY <1>2, <1>7 DEF LoopStep, LoopRecv, LoopRecvError, LoopStore, LoopNotify, LoopClearValues,
     LoopClearWatchers, FwMalformed, DropStream, DownlinkEnds, UplinkEnds
<1>8. ASSUME NEW p \in Changing, NEW v \in Values, FwChange(p, v)
      PROVE  fw'[arg'[w].param] = arg'[w].value
  <2>1. UNCHANGED <<arg, applied>> /\ fw' = [fw EXCEPT ![p] = v]
    BY <1>8 DEF FwChange
  <2>2. arg[w].param \in Settable
    BY <1>1, <2>1 DEF BaseInv, PlaceInv, EchoInv
  <2>3. fw'[arg[w].param] = fw[arg[w].param]
    BY <2>1, <2>2, ParamAssumption DEF Apart, BaseInv, TypeOK
  <2> QED BY <1>1, <2>1, <2>3 DEF AppliedInv
<1>9. CASE FwRequest
  <2>1. /\ Head(uplink) \in Requests /\ Head(uplink) = uplink[1] /\ 1 \in 1..Len(uplink)
        /\ UNCHANGED <<pc, arg>>
    BY <1>9, QueueFacts DEF BaseInv, TypeOK, FwRequest
  <2> DEFINE r == Head(uplink)
  <2>2. r.by \in Users /\ r.param \in Params /\ (FwRead(r) \/ FwSet(r) \/ FwRefuse(r))
    BY <1>9, <2>1 DEF Requests, FwRequest
  <2>3. r = uplink[1]
    BY <2>1
  <2> HIDE DEF r
  <2>4. CASE FwRead(r) \/ FwRefuse(r)
    BY <1>2, <2>1, <2>4 DEF FwRead, FwRefuse
  <2>5. CASE FwSet(r)
    <3>1. pc[r.by] = "setWait" /\ r.param = arg[r.by].param /\ r.value = arg[r.by].value
      BY <1>1, <2>1, <2>3, <2>5 DEF FwSet, TrafficInv, Traffic, Kinds, WaitPc
    <3>2. /\ fw'[r.param] = r.value /\ \A u \in Users \ {r.by} : applied'[u] = applied[u]
      BY <2>2, <2>5 DEF FwSet, BaseInv, TypeOK
    <3>3. \A u \in Users : applied[u] => u = r.by
      BY <1>1, <2>2, <3>1 DEF EchoInv, BaseInv, LockInv, InSet
    <3>4. w = r.by
      BY <2>2, <3>2, <3>3
    <3> QED BY <2>1, <3>1, <3>2, <3>4
  <2> QED BY <2>2, <2>4, <2>5
<1> QED BY <1>1, <1>3, <1>4, <1>6, <1>7, <1>8, <1>9 DEF Next

\* No read is under way while nobody holds the lock of values.
LEMMA NoRead ==
    ASSUME BaseInv, TrafficInv, cancels = 0, valuesLock = NoOne
    PROVE  read = <<>> /\ \A u \in Users : pc[u] # "getWait"
<1>1. \A u \in Users : pc[u] # "getWait"
  BY HolderAssumption DEF BaseInv, LockInv
<1> QED BY <1>1, TrafficNone DEF TrafficInv, Kinds, Queue, WaitPc

\* A step that changes no value, and ends no set that was carried out.
LEMMA CacheKept ==
    ASSUME CacheInv, cancels = 0, UNCHANGED <<values, fw, misc, loop, update, downlinkUp>>,
           UNCHANGED read \/ read' = <<>>,
           Alive => \A p \in Params : Setting(p) => Setting(p)'
    PROVE  CacheInv'
<1>1. Alive' => Alive
  BY DEF Alive
<1> SUFFICES ASSUME Alive, NEW p \in Params PROVE Coherent(p)'
  BY <1>1 DEF CacheInv
<1>2. Coherent(p) /\ (Behind(p) => Behind(p)')
  BY DEF CacheInv, Behind, Storing, Told
<1>3. LastTold(p)'
  BY <1>2 DEF Coherent, LastTold, Storing, Told
<1>4. \A i \in 1..Len(read') : read'[i].param = p => read'[i].value = fw'[p] \/ Behind(p)'
  <2>1. CASE UNCHANGED read
    BY <1>2, <2>1 DEF Coherent
  <2>2. CASE read' = <<>>
    BY <2>2, EmptySeq
  <2> QED BY <2>1, <2>2
<1> QED BY <1>2, <1>3, <1>4 DEF Coherent

\* A step of a call.
LEMMA CallCache ==
    ASSUME HeardInv, CacheInv, Apart, cancels = 0, cancels' = 0,
           NEW u \in Users, CallGet(u) \/ CallSet(u) \/ CallWatch(u) \/ CallStep(u)
    PROVE  CacheInv'
<1> USE DEF HeardInv, HonestInv
<1>1. ASSUME NEW w \in Users, UNCHANGED <<values, fw, misc, loop, update, downlinkUp>>,
             UNCHANGED read \/ read' = <<>>,
             \A x \in Users \ {w} : pc'[x] = pc[x] /\ arg'[x] = arg[x] /\ applied'[x] = applied[x],
             Alive /\ pc[w] \in {"setWait", "setStore"} /\ applied[w] =>
                 /\ pc'[w] \in {"setWait", "setStore"} /\ applied'[w]
                 /\ arg'[w].param = arg[w].param
      PROVE  CacheInv'
  <2>1. Alive => \A p \in Params : Setting(p) => Setting(p)'
    BY <1>1 DEF Setting
  <2> QED BY <1>1, <2>1, CacheKept
<1>2. CASE CallGet(u) \/ CallSet(u) \/ CallWatch(u)
  BY <1>1, <1>2 DEF CallGet, CallSet, CallWatch, Call, Goto, BaseInv, TypeOK
<1>3. \A x \in Users \ {u} : CallStep(u) =>
          pc'[x] = pc[x] /\ arg'[x] = arg[x] /\ applied'[x] = applied[x]
  BY DEF CallStep, GetCached, GetRead, GetAnswered, SetSend, SetAnswered, SetStore, SetPanic,
     SetNotify, WatchPush, SendError, WaitError, Fails, Return, Goto, BaseInv, TypeOK
<1>4. CASE GetCached(u) \/ GetRead(u) \/ SetSend(u) \/ SetNotify(u) \/ WatchPush(u) \/ SendError(u)
  <2>1. /\ UNCHANGED <<values, fw, misc, loop, update, downlinkUp, read>>
        /\ pc[u] \notin {"setWait", "setStore"}
    BY <1>4 DEF GetCached, GetRead, SetSend, SetNotify, WatchPush, SendError, Fails
  <2> QED BY <1>1, <1>3, <1>4, <2>1 DEF CallStep
<1>5. CASE SetPanic(u)
  <2>1. ~Alive'
    BY <1>5 DEF SetPanic, Fails, Alive, BaseInv, TypeOK, PlaceInv
  <2> QED BY <2>1 DEF CacheInv
<1>6. CASE WaitError(u)
  <2>1. ~Alive'
    BY <1>6 DEF WaitError, Fails, Alive
  <2> QED BY <2>1 DEF CacheInv
<1>7. CASE SetAnswered(u)
  <2>1. /\ UNCHANGED <<values, fw, misc, loop, update, downlinkUp, read>>
        /\ pc[u] = "setWait" /\ Head(write) = write[1] /\ write # <<>>
    BY <1>7, SetReceived DEF SetAnswered
  <2>2. applied[u] => Echoed(u, Head(write))
    BY <2>1 DEF EchoInv, Echoed
  <2>3. applied[u] => pc'[u] \in {"setWait", "setStore"} /\ applied'[u] /\ arg'[u] = arg[u]
    BY <1>7, <2>1, <2>2 DEF SetAnswered, Goto, BaseInv, TypeOK
  <2> QED BY <1>1, <1>3, <1>7, <2>1, <2>3 DEF CallStep
<1>8. CASE GetAnswered(u)
  <2>1. /\ UNCHANGED <<fw, misc, loop, update, downlinkUp>> /\ pc[u] = "getWait"
        /\ read # <<>> /\ Head(read) = read[1] /\ 1 \in 1..Len(read) /\ read' = <<>>
    BY <1>8, TrafficReceived DEF GetAnswered, TrafficInv, Kinds, Queue
  <2>2. CASE UNCHANGED values
    BY <1>1, <1>3, <1>8, <2>1, <2>2 DEF CallStep, GetAnswered
  <2>3. CASE Head(read).param = arg[u].param /\ values' = Stored(arg[u].param, Head(read).value)
    <3> SUFFICES ASSUME Alive', NEW p \in Params PROVE Coherent(p)'
      BY DEF CacheInv
    <3>1. Alive /\ Coherent(p)
      BY <2>1 DEF Alive, CacheInv
    <3>2. \A q \in Params : Setting(q) => Setting(q)'
      BY <1>3, <1>8, <2>1 DEF Setting, CallStep
    <3>3. Behind(p) => Behind(p)'
      BY <2>1, <3>2 DEF Behind, Storing, Told
    <3>4. LastTold(p)'
      BY <2>1, <3>1 DEF Coherent, LastTold, Storing, Told
    <3>5. read[1] \in Readings /\ arg[u].param \in Params
      BY <2>1, QueueFacts DEF BaseInv, TypeOK
    <3>6. \A q \in DOMAIN values : values'[q] = IF q = arg[u].param THEN read[1].value ELSE values[q]
      <4>1. values' = Stored(arg[u].param, read[1].value) /\ read[1].value \in Values
        BY <2>1, <2>3, <3>5 DEF Readings
      <4> QED BY <3>5, <4>1, StoredType DEF BaseInv
    <3>7. DOMAIN values = Params
      BY <3>1 DEF Alive, BaseInv, PlaceInv
    <3>8. values'[p] \in {NoValue, fw'[p]} \/ Behind(p)'
      BY <2>1, <2>3, <3>1, <3>3, <3>6, <3>7 DEF Coherent
    <3> QED BY <2>1, <3>4, <3>8, EmptySeq DEF Coherent
  <2> QED BY <1>8, <2>2, <2>3 DEF GetAnswered, cacheVars
<1>9. CASE SetStore(u)
  <2> SUFFICES ASSUME Alive', NEW p \in Params PROVE Coherent(p)'
    BY DEF CacheInv
  <2>1. /\ UNCHANGED <<fw, misc, loop, update, downlinkUp, read, arg, applied>>
        /\ pc[u] = "setStore" /\ valuesLock = NoOne
        /\ values' = Stored(arg[u].param, arg[u].value)
    BY <1>9 DEF SetStore
  <2>2. Alive /\ Coherent(p)
    BY <2>1 DEF Alive, CacheInv
  <2>3. read' = <<>>
    BY <2>1, NoRead
  <2>4. fw[arg[u].param] = arg[u].value /\ arg[u].param \in Params /\ arg[u].value \in Values
    BY <2>1 DEF EchoInv, AppliedInv, BaseInv, TypeOK
  <2>5. DOMAIN values = Params
    BY <2>2 DEF Alive, BaseInv, PlaceInv
  <2>6. values'[p] = IF p = arg[u].param THEN arg[u].value ELSE values[p]
    BY <2>1, <2>4, <2>5, StoredType DEF BaseInv
  <2>7. \A w \in Users : pc[w] \in {"setWait", "setStore"} => w = u
    BY <2>1 DEF BaseInv, LockInv, InSet
  <2>8. p # arg[u].param => (Behind(p) => Behind(p)')
    BY <2>1, <2>7 DEF Behind, Setting, Storing, Told
  <2>9. values'[p] \in {NoValue, fw'[p]} \/ Behind(p)'
    BY <2>1, <2>2, <2>4, <2>6, <2>8 DEF Coherent
  <2>10. LastTold(p)'
    BY <2>1, <2>2 DEF Coherent, LastTold, Storing, Told
  <2> QED BY <2>3, <2>9, <2>10, EmptySeq DEF Coherent
<1> QED BY <1>2, <1>4, <1>5, <1>6, <1>7, <1>8, <1>9 DEF CallStep

\* The misc loop takes an update, and stores it.
LEMMA LoopCache ==
    ASSUME HeardInv, CacheInv, Apart, cancels = 0, LoopStep
    PROVE  CacheInv'
<1> USE DEF HeardInv, HonestInv
<1>1. CASE LoopRecvError \/ LoopClearValues \/ LoopClearWatchers
  <2>1. ~Alive'
    BY <1>1 DEF Alive, LoopRecvError, LoopClearValues, LoopClearWatchers
  <2> QED BY <2>1 DEF CacheInv
<1> SUFFICES ASSUME Alive', NEW p \in Params PROVE Coherent(p)'
  BY DEF CacheInv
<1>2. UNCHANGED <<pc, arg, applied, fw, read, downlinkUp>>
  BY DEF LoopStep, LoopRecv, LoopRecvError, LoopStore, LoopNotify, LoopClearValues, LoopClearWatchers
<1>3. Setting(p)' <=> Setting(p)
  BY <1>2 DEF Setting
<1>4. CASE LoopRecv
  <2>1. /\ misc # <<>> /\ Head(misc) = misc[1] /\ Len(misc) \in Nat \ {0} /\ misc' = Tail(misc)
        /\ Len(misc') = Len(misc) - 1 /\ \A i \in 1..Len(misc') : misc'[i] = misc[i + 1]
    BY <1>4, QueueFacts DEF BaseInv, TypeOK, LoopRecv
  <2>2. /\ loop = "recv" /\ loop' = "store" /\ update' = misc[1] /\ misc[1].kind = "update"
        /\ UNCHANGED values
    BY <1>4, <2>1 DEF LoopRecv, Alive
  <2>3. Alive /\ Coherent(p)
    BY <1>2, <2>2 DEF Alive, CacheInv
  <2>4. /\ 1 \in 1..Len(misc) /\ \A i \in 1..Len(misc') : i + 1 \in 1..Len(misc)
        /\ \A i \in 1..Len(misc) : i = 1 \/ (i - 1 \in 1..Len(misc') /\ misc'[i - 1] = misc[i])
        /\ \A i, j \in 1..Len(misc') : i > j <=> i + 1 > j + 1
    BY <2>1
  <2>5. Told(p) => Told(p)' \/ Storing(p)'
    BY <2>2, <2>4 DEF Told, Tells, Storing
  <2>6. Behind(p) => Behind(p)'
    BY <1>3, <2>2, <2>5 DEF Behind, Storing
  <2>7. \A i \in 1..Len(misc') :
          Tells(misc'[i], p) /\ (\A j \in 1..Len(misc') : j > i => ~Tells(misc'[j], p)) =>
              misc'[i].value = fw'[p]
    <3> SUFFICES ASSUME NEW i \in 1..Len(misc'), Tells(misc'[i], p),
                        \A j \in 1..Len(misc') : j > i => ~Tells(misc'[j], p)
                 PROVE  misc'[i].value = fw'[p]
      OBVIOUS
    <3>1. \A j \in 1..Len(misc) : j > i + 1 => ~Tells(misc[j], p)
      <4> SUFFICES ASSUME NEW j \in 1..Len(misc), j > i + 1 PROVE ~Tells(misc[j], p)
        OBVIOUS
      <4>1. j # 1 /\ j - 1 \in 1..Len(misc') /\ j - 1 > i
        BY <2>1, <2>4
      <4> QED BY <2>4, <4>1
    <3>2. i + 1 \in 1..Len(misc) /\ misc'[i] = misc[i + 1]
      BY <2>1, <2>4
    <3> QED BY <1>2, <2>3, <3>1, <3>2 DEF Coherent, LastTold
  <2>8. Storing(p)' /\ ~Told(p)' => update'.value = fw'[p]
    <3> SUFFICES ASSUME Storing(p)', ~Told(p)' PROVE misc[1].value = fw[p]
      BY <1>2, <2>2
    <3>1. Tells(misc[1], p) /\ \A j \in 1..Len(misc) : j > 1 => ~Tells(misc[j], p)
      BY <2>2, <2>4 DEF Storing, Tells, Told
    <3> QED BY <2>3, <2>4, <3>1 DEF Coherent, LastTold
  <2>9. LastTold(p)'
    BY <2>7, <2>8 DEF LastTold
  <2> QED BY <1>2, <2>2, <2>3, <2>6, <2>9 DEF Coherent
<1>5. CASE LoopStore
  <2>1. /\ valuesLock = NoOne /\ loop = "store" /\ loop' = "notify" /\ UNCHANGED <<misc, update>>
        /\ values' = Stored(update.param, update.value)
    BY <1>5 DEF LoopStore
  <2>2. Alive /\ Coherent(p)
    BY <1>2, <2>1 DEF Alive, CacheInv
  <2>3. read' = <<>>
    BY <1>2, <2>1, NoRead
  <2>4. update.param \in Params /\ update.value \in Values /\ DOMAIN values = Params
    BY <2>2 DEF Alive, BaseInv, TypeOK, PlaceInv, MiscPackets
  <2>5. values'[p] = IF p = update.param THEN update.value ELSE values[p]
    BY <2>1, <2>4, StoredType DEF BaseInv
  <2>6. Told(p) => Behind(p)'
    BY <2>1 DEF Told, Behind
  <2>7. values'[p] \in {NoValue, fw'[p]} \/ Behind(p)'
    <3>1. CASE p = update.param
      <4>1. ~Told(p) => values'[p] = fw[p]
        BY <2>1, <2>2, <2>5, <3>1 DEF Coherent, LastTold, Storing
      <4> QED BY <1>2, <2>6, <4>1
    <3>2. CASE p # update.param
      <4>1. Behind(p) => Behind(p)'
        BY <1>3, <2>1, <3>2 DEF Behind, Storing, Told
      <4> QED BY <1>2, <2>2, <2>5, <3>2, <4>1 DEF Coherent
    <3> QED BY <3>1, <3>2
  <2>8. LastTold(p)'
    BY <1>2, <2>1, <2>2 DEF Coherent, LastTold, Storing
  <2> QED BY <2>3, <2>7, <2>8, EmptySeq DEF Coherent
<1>6. CASE LoopNotify
  <2>1. loop = "notify" /\ loop' = "recv" /\ UNCHANGED <<values, misc>>
    BY <1>6 DEF LoopNotify
  <2>2. Alive /\ Coherent(p)
    BY <1>2, <2>1 DEF Alive, CacheInv
  <2>3. Behind(p) => Behind(p)'
    BY <1>3, <2>1 DEF Behind, Storing, Told
  <2>4. LastTold(p)'
    BY <1>2, <2>1, <2>2 DEF Coherent, LastTold, Storing
  <2> QED BY <1>2, <2>1, <2>2, <2>3, <2>4 DEF Coherent
<1> QED BY <1>1, <1>4, <1>5, <1>6 DEF LoopStep, CacheInv

\* The Crazyflie answers a request.
LEMMA RequestCache ==
    ASSUME HeardInv, CacheInv, Apart, cancels = 0, FwRequest
    PROVE  CacheInv'
<1> USE DEF HeardInv, HonestInv
<1> SUFFICES ASSUME Alive', NEW p \in Params PROVE Coherent(p)'
  BY DEF CacheInv
<1>1. /\ Head(uplink) \in Requests /\ Head(uplink) = uplink[1] /\ 1 \in 1..Len(uplink)
      /\ UNCHANGED <<pc, arg, values, loop, update, misc, downlinkUp>>
  BY QueueFacts DEF BaseInv, TypeOK, FwRequest, FwRead, FwSet, FwRefuse
<1> DEFINE r == Head(uplink)
<1>2. r.by \in Users /\ r.param \in Params /\ (FwRead(r) \/ FwSet(r) \/ FwRefuse(r))
  BY <1>1 DEF Requests, FwRequest
<1>3. r = uplink[1]
  BY <1>1
<1> HIDE DEF r
<1>4. Alive /\ Coherent(p)
  BY <1>1 DEF Alive, CacheInv
<1>5. Behind(p) => Behind(p)'
  <2>1. \A u \in Users : applied[u] => applied'[u]
    BY <1>2 DEF FwRead, FwSet, FwRefuse, BaseInv, TypeOK
  <2> QED BY <1>1, <2>1 DEF Behind, Setting, Storing, Told
<1>6. CASE FwRefuse(r)
  <2>1. UNCHANGED <<fw, read>>
    BY <1>6 DEF FwRefuse
  <2>2. LastTold(p)'
    BY <1>1, <1>4, <2>1 DEF Coherent, LastTold, Storing, Told
  <2> QED BY <1>1, <1>4, <1>5, <2>1, <2>2 DEF Coherent
<1>7. CASE FwRead(r)
  <2>1. read = <<>>
    BY <1>1, <1>3, <1>7 DEF FwRead, TrafficInv, Traffic, Kinds, Queue
  <2>2. UNCHANGED fw /\ read' = Append(<<>>, [param |-> r.param, value |-> fw[r.param]])
    BY <1>7, <2>1 DEF FwRead
  <2>3. Len(read') = 1 /\ read'[1].param = r.param /\ read'[1].value = fw[r.param]
    BY <2>2
  <2>4. LastTold(p)'
    BY <1>1, <1>4, <2>2 DEF Coherent, LastTold, Storing, Told
  <2> QED BY <1>1, <1>4, <1>5, <2>2, <2>3, <2>4 DEF Coherent
<1>8. CASE FwSet(r)
  <2>1. /\ pc[r.by] = "setWait" /\ r.param = arg[r.by].param
        /\ UNCHANGED read /\ applied'[r.by]
        /\ fw'[r.param] = r.value /\ \A q \in Params \ {r.param} : fw'[q] = fw[q]
    BY <1>1, <1>2, <1>3, <1>8 DEF FwSet, TrafficInv, Traffic, Kinds, WaitPc, BaseInv, TypeOK
  <2>2. CASE p = r.param
    <3>1. Behind(p)'
      BY <1>1, <1>2, <2>1, <2>2 DEF Behind, Setting
    <3>2. p \notin Changing
      BY <1>2, <2>1, <2>2 DEF BaseInv, PlaceInv, InSet, Apart
    <3>3. ~Told(p) /\ ~Storing(p)
      BY <3>2 DEF Told, Tells, Storing, BaseInv, PlaceInv
    <3>4. LastTold(p)'
      BY <1>1, <3>3 DEF LastTold, Told, Storing
    <3> QED BY <3>1, <3>4 DEF Coherent
  <2>3. CASE p # r.param
    <3>1. fw'[p] = fw[p]
      BY <2>1, <2>3
    <3>2. LastTold(p)'
      BY <1>1, <1>4, <3>1 DEF Coherent, LastTold, Storing, Told
    <3> QED BY <1>1, <1>4, <1>5, <2>1, <3>1, <3>2 DEF Coherent
  <2> QED BY <2>2, <2>3
<1> QED BY <1>2, <1>6, <1>7, <1>8

\* The Crazyflie sends on the misc channel.
LEMMA MiscCache ==
    ASSUME HeardInv, CacheInv, cancels = 0, NEW k \in MiscPackets, misc' = Append(misc, k),
           UNCHANGED <<callVars, values, loop, update, read, downlinkUp, applied, cancels>>,
           \A p \in Params : fw'[p] = IF Tells(k, p) THEN k.value ELSE fw[p]
    PROVE  CacheInv'
<1> SUFFICES ASSUME Alive', NEW p \in Params PROVE Coherent(p)'
  BY DEF CacheInv
<1>1. /\ Len(misc) \in Nat /\ Len(misc') = Len(misc) + 1 /\ misc'[Len(misc) + 1] = k
      /\ \A i \in 1..Len(misc) : misc'[i] = misc[i]
  BY AppendProperties, LenProperties DEF HeardInv, HonestInv, BaseInv, TypeOK
<1>2. /\ \A i \in 1..Len(misc') : i \in 1..Len(misc) \/ i = Len(misc) + 1
      /\ \A i \in 1..Len(misc) : i \in 1..Len(misc') /\ Len(misc) + 1 > i
      /\ Len(misc) + 1 \in 1..Len(misc')
  BY <1>1
<1>3. Alive /\ Coherent(p)
  BY DEF Alive, CacheInv
<1>4. CASE Tells(k, p)
  <2>1. Behind(p)' /\ Told(p)'
    BY <1>1, <1>2, <1>4 DEF Behind, Told
  <2>2. LastTold(p)'
    BY <1>1, <1>2, <1>4, <2>1 DEF LastTold
  <2> QED BY <2>1, <2>2 DEF Coherent
<1>5. CASE ~Tells(k, p)
  <2>1. fw'[p] = fw[p]
    BY <1>5
  <2>2. Told(p) <=> Told(p)'
    BY <1>1, <1>2, <1>5 DEF Told
  <2>3. Behind(p) => Behind(p)'
    BY <2>2 DEF Behind, Setting, Storing
  <2>4. LastTold(p)'
    <3>1. \A i \in 1..Len(misc') :
            Tells(misc'[i], p) /\ (\A j \in 1..Len(misc') : j > i => ~Tells(misc'[j], p)) =>
                misc'[i].value = fw[p]
      BY <1>1, <1>2, <1>3, <1>5 DEF Coherent, LastTold
    <3>2. Storing(p)' /\ ~Told(p)' => update'.value = fw'[p]
      BY <1>3, <2>1, <2>2 DEF Coherent, LastTold, Storing
    <3> QED BY <2>1, <3>1, <3>2 DEF LastTold
  <2> QED BY <1>3, <2>1, <2>3, <2>4 DEF Coherent
<1> QED BY <1>4, <1>5

LEMMA InitCache == Init => CacheInv
  BY EmptySeq DEF Init, CacheInv, Coherent, LastTold, Told, Storing, Tells

LEMMA StepCache == ASSUME HeardInv, CacheInv, Apart, [Next]_vars PROVE CacheInv'
<1> SUFFICES ASSUME cancels' = 0 PROVE CacheInv'
  BY DEF CacheInv, Alive
<1>1. cancels = 0 /\ \A u \in Users : ~Cancel(u)
  BY NoneDropped DEF HeardInv, HonestInv
<1>2. CASE UNCHANGED vars
  BY <1>1, <1>2, CacheKept DEF vars, Setting
<1>3. ASSUME NEW u \in Users, DropStream(u) PROVE CacheInv'
  BY <1>1, <1>3, CacheKept DEF DropStream, Setting
<1>4. CASE FwMalformed
  <2> DEFINE k == [NoUpdate EXCEPT !.kind = "malformed"]
  <2>1. k \in MiscPackets /\ k.kind = "malformed"
    BY NoArgType DEF MiscPackets
  <2> HIDE DEF k
  <2>2. misc' = Append(misc, k)
    BY <1>4 DEF FwMalformed, k
  <2> QED BY <1>1, <1>4, <2>1, <2>2, MiscCache DEF FwMalformed, Tells
<1>5. ASSUME NEW p \in Changing, NEW v \in Values, FwChange(p, v) PROVE CacheInv'
  <2> DEFINE k == [kind |-> "update", param |-> p, value |-> v]
  <2>1. k \in MiscPackets /\ k.param = p /\ k.kind = "update" /\ k.value = v
    BY ParamAssumption DEF MiscPackets
  <2> HIDE DEF k
  <2>2. misc' = Append(misc, k)
    BY <1>5 DEF FwChange, k
  <2>3. \A q \in Params : fw'[q] = IF Tells(k, q) THEN k.value ELSE fw[q]
    BY <1>5, <2>1 DEF FwChange, Tells, HeardInv, HonestInv, BaseInv, TypeOK
  <2> QED BY <1>1, <1>5, <2>1, <2>2, <2>3, MiscCache DEF FwChange
<1>6. CASE DownlinkEnds
  BY <1>6 DEF DownlinkEnds, CacheInv, Alive
<1>7. CASE UplinkEnds
  BY <1>1, <1>7, CacheKept DEF UplinkEnds, Setting
<1> QED BY <1>1, <1>2, <1>3, <1>4, <1>5, <1>6, <1>7, CallCache, LoopCache, RequestCache DEF Next

(***************************************************************************)
(* Where a parameter is changed by the program or by the Crazyflie but not *)
(* by both, the cache agrees with the Crazyflie when nothing is in flight. *)
(***************************************************************************)
THEOREM CacheAgrees == Apart => (Spec => []CacheCoherent)
<1> SUFFICES ASSUME Apart PROVE Spec => []CacheCoherent
  OBVIOUS
<1> DEFINE Inv == HeardInv /\ CacheInv
<1>1. Init => Inv
  BY InitBase, InitTraffic, InitEcho, InitApplied, InitCache DEF HeardInv, HonestInv
<1>2. Inv /\ [Next]_vars => Inv'
  BY StepHonest, StepApplied, StepCache DEF HeardInv, Apart
<1>3. Inv => CacheCoherent
  <2> SUFFICES ASSUME Inv, Quiet, cancels = 0, NEW p \in DOMAIN values
               PROVE  values[p] \in {NoValue, fw[p]}
    BY DEF CacheCoherent
  <2>1. p \in Params /\ Coherent(p)
    BY DEF Quiet, CacheInv, Alive, HeardInv, HonestInv, BaseInv, PlaceInv
  <2>2. ~Behind(p)
    BY EmptySeq DEF Quiet, Behind, Setting, Storing, Told
  <2> QED BY <2>1, <2>2 DEF Coherent
<1> HIDE DEF Inv
<1> QED BY <1>1, <1>2, <1>3, PTL DEF Spec

-----------------------------------------------------------------------------
(* The watchers *)

\* A change of p is about to be told.
Notifying(p) ==
    \/ \E u \in Users : pc[u] = "setNotify" /\ arg[u].param = p
    \/ loop = "notify" /\ update.param = p

\* What is about to be told is what the cache holds, and what a stream was told
\* is too, but for the change it is about to be told.
WatchInv == cancels = 0 =>
    /\ \A u \in watchers, p \in DOMAIN values :
          heard[u][p] \in {NoValue, values[p]} \/ Notifying(p)
    /\ \A u \in Users : pc[u] = "setNotify" /\ arg[u].param \in DOMAIN values =>
                            values[arg[u].param] = arg[u].value
    /\ loop = "notify" /\ update.param \in DOMAIN values => values[update.param] = update.value

\* A step that stores and tells nothing.
LEMMA WatchKept ==
    ASSUME WatchInv, cancels = 0, UNCHANGED <<watchers, heard>> \/ watchers' = {},
           UNCHANGED values \/ values' = <<>>,
           \/ UNCHANGED <<loop, update>>
           \/ loop # "notify" /\ loop' # "notify",
           \A u \in Users : \/ pc'[u] = pc[u] /\ arg'[u] = arg[u]
                            \/ pc[u] # "setNotify" /\ pc'[u] # "setNotify"
    PROVE  WatchInv'
  BY DEF WatchInv, Notifying

LEMMA InitWatch == Init => WatchInv
  BY DEF Init, WatchInv

LEMMA StepWatch ==
    ASSUME BaseInv, WatchInv, Settable \intersect Changing = {}, [Next]_vars
    PROVE  WatchInv'
<1> SUFFICES ASSUME cancels' = 0 PROVE WatchInv'
  BY DEF WatchInv
<1>1. cancels = 0 /\ \A u \in Users : ~Cancel(u)
  BY NoneDropped
<1>2. CASE UNCHANGED vars
  BY <1>1, <1>2, WatchKept DEF vars
<1>3. ASSUME NEW u \in Users, CallGet(u) \/ CallSet(u) \/ CallWatch(u) PROVE WatchInv'
  BY <1>1, <1>3, WatchKept DEF CallGet, CallSet, CallWatch, Call, Goto, BaseInv, TypeOK
<1>4. ASSUME NEW u \in Users, \/ GetCached(u) \/ GetRead(u) \/ SetSend(u) \/ SetAnswered(u)
                              \/ SetPanic(u) \/ SendError(u) \/ WaitError(u)
      PROVE  WatchInv'
  <2>1. UNCHANGED <<watchers, heard, values, loop, update>> /\ pc[u] # "setNotify"
        /\ (pc'[u] # "setNotify" /\ \A x \in Users \ {u} : pc'[x] = pc[x] /\ arg'[x] = arg[x])
    BY <1>4 DEF GetCached, GetRead, SetSend, SetAnswered, SetPanic, SendError, WaitError, Fails,
       Return, Goto, BaseInv, TypeOK
  <2> QED BY <1>1, <2>1, WatchKept
<1>5. ASSUME NEW u \in Users, GetAnswered(u) PROVE WatchInv'
  <2>1. /\ UNCHANGED <<watchers, heard, loop, update>> /\ pc[u] = "getWait" /\ pc'[u] # "setNotify"
        /\ \A x \in Users \ {u} : pc'[x] = pc[x] /\ arg'[x] = arg[x]
    BY <1>5 DEF GetAnswered, Return, Goto, BaseInv, TypeOK
  <2>2. CASE UNCHANGED values
    BY <1>1, <2>1, <2>2, WatchKept
  <2>3. CASE Head(read).param = arg[u].param /\ values' = Stored(arg[u].param, Head(read).value)
    <3>1. Head(read) \in Readings /\ arg[u].param \in Params
      BY <1>5, QueueFacts DEF GetAnswered, BaseInv, TypeOK
    <3>2. /\ DOMAIN values' = DOMAIN values
          /\ \A q \in DOMAIN values :
                values'[q] = IF q = arg[u].param THEN Head(read).value ELSE values[q]
      BY <1>5, <2>3, <3>1, StoredType DEF GetAnswered, BaseInv, Readings
    <3>3. arg[u].param \in DOMAIN values => values[arg[u].param] = NoValue
      BY <2>1 DEF BaseInv, PlaceInv
    <3>4. arg[u].param \in DOMAIN values => ~Notifying(arg[u].param)
      <4>1. update.value \in Values /\ \A w \in Users : arg[w].value \in Values
        BY DEF BaseInv, TypeOK, MiscPackets
      <4> QED BY <1>1, <3>3, <4>1, ValueAssumption DEF WatchInv, Notifying
    <3>5. \A p : Notifying(p) <=> Notifying(p)'
      BY <2>1 DEF Notifying
    <3>6. \A w \in watchers', p \in DOMAIN values' :
              heard'[w][p] \in {NoValue, values'[p]} \/ Notifying(p)'
      BY <1>1, <2>1, <3>2, <3>3, <3>4, <3>5 DEF WatchInv
    <3>7. \A w \in Users : pc'[w] = "setNotify" /\ arg'[w].param \in DOMAIN values' =>
              values'[arg'[w].param] = arg'[w].value
      BY <1>1, <2>1, <3>2, <3>4 DEF WatchInv, Notifying
    <3>8. loop' = "notify" /\ update'.param \in DOMAIN values' =>
              values'[update'.param] = update'.value
      BY <1>1, <2>1, <3>2, <3>4 DEF WatchInv, Notifying
    <3> QED BY <3>6, <3>7, <3>8 DEF WatchInv
  <2> QED BY <1>5, <2>2, <2>3 DEF GetAnswered, cacheVars
<1>6. ASSUME NEW u \in Users, SetStore(u) PROVE WatchInv'
  <2>1. /\ UNCHANGED <<watchers, heard, loop, update, arg>> /\ pc[u] = "setStore"
        /\ pc'[u] = "setNotify" /\ \A x \in Users \ {u} : pc'[x] = pc[x]
    BY <1>6 DEF SetStore, Goto, BaseInv, TypeOK
  <2>2. /\ DOMAIN values' = DOMAIN values
        /\ \A q \in DOMAIN values : values'[q] = IF q = arg[u].param THEN arg[u].value ELSE values[q]
    BY <1>6, StoredType DEF SetStore, BaseInv, TypeOK
  <2>3. \A x \in Users \ {u} : pc[x] # "setNotify"
    BY <2>1 DEF BaseInv, LockInv, InSet
  <2>4. loop = "notify" => update.param # arg[u].param
    BY <2>1 DEF BaseInv, PlaceInv, InSet
  <2>5. \A w \in watchers', p \in DOMAIN values' :
            heard'[w][p] \in {NoValue, values'[p]} \/ Notifying(p)'
    <3>1. Notifying(arg[u].param)' /\ \A p : Notifying(p) => Notifying(p)'
      BY <2>1, <2>3 DEF Notifying
    <3> QED BY <1>1, <2>1, <2>2, <3>1 DEF WatchInv
  <2> QED BY <1>1, <2>1, <2>2, <2>3, <2>4, <2>5 DEF WatchInv
<1>7. ASSUME NEW u \in Users, SetNotify(u) PROVE WatchInv'
  <2>1. /\ UNCHANGED <<values, loop, update>> /\ pc[u] = "setNotify" /\ pc'[u] = "idle"
        /\ \A x \in Users \ {u} : pc'[x] = pc[x] /\ arg'[x] = arg[x]
    BY <1>7 DEF SetNotify, Return, Goto, BaseInv, TypeOK
  <2>2. UNCHANGED watchers /\ \A w \in Users, q \in Params :
            heard'[w][q] = IF w \in watchers /\ q = arg[u].param THEN arg[u].value ELSE heard[w][q]
    BY <1>7, NotifyType DEF SetNotify, BaseInv, TypeOK
  <2>3. \A p : p # arg[u].param => (Notifying(p) => Notifying(p)')
    BY <2>1 DEF Notifying
  <2>4. DOMAIN values \subseteq Params /\ watchers \subseteq Users
    BY DEF BaseInv, TypeOK
  <2>5. \A w \in watchers', p \in DOMAIN values' :
            heard'[w][p] \in {NoValue, values'[p]} \/ Notifying(p)'
    BY <1>1, <2>1, <2>2, <2>3, <2>4 DEF WatchInv
  <2> QED BY <1>1, <2>1, <2>5 DEF WatchInv
<1>8. ASSUME NEW u \in Users, WatchPush(u) PROVE WatchInv'
  <2>1. /\ UNCHANGED <<values, loop, update>> /\ pc[u] = "watchPush" /\ pc'[u] = "idle"
        /\ \A x \in Users \ {u} : pc'[x] = pc[x] /\ arg'[x] = arg[x]
    BY <1>8 DEF WatchPush, Return, Goto, BaseInv, TypeOK
  <2>2. /\ watchers' = watchers \union {u} /\ \A w \in Users \ {u} : heard'[w] = heard[w]
        /\ \A p \in DOMAIN values : heard'[u][p] = values[p]
    BY <1>8 DEF WatchPush, BaseInv, TypeOK
  <2>3. \A p : Notifying(p) => Notifying(p)'
    BY <2>1 DEF Notifying
  <2>4. watchers \subseteq Users
    BY DEF BaseInv, TypeOK
  <2> QED BY <1>1, <2>1, <2>2, <2>3, <2>4 DEF WatchInv
<1>9. ASSUME NEW u \in Users, DropStream(u) PROVE WatchInv'
  <2>1. UNCHANGED <<values, loop, update, pc, arg>> /\ watchers' = watchers \ {u}
        /\ \A w \in Users \ {u} : heard'[w] = heard[w]
    BY <1>9 DEF DropStream, BaseInv, TypeOK
  <2>2. watchers \subseteq Users
    BY DEF BaseInv, TypeOK
  <2> QED BY <1>1, <2>1, <2>2 DEF WatchInv, Notifying
<1>10. CASE LoopRecv \/ LoopRecvError \/ LoopClearValues \/ LoopClearWatchers
  BY <1>1, <1>10, WatchKept DEF LoopRecv, LoopRecvError, LoopClearValues, LoopClearWatchers
<1>11. CASE LoopStore
  <2>1. /\ UNCHANGED <<watchers, heard, update, pc, arg>> /\ loop = "store" /\ loop' = "notify"
    BY <1>11 DEF LoopStore
  <2>2. update.param \in Params /\ update.value \in Values /\ update.param \in Changing
    BY <2>1 DEF BaseInv, TypeOK, MiscPackets, PlaceInv
  <2>3. /\ DOMAIN values' = DOMAIN values
        /\ \A q \in DOMAIN values : values'[q] = IF q = update.param THEN update.value ELSE values[q]
    BY <1>11, <2>2, StoredType DEF LoopStore, BaseInv
  <2>4. \A u \in Users : pc[u] = "setNotify" => arg[u].param # update.param
    BY <2>2 DEF BaseInv, PlaceInv, InSet
  <2>5. Notifying(update.param)' /\ \A p : Notifying(p) => Notifying(p)'
    BY <2>1 DEF Notifying
  <2> QED BY <1>1, <2>1, <2>3, <2>4, <2>5 DEF WatchInv
<1>12. CASE LoopNotify
  <2>1. /\ UNCHANGED <<values, pc, arg>> /\ loop = "notify" /\ loop' = "recv"
    BY <1>12 DEF LoopNotify
  <2>2. update.param \in Params /\ update.value \in Values
    BY DEF BaseInv, TypeOK, MiscPackets
  <2>3. UNCHANGED watchers /\ \A w \in Users, q \in Params :
            heard'[w][q] = IF w \in watchers /\ q = update.param THEN update.value ELSE heard[w][q]
    BY <1>12, <2>2, NotifyType DEF LoopNotify
  <2>4. \A p : p # update.param => (Notifying(p) => Notifying(p)')
    BY <2>1 DEF Notifying
  <2>5. DOMAIN values \subseteq Params /\ watchers \subseteq Users
    BY DEF BaseInv, TypeOK
  <2> QED BY <1>1, <2>1, <2>3, <2>4, <2>5 DEF WatchInv
<1>13. CASE FwRequest \/ FwMalformed \/ DownlinkEnds \/ UplinkEnds
              \/ \E p \in Changing, v \in Values : FwChange(p, v)
  <2>1. UNCHANGED <<values, watchers, heard, loop, update, pc, arg>>
    BY <1>13 DEF FwRequest, FwMalformed, DownlinkEnds, UplinkEnds, FwChange
  <2> QED BY <1>1, <2>1, WatchKept
<1> QED BY <1>1, <1>2, <1>3, <1>4, <1>5, <1>6, <1>7, <1>8, <1>9, <1>10, <1>11, <1>12, <1>13
        DEF Next, CallStep, LoopStep

(***************************************************************************)
(* Where a parameter is changed by the program or by the Crazyflie but not *)
(* by both, the last thing a stream was told of it is what the cache holds *)
(* when nothing is in flight: a set keeps write_downlink until it has told *)
(* the watchers, so that two sets tell in the order they store.            *)
(***************************************************************************)
THEOREM WatchersTold == Settable \intersect Changing = {} => (Spec => []WatchersAgree)
<1> SUFFICES ASSUME Settable \intersect Changing = {} PROVE Spec => []WatchersAgree
  OBVIOUS
<1> DEFINE Inv == BaseInv /\ WatchInv
<1>1. Init => Inv
  BY InitBase, InitWatch
<1>2. Inv /\ [Next]_vars => Inv'
  BY StepBase, StepWatch
<1>3. Inv => WatchersAgree
  BY DEF WatchInv, WatchersAgree, Quiet, Notifying
<1> HIDE DEF Inv
<1> QED BY <1>1, <1>2, <1>3, PTL DEF Spec
=============================================================================
