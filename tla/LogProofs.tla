------------------------------ MODULE LogProofs ------------------------------
(***************************************************************************)
(* What Log guarantees for any number of tasks and of identifiers, any     *)
(* capacity of the Crazyflie and any bounds, with dropped calls and a lost *)
(* connection: the types; a block identifier is never given out twice; the *)
(* block of an object stays in the Crazyflie and none is left behind; and  *)
(* both sides agree on the variables of a block.                           *)
(***************************************************************************)
EXTENDS Log, SequenceTheorems, QueueProofs, TLAPS

\* Next, one named alternative for each action.
LEMMA NextCases ==
    ASSUME Next
    PROVE  \/ \E t \in Tasks :
                 \/ CreateBlock(t) \/ LockActive(t) \/ Scan(t) \/ SendDelete(t)
                 \/ DeleteAnswered(t) \/ CleanupDone(t) \/ TakeId(t) \/ NoIdLeft(t)
                 \/ SendCreate(t) \/ CreateAnswered(t) \/ Insert(t)
           \/ \E t \in Tasks :
                 \/ SendOp(t) \/ OpAnswered(t) \/ SendError(t) \/ Discard(t)
                 \/ WaitFails(t) \/ NextSample(t) \/ NextError(t) \/ DropBlock(t)
                 \/ Cancel(t)
           \/ \E t \in Tasks, o \in {"append", "start", "stop"} : CallOp(t, o)
           \/ Dispatch \/ DispatchEnd
           \/ FwCommand \/ (\E i \in Ids : FwSample(i)) \/ ConnectionEnds
  BY DEF Next, CallStep, CreateStep

\* An identifier is a number, which NoId is not, and there is at least one.
LEMMA IdFacts == Ids \subseteq Nat /\ NoId \notin Ids /\ 0 \in Ids
  BY IdAssumption DEF Ids

-----------------------------------------------------------------------------
(* Types, in groups that most actions change one of. *)

CallTypes ==
    /\ pc \in [Tasks -> Pcs]
    /\ id \in [Tasks -> Ids \union {NoId}]
    /\ op \in [Tasks -> {"append", "start", "stop"}]
    /\ variables \in [Tasks -> Nat]
    /\ streaming \in [Tasks -> BOOLEAN]
    /\ scan \in [Tasks -> SUBSET Ids]
    /\ result \in [Tasks -> {"ok", "disconnected", "error", "noId"}]

TableTypes ==
    /\ nextId \in Ids
    /\ active \in SUBSET Ids
    /\ activeLock \in Tasks \union {NoTask}
    /\ controlLock \in Tasks \union {NoTask}

WireTypes ==
    /\ uplink \in Seq(Requests)
    /\ control \in Seq(Answers)
    /\ connected \in BOOLEAN

DataTypes ==
    /\ fw \in [Ids -> {"absent", "idle", "started"}]
    /\ fwVars \in [Ids -> Nat]
    /\ data \in Seq(Samples)
    /\ channels \in SUBSET Ids
    /\ queue \in [Ids -> Seq(Nat)]
    /\ dispatcher \in {"running", "ended"}
    /\ samples \in Nat

BoundTypes == calls \in [Tasks -> Nat] /\ cancels \in Nat

LEMMA TypeGroups ==
    /\ TypeOK <=> CallTypes /\ TableTypes /\ WireTypes /\ DataTypes /\ BoundTypes
    /\ TypeOK' <=> CallTypes' /\ TableTypes' /\ WireTypes' /\ DataTypes' /\ BoundTypes'
  BY DEF TypeOK, CallTypes, TableTypes, WireTypes, DataTypes, BoundTypes

\* A task past takeId, or in a call on its block, has an identifier.
Owners == {"lockCreate", "waitCreate", "insert", "lockOp", "waitOp"}
OwnerInv == \A t \in Tasks : pc[t] \in Owners => id[t] # NoId

LEMMA InitTypes == Init => TypeOK /\ OwnerInv
<1> SUFFICES ASSUME Init PROVE TypeOK /\ OwnerInv
  OBVIOUS
<1>1. CallTypes
  BY DEF Init, CallTypes, Pcs
<1>2. TableTypes
  BY IdFacts DEF Init, TableTypes
<1>3. WireTypes /\ DataTypes /\ BoundTypes
  BY DEF Init, WireTypes, DataTypes, BoundTypes
<1>4. OwnerInv
  BY DEF Init, OwnerInv, Owners
<1> QED BY <1>1, <1>2, <1>3, <1>4, TypeGroups

\* Groups that a step leaves alone keep their types.
LEMMA Unchanged ==
    ASSUME TypeOK
    PROVE  /\ UNCHANGED taskVars => CallTypes'
           /\ UNCHANGED tableVars => TableTypes'
           /\ UNCHANGED wireVars => WireTypes'
           /\ UNCHANGED <<fwVarsAll, dataVars>> => DataTypes'
           /\ UNCHANGED boundVars => BoundTypes'
  BY TypeGroups DEF CallTypes, TableTypes, WireTypes, DataTypes, BoundTypes,
     taskVars, tableVars, wireVars, fwVarsAll, dataVars, boundVars

\* How a failing call leaves the task and the tables.
LEMMA FailsTypes ==
    ASSUME TypeOK, OwnerInv, NEW t \in Tasks,
           NEW r \in {"ok", "disconnected", "error", "noId"}, Fails(t, r)
    PROVE  CallTypes' /\ TableTypes' /\ OwnerInv'
<1> USE DEF Fails, Return, Goto, TypeOK
<1>1. /\ pc' \in [Tasks -> Pcs]
      /\ result' \in [Tasks -> {"ok", "disconnected", "error", "noId"}]
      /\ scan' \in [Tasks -> SUBSET Ids] /\ op' = op
  BY DEF Pcs
<1>2. /\ id' \in [Tasks -> Ids \union {NoId}]
      /\ variables' \in [Tasks -> Nat]
      /\ streaming' \in [Tasks -> BOOLEAN]
      /\ \A s \in Tasks \ {t} : id'[s] = id[s]
  <2>1. CASE Owning(t)
    <3>1. Forget(t)
      BY <2>1
    <3>2. /\ id \in [Tasks -> Ids \union {NoId}]
          /\ variables \in [Tasks -> Nat] /\ streaming \in [Tasks -> BOOLEAN]
      OBVIOUS
    <3> QED BY ONLY <3>1, <3>2, t \in Tasks DEF Forget
  <2>2. CASE ~Owning(t)
    BY <2>2
  <2> QED BY <2>1, <2>2
<1>3. TableTypes'
  BY DEF TableTypes, Unlock, Unlocked
<1>4. OwnerInv'
  BY <1>2 DEF OwnerInv, Owners
<1> QED BY <1>1, <1>2, <1>3, <1>4 DEF CallTypes

\* A command goes into the uplink queue, or nowhere.
LEMMA SendTypes ==
    ASSUME TypeOK, NEW i \in Ids, NEW c \in Commands, SendOk(c, i),
           control' = control, connected' = connected
    PROVE  WireTypes'
<1>1. [cmd |-> c, id |-> i] \in Requests
  BY DEF Requests
<1> QED BY <1>1 DEF SendOk, WireTypes, TypeOK

\* Taking an answer leaves the rest.
LEMMA ReceiveTypes ==
    ASSUME TypeOK, control # <<>>
    PROVE  Head(control) \in Answers /\ Tail(control) \in Seq(Answers)
  BY DEF TypeOK

LEMMA CreateTypes ==
    ASSUME TypeOK, OwnerInv, NEW t \in Tasks,
           \/ CreateBlock(t) \/ LockActive(t) \/ Scan(t) \/ SendDelete(t)
           \/ DeleteAnswered(t) \/ CleanupDone(t) \/ TakeId(t) \/ NoIdLeft(t)
           \/ SendCreate(t) \/ CreateAnswered(t) \/ Insert(t)
    PROVE  TypeOK' /\ OwnerInv'
<1> USE DEF TypeOK, taskVars, tableVars, wireVars, fwVarsAll, dataVars, boundVars,
            Goto, Return
<1> USE TypeGroups
<1>1. CASE CreateBlock(t)
  BY <1>1 DEF CreateBlock, Called, Pcs, OwnerInv, Owners
<1>2. CASE LockActive(t)
  BY <1>2 DEF LockActive, Pcs, OwnerInv, Owners
<1>3. CASE Scan(t)
  <2>1. PICK i \in scan[t] :
          \/ Alive(i) /\ scan' = [scan EXCEPT ![t] = @ \ {i}] /\ UNCHANGED pc
          \/ ~Alive(i) /\ Goto(t, "lockDelete") /\ UNCHANGED scan
    BY <1>3 DEF Scan
  <2>2. pc' \in [Tasks -> Pcs] /\ scan' \in [Tasks -> SUBSET Ids]
    <3>1. pc \in [Tasks -> Pcs] /\ scan \in [Tasks -> SUBSET Ids]
      OBVIOUS
    <3>2. CASE Alive(i) /\ scan' = [scan EXCEPT ![t] = @ \ {i}] /\ UNCHANGED pc
      BY ONLY <3>1, <3>2
    <3>3. CASE ~Alive(i) /\ pc' = [pc EXCEPT ![t] = "lockDelete"] /\ UNCHANGED scan
      BY ONLY <3>1, <3>3 DEF Pcs
    <3> QED BY <2>1, <3>2, <3>3
  <2>3. OwnerInv'
    <3>1. pc \in [Tasks -> Pcs] /\ id' = id
      BY <1>3 DEF Scan
    <3>2. pc' = pc \/ pc' = [pc EXCEPT ![t] = "lockDelete"]
      BY <2>1
    <3> QED BY ONLY <3>1, <3>2, OwnerInv DEF OwnerInv, Owners
  <2>4. CallTypes'
    BY <1>3, <2>2 DEF Scan, CallTypes
  <2> QED BY <1>3, <2>3, <2>4, Unchanged DEF Scan
<1>4. CASE SendDelete(t)
  <2>1. PICK i \in scan[t] : SendOk("delete", i) /\ TableKept(i)
    BY <1>4 DEF SendDelete
  <2>2. WireTypes'
    BY <1>4, <2>1, SendTypes DEF SendDelete, Commands
  <2>3. CallTypes' /\ TableTypes' /\ OwnerInv'
    BY <1>4, <2>1 DEF SendDelete, TableKept, CallTypes, TableTypes, Pcs, OwnerInv, Owners
  <2> QED BY <1>4, <2>2, <2>3, Unchanged DEF SendDelete
<1>5. CASE DeleteAnswered(t)
  <2>1. WireTypes'
    BY <1>5, ReceiveTypes DEF DeleteAnswered, Received, WireTypes
  <2>2. CallTypes' /\ TableTypes' /\ OwnerInv'
    <3>1. CASE Fails(t, "error")
      BY <3>1, FailsTypes
    <3>2. CASE ~Fails(t, "error")
      <4>1. /\ active' = active \ {Head(control).id}
            /\ scan' = [scan EXCEPT ![t] = @ \ {Head(control).id}]
            /\ controlLock' = NoTask
            /\ pc' = [pc EXCEPT ![t] = "scan"]
            /\ UNCHANGED <<id, op, variables, streaming, result, nextId, activeLock>>
        BY <1>5, <3>2 DEF DeleteAnswered
      <4>2. CallTypes'
        BY <4>1 DEF CallTypes, Pcs
      <4>3. TableTypes' /\ OwnerInv'
        BY <4>1 DEF TableTypes, OwnerInv, Owners
      <4> QED BY <4>2, <4>3
    <3> QED BY <3>1, <3>2
  <2> QED BY <1>5, <2>1, <2>2, Unchanged DEF DeleteAnswered
<1>6. CASE CleanupDone(t)
  BY <1>6 DEF CleanupDone, DropGuard, Pcs, OwnerInv, Owners
<1>7. CASE TakeId(t)
  <2>1. nextId + 1 \in Ids /\ nextId # NoId
    <3>1. nextId \in 0..(IdSpace - 1) /\ nextId # IdSpace - 1
      BY <1>7 DEF TakeId, IdsUsedUp, Ids
    <3>2. nextId + 1 \in Ids
      BY ONLY <3>1, IdAssumption DEF Ids
    <3> QED BY <3>2, IdFacts
  <2> QED BY <1>7, <2>1 DEF TakeId, Increment, Pcs, OwnerInv, Owners
<1>8. CASE NoIdLeft(t)
  BY <1>8, FailsTypes, Unchanged DEF NoIdLeft
<1>9. CASE SendCreate(t)
  <2>1. id[t] \in Ids
    BY <1>9 DEF SendCreate, OwnerInv, Owners
  <2>2. WireTypes'
    BY <1>9, <2>1, SendTypes DEF SendCreate, Commands
  <2>3. CallTypes' /\ TableTypes' /\ OwnerInv'
    BY <1>9 DEF SendCreate, CallTypes, TableTypes, Pcs, OwnerInv, Owners
  <2> QED BY <1>9, <2>2, <2>3, Unchanged DEF SendCreate
<1>10. CASE CreateAnswered(t)
  <2>1. WireTypes'
    BY <1>10, ReceiveTypes DEF CreateAnswered, Received, WireTypes
  <2>2. id[t] \in Ids
    BY <1>10 DEF CreateAnswered, OwnerInv, Owners
  <2>3. CASE Fails(t, "error") /\ UNCHANGED channels
    BY <1>10, <2>1, <2>3, FailsTypes, Unchanged DEF CreateAnswered
  <2>4. CASE ~(Fails(t, "error") /\ UNCHANGED channels)
    <3>1. CallTypes' /\ TableTypes' /\ OwnerInv'
      BY <1>10, <2>4 DEF CreateAnswered, CallTypes, TableTypes, Pcs, OwnerInv, Owners
    <3>2. DataTypes' /\ BoundTypes'
      BY <1>10, <2>2, <2>4 DEF CreateAnswered, DataTypes, BoundTypes
    <3> QED BY <2>1, <3>1, <3>2
  <2> QED BY <2>3, <2>4
<1>11. CASE Insert(t)
  <2>1. id[t] \in Ids
    BY <1>11 DEF Insert, OwnerInv, Owners
  <2> QED BY <1>11, <2>1 DEF Insert, Pcs, OwnerInv, Owners
<1> QED BY <1>1, <1>2, <1>3, <1>4, <1>5, <1>6, <1>7, <1>8, <1>9, <1>10, <1>11

LEMMA CallTypesKept ==
    ASSUME TypeOK, OwnerInv, NEW t \in Tasks,
           \/ SendOp(t) \/ OpAnswered(t) \/ SendError(t) \/ Discard(t)
           \/ WaitFails(t) \/ NextSample(t) \/ NextError(t) \/ DropBlock(t)
           \/ Cancel(t)
           \/ \E o \in {"append", "start", "stop"} : CallOp(t, o)
    PROVE  TypeOK' /\ OwnerInv'
<1> USE DEF TypeOK, taskVars, tableVars, wireVars, fwVarsAll, dataVars, boundVars,
            Goto, Return
<1> USE TypeGroups
<1>1. CASE SendOp(t)
  <2>1. id[t] \in Ids /\ op[t] \in Commands
    BY <1>1 DEF SendOp, OwnerInv, Owners, Commands
  <2>2. WireTypes'
    BY <1>1, <2>1, SendTypes DEF SendOp
  <2>3. CallTypes' /\ TableTypes' /\ OwnerInv'
    BY <1>1 DEF SendOp, CallTypes, TableTypes, Pcs, OwnerInv, Owners
  <2> QED BY <1>1, <2>2, <2>3, Unchanged DEF SendOp
<1>2. CASE OpAnswered(t)
  <2>1. WireTypes'
    BY <1>2, ReceiveTypes DEF OpAnswered, Received, WireTypes
  <2>2. TableTypes'
    BY <1>2 DEF OpAnswered, TableTypes
  <2>3. /\ pc' \in [Tasks -> Pcs] /\ pc'[t] = "idle"
        /\ \A s \in Tasks \ {t} : pc'[s] = pc[s] /\ id'[s] = id[s]
        /\ result' \in [Tasks -> {"ok", "disconnected", "error", "noId"}]
    BY <1>2 DEF OpAnswered, Pcs, Forget
  <2>4. Listed(t, Head(control).ok) \in Nat
    <3>1. variables[t] \in Nat
      OBVIOUS
    <3>2. variables[t] + 1 \in Nat
      BY ONLY <3>1
    <3> QED BY ONLY <3>1, <3>2 DEF Listed
  <2>5. /\ id' \in [Tasks -> Ids \union {NoId}]
        /\ streaming' \in [Tasks -> BOOLEAN]
        /\ variables' \in [Tasks -> Nat]
    <3>1. /\ id \in [Tasks -> Ids \union {NoId}]
          /\ variables \in [Tasks -> Nat] /\ streaming \in [Tasks -> BOOLEAN]
      OBVIOUS
    <3>2. CASE /\ streaming' = [streaming EXCEPT ![t] = op[t] = "start"]
               /\ variables' = [variables EXCEPT ![t] = Listed(t, Head(control).ok)]
               /\ UNCHANGED id
      BY ONLY <2>4, <3>1, <3>2
    <3>3. CASE Forget(t)
      BY ONLY <3>1, <3>3 DEF Forget
    <3> QED BY <1>2, <3>2, <3>3 DEF OpAnswered
  <2>6. CallTypes'
    BY <1>2, <2>3, <2>5 DEF OpAnswered, CallTypes
  <2>7. OwnerInv'
    BY <2>3 DEF OwnerInv, Owners
  <2> QED BY <1>2, <2>1, <2>2, <2>6, <2>7, Unchanged DEF OpAnswered
<1>3. CASE SendError(t)
  BY <1>3, FailsTypes, Unchanged DEF SendError
<1>4. CASE Discard(t)
  <2>1. WireTypes'
    BY <1>4, ReceiveTypes DEF Discard, WireTypes
  <2> QED BY <1>4, <2>1, Unchanged DEF Discard, OwnerInv
<1>5. CASE WaitFails(t)
  BY <1>5, FailsTypes, Unchanged DEF WaitFails
<1>6. CASE NextSample(t)
  <2>1. queue' \in [Ids -> Seq(Nat)]
    <3>1. id[t] \in Ids => Tail(queue[id[t]]) \in Seq(Nat)
      BY <1>6 DEF NextSample
    <3> QED BY <1>6, <3>1 DEF NextSample
  <2> QED BY <1>6, <2>1 DEF NextSample, OwnerInv
<1>7. CASE NextError(t)
  BY <1>7 DEF NextError, OwnerInv
<1>8. CASE DropBlock(t)
  BY <1>8 DEF DropBlock, Forget, OwnerInv, Owners
<1>9. CASE Cancel(t)
  <2>1. CallTypes' /\ TableTypes' /\ OwnerInv'
    BY <1>9, FailsTypes DEF Cancel
  <2>2. BoundTypes'
    BY <1>9 DEF Cancel, BoundTypes
  <2> QED BY <1>9, <2>1, <2>2, Unchanged DEF Cancel
<1>10. ASSUME NEW o \in {"append", "start", "stop"}, CallOp(t, o)
       PROVE  TypeOK' /\ OwnerInv'
  <2>1. /\ pc' = [pc EXCEPT ![t] = "lockOp"] /\ op' = [op EXCEPT ![t] = o]
        /\ id[t] # NoId
        /\ UNCHANGED <<id, variables, streaming, scan, result>>
    BY <1>10 DEF CallOp
  <2>2. CallTypes' /\ OwnerInv'
    BY <2>1 DEF CallTypes, Pcs, OwnerInv, Owners
  <2>3. BoundTypes'
    BY <1>10 DEF CallOp, Called, BoundTypes
  <2> QED BY <1>10, <2>2, <2>3, Unchanged DEF CallOp
<1> QED BY <1>1, <1>2, <1>3, <1>4, <1>5, <1>6, <1>7, <1>8, <1>9, <1>10

LEMMA OtherTypes ==
    ASSUME TypeOK, OwnerInv,
           \/ Dispatch \/ DispatchEnd \/ FwCommand
           \/ (\E i \in Ids : FwSample(i)) \/ ConnectionEnds
    PROVE  TypeOK' /\ OwnerInv'
<1> USE DEF TypeOK, taskVars, tableVars, wireVars, fwVarsAll, dataVars, boundVars
<1> USE TypeGroups
<1>0. OwnerInv'
  BY DEF OwnerInv, Dispatch, DispatchEnd, FwCommand, FwSample, ConnectionEnds
<1>1. CASE Dispatch
  <2>1. /\ Head(data) \in Samples /\ Tail(data) \in Seq(Samples)
        /\ Head(data).id \in Ids /\ Head(data).n \in Nat
    <3>1. Head(data) \in Samples /\ Tail(data) \in Seq(Samples)
      BY <1>1 DEF Dispatch
    <3> QED BY ONLY <3>1 DEF Samples
  <2>2. \A i \in Ids, n \in Nat : [queue EXCEPT ![i] = Append(@, n)] \in [Ids -> Seq(Nat)]
    OBVIOUS
  <2>3. DataTypes'
    <3>1. queue' \in [Ids -> Seq(Nat)]
      <4>1. \/ queue' = [queue EXCEPT ![Head(data).id] = Append(@, Head(data).n)]
            \/ queue' = queue
        BY <1>1 DEF Dispatch
      <4>2. queue \in [Ids -> Seq(Nat)]
        OBVIOUS
      <4>3. [queue EXCEPT ![Head(data).id] = Append(@, Head(data).n)]
              \in [Ids -> Seq(Nat)]
        BY ONLY <2>1, <2>2
      <4> QED BY ONLY <4>1, <4>2, <4>3
    <3>2. data' \in Seq(Samples) /\ channels' \in SUBSET Ids
          /\ dispatcher' \in {"running", "ended"} /\ UNCHANGED <<fw, fwVars, samples>>
      BY <1>1, <2>1 DEF Dispatch
    <3> QED BY <3>1, <3>2 DEF DataTypes
  <2> QED BY <1>0, <1>1, <2>3, Unchanged DEF Dispatch
<1>2. CASE DispatchEnd
  BY <1>0, <1>2 DEF DispatchEnd
<1>3. CASE FwCommand
  <2> DEFINE r == Head(uplink)
  <2>1. r \in Requests /\ Tail(uplink) \in Seq(Requests)
    BY <1>3 DEF FwCommand
  <2>2. r.id \in Ids /\ r.cmd \in Commands
    BY <2>1 DEF Requests
  <2>3. [cmd |-> r.cmd, id |-> r.id, ok |-> Accepts(r)] \in Answers
    <3>1. Accepts(r) \in BOOLEAN
      <4>1. CASE r.cmd = "create"
        BY ONLY <4>1 DEF Accepts
      <4>2. CASE r.cmd = "append"
        BY ONLY <4>2 DEF Accepts
      <4>3. CASE r.cmd # "create" /\ r.cmd # "append"
        <5>1. Accepts(r) = (r.id \in Blocks)
          BY ONLY <4>3 DEF Accepts
        <5>2. (r.id \in Blocks) \in BOOLEAN
          OBVIOUS
        <5> QED BY ONLY <5>1, <5>2, Zenon
      <4> QED BY <4>1, <4>2, <4>3
    <3> QED BY <2>2, <3>1 DEF Answers
  <2>4. WireTypes'
    BY <1>3, <2>1, <2>3 DEF FwCommand, WireTypes
  <2>5. fw' \in [Ids -> {"absent", "idle", "started"}]
    BY <1>3, <2>2 DEF FwCommand, Commands
  <2>6. fwVars' \in [Ids -> Nat]
    <3>0. fwVars[r.id] \in Nat
      BY <2>2
    <3>1. fwVars[r.id] + 1 \in Nat
      BY ONLY <3>0
    <3>2. fwVars' = [fwVars EXCEPT ![r.id] =
                    CASE Accepts(r) /\ r.cmd = "append" -> @ + 1
                      [] Accepts(r) /\ r.cmd = "create" -> 0
                      [] OTHER -> @]
      BY <1>3 DEF FwCommand
    <3> QED BY <2>2, <3>1, <3>2
  <2>7. DataTypes'
    BY <1>3, <2>5, <2>6 DEF FwCommand, DataTypes
  <2> QED BY <1>0, <1>3, <2>4, <2>7, Unchanged DEF FwCommand
<1>4. ASSUME NEW i \in Ids, FwSample(i) PROVE TypeOK'
  <2>1. [id |-> i, n |-> fwVars[i]] \in Samples
    BY DEF Samples
  <2>2. DataTypes'
    BY <1>4, <2>1 DEF FwSample, DataTypes
  <2> QED BY <1>4, <2>2, Unchanged DEF FwSample
<1>5. CASE ConnectionEnds
  <2>1. /\ \A n \in 0..Len(control) : SubSeq(control, 1, n) \in Seq(Answers)
        /\ \A n \in 0..Len(data) : SubSeq(data, 1, n) \in Seq(Samples)
    <3>1. ASSUME NEW S, NEW s \in Seq(S), NEW n \in 0..Len(s)
          PROVE  SubSeq(s, 1, n) \in Seq(S)
      <4>1. n \in Int /\ 1 \in Int /\ \A i \in 1..n : s[i] \in S
        BY ONLY <3>1
      <4> QED BY ONLY <4>1, SubSeqProperties
    <3> QED BY <3>1
  <2>2. WireTypes' /\ DataTypes'
    <3>1. control' \in Seq(Answers) /\ data' \in Seq(Samples)
      BY <1>5, <2>1 DEF ConnectionEnds
    <3>2. uplink' = <<>> /\ connected' = FALSE
          /\ UNCHANGED <<fw, fwVars, samples, channels, queue, dispatcher>>
      BY <1>5 DEF ConnectionEnds
    <3>3. uplink' \in Seq(Requests)
      BY ONLY <3>2
    <3> QED BY <3>1, <3>2, <3>3 DEF WireTypes, DataTypes
  <2> QED BY <1>0, <1>5, <2>2, Unchanged DEF ConnectionEnds
<1> QED BY <1>0, <1>1, <1>2, <1>3, <1>4, <1>5

LEMMA NextTypes == TypeOK /\ OwnerInv /\ [Next]_vars => TypeOK' /\ OwnerInv'
<1> SUFFICES ASSUME TypeOK, OwnerInv, [Next]_vars PROVE TypeOK' /\ OwnerInv'
  OBVIOUS
<1>1. CASE UNCHANGED vars
  BY <1>1, TypeGroups, Unchanged DEF vars, taskVars, OwnerInv
<1> QED BY <1>1, NextCases, CreateTypes, CallTypesKept, OtherTypes

\* Type correctness of Log for every instance: in particular the counter of
\* identifiers stays in the range of a u8 (generate_next_block_id).
THEOREM TypeCorrect == Spec => []TypeOK
  BY InitTypes, NextTypes, PTL DEF Spec

-----------------------------------------------------------------------------
(* Identifiers.  Everything that names a block, in the tables, in the       *)
(* Crazyflie or on the way to it, is below next_block_id, which only grows; *)
(* the identifier of a block yet to be created is named nowhere.            *)

Requested(i) == \E k \in 1..Len(uplink) : uplink[k].id = i
Scanned(i) == \E t \in Tasks : i \in scan[t]
Used(i) == i \in Blocks \/ i \in active \/ i \in channels \/ Scanned(i) \/ Requested(i)

IdInv ==
    /\ \A s, t \in Tasks : s # t /\ id[s] # NoId => id[s] # id[t]
    /\ \A t \in Tasks : id[t] # NoId => id[t] < nextId
    /\ \A i \in Ids : Used(i) => i < nextId
    /\ \A t \in Tasks : pc[t] = "lockCreate" => ~Used(id[t])

LEMMA InitIdInv == Init => IdInv
  BY DEF Init, IdInv, Used, Blocks, Scanned, Requested

\* A step gives no task another identifier.
NoNewIds ==
    /\ nextId' = nextId
    /\ \A t \in Tasks : id'[t] \in {id[t], NoId}
    /\ \A t \in Tasks :
           pc'[t] = "lockCreate" => pc[t] = "lockCreate" /\ id'[t] = id[t]

\* What is named after a step was named before it, or belongs to a task that
\* is past lockCreate.
NamesKept ==
    \A i \in Ids :
        (Used(i))' => Used(i) \/ \E t \in Tasks : id[t] = i /\ pc'[t] # "lockCreate"

LEMMA QuietStep ==
    ASSUME TypeOK, IdInv, OwnerInv, NoNewIds, NamesKept
    PROVE  IdInv'
<1>1. \A s, t \in Tasks : s # t /\ id'[s] # NoId => id'[s] # id'[t]
  BY DEF IdInv, NoNewIds
<1>2. \A t \in Tasks : id'[t] # NoId => id'[t] < nextId'
  BY DEF IdInv, NoNewIds
<1>3. \A i \in Ids : (Used(i))' => i < nextId'
  BY IdFacts DEF IdInv, NoNewIds, NamesKept
<1>4. ASSUME NEW t \in Tasks, pc'[t] = "lockCreate" PROVE ~(Used(id[t]))'
  <2>1. id[t] \in Ids /\ ~Used(id[t]) /\ id[t] # NoId /\ id'[t] = id[t]
    BY <1>4, IdFacts DEF IdInv, OwnerInv, Owners, TypeOK, NoNewIds
  <2>2. \A s \in Tasks : id[s] = id[t] => s = t
    BY <2>1 DEF IdInv
  <2>3. \A i \in Ids : i = id[t] => ~(Used(i))'
    BY <1>4, <2>1, <2>2 DEF NamesKept
  <2> QED BY <2>1, <2>3 DEF Used, Blocks, Requested, Scanned
<1> QED BY <1>1, <1>2, <1>3, <1>4 DEF IdInv

\* Nothing is named anew when the tables and the queue at most lose entries.
LEMMA NothingNamed ==
    ASSUME UNCHANGED <<fw, uplink>>,
           active' \subseteq active, channels' \subseteq channels,
           \A t \in Tasks : scan'[t] \subseteq scan[t] \union active
    PROVE  NamesKept
  BY DEF NamesKept, Used, Blocks, Requested, Scanned

\* A call that fails gives up what it has.
LEMMA FailsQuiet ==
    ASSUME TypeOK, NEW t \in Tasks, NEW r, Fails(t, r)
    PROVE  /\ NoNewIds
           /\ active' = active
           /\ \A s \in Tasks : scan'[s] \subseteq scan[s]
<1>1. pc' = [pc EXCEPT ![t] = "idle"] /\ nextId' = nextId /\ active' = active
      /\ scan' = [scan EXCEPT ![t] = {}]
  BY DEF Fails, Return, Goto
<1>2. id' = id \/ id' = [id EXCEPT ![t] = NoId]
  BY DEF Fails, Forget
<1>3. pc \in [Tasks -> Pcs] /\ id \in [Tasks -> Ids \union {NoId}]
      /\ scan \in [Tasks -> SUBSET Ids]
  BY DEF TypeOK
<1>4. \A s \in Tasks : id'[s] \in {id[s], NoId}
  BY <1>2, <1>3
<1>5. \A s \in Tasks : pc'[s] = "lockCreate" => pc[s] = "lockCreate" /\ id'[s] = id[s]
  BY <1>1, <1>2, <1>3
<1>6. \A s \in Tasks : scan'[s] \subseteq scan[s]
  BY <1>1, <1>3
<1> QED BY <1>1, <1>4, <1>5, <1>6 DEF NoNewIds

\* A command names the block it is for.
LEMMA SendNames ==
    ASSUME TypeOK, NEW c, NEW i, SendOk(c, i), NEW j, (Requested(j))'
    PROVE  Requested(j) \/ j = i
<1>1. CASE uplink' = uplink
  BY <1>1 DEF Requested
<1>2. CASE uplink' = Append(uplink, [cmd |-> c, id |-> i])
  <2>1. PICK k \in 1..Len(uplink') : uplink'[k].id = j
    BY DEF Requested
  <2>2. uplink \in Seq(Requests) /\ Len(uplink') = Len(uplink) + 1
    BY <1>2 DEF TypeOK
  <2>3. CASE k = Len(uplink) + 1
    BY <1>2, <2>1, <2>2, <2>3
  <2>4. CASE k \in 1..Len(uplink)
    BY <1>2, <2>1, <2>2, <2>4 DEF Requested
  <2> QED BY <2>1, <2>2, <2>3, <2>4
<1> QED BY <1>1, <1>2 DEF SendOk

LEMMA SendNamesKept ==
    ASSUME TypeOK, NEW c, NEW i, SendOk(c, i),
           Used(i) \/ \E t \in Tasks : id[t] = i /\ pc'[t] # "lockCreate",
           UNCHANGED <<fw, active, channels, scan>>
    PROVE  NamesKept
  BY SendNames DEF NamesKept, Used, Blocks, Scanned

LEMMA CreateIds ==
    ASSUME TypeOK, OwnerInv, IdInv, NEW t \in Tasks,
           \/ CreateBlock(t) \/ LockActive(t) \/ Scan(t) \/ SendDelete(t)
           \/ DeleteAnswered(t) \/ CleanupDone(t) \/ NoIdLeft(t)
           \/ SendCreate(t) \/ CreateAnswered(t) \/ Insert(t)
    PROVE  NoNewIds /\ NamesKept
<1> USE DEF wireVars, fwVarsAll, dataVars, tableVars, Goto, Return
<1>0. pc \in [Tasks -> Pcs] /\ scan \in [Tasks -> SUBSET Ids]
  BY DEF TypeOK
<1>1. CASE CreateBlock(t)
  BY <1>0, <1>1, NothingNamed DEF CreateBlock, NoNewIds
<1>2. CASE LockActive(t)
  BY <1>0, <1>2, NothingNamed DEF LockActive, NoNewIds
<1>3. CASE Scan(t)
  <2>1. \A s \in Tasks : scan'[s] \subseteq scan[s]
    BY <1>0, <1>3 DEF Scan
  <2>2. NoNewIds
    BY <1>0, <1>3 DEF Scan, NoNewIds
  <2> QED BY <1>3, <2>1, <2>2, NothingNamed DEF Scan
<1>4. CASE SendDelete(t)
  <2>1. NoNewIds
    BY <1>0, <1>4 DEF SendDelete, NoNewIds
  <2>2. PICK i \in scan[t] : SendOk("delete", i) /\ TableKept(i)
    BY <1>4 DEF SendDelete
  <2>3. Used(i)
    BY <2>2 DEF Used, Scanned
  <2> QED BY <1>4, <2>1, <2>2, <2>3, SendNamesKept DEF SendDelete, TableKept
<1>5. CASE DeleteAnswered(t)
  <2>1. CASE Fails(t, "error")
    BY <1>5, <2>1, FailsQuiet, NothingNamed DEF DeleteAnswered
  <2>2. CASE ~Fails(t, "error")
    <3>1. NoNewIds /\ active' \subseteq active
      BY <1>0, <1>5, <2>2 DEF DeleteAnswered, NoNewIds
    <3>2. \A s \in Tasks : scan'[s] \subseteq scan[s]
      BY <1>0, <1>5, <2>2 DEF DeleteAnswered
    <3> QED BY <1>5, <3>1, <3>2, NothingNamed DEF DeleteAnswered
  <2> QED BY <2>1, <2>2
<1>6. CASE CleanupDone(t)
  BY <1>0, <1>6, NothingNamed DEF CleanupDone, NoNewIds
<1>7. CASE NoIdLeft(t)
  BY <1>7, FailsQuiet, NothingNamed DEF NoIdLeft
<1>8. CASE SendCreate(t)
  <2>1. NoNewIds /\ pc'[t] = "waitCreate"
    BY <1>0, <1>8 DEF SendCreate, NoNewIds
  <2> QED BY <1>8, <2>1, SendNamesKept DEF SendCreate
<1>9. CASE CreateAnswered(t)
  <2>1. CASE Fails(t, "error") /\ UNCHANGED channels
    BY <1>9, <2>1, FailsQuiet, NothingNamed DEF CreateAnswered
  <2>2. CASE ~(Fails(t, "error") /\ UNCHANGED channels)
    <3>1. NoNewIds /\ pc'[t] = "insert" /\ channels' = channels \union {id[t]}
      BY <1>0, <1>9, <2>2 DEF CreateAnswered, NoNewIds
    <3>2. UNCHANGED <<fw, uplink, active, scan>>
      BY <1>9, <2>2 DEF CreateAnswered
    <3> QED BY <3>1, <3>2 DEF NamesKept, Used, Blocks, Requested, Scanned
  <2> QED BY <2>1, <2>2
<1>10. CASE Insert(t)
  <2>1. NoNewIds /\ pc'[t] = "idle" /\ active' = active \union {id[t]}
        /\ UNCHANGED <<fw, uplink, channels, scan>>
    BY <1>0, <1>10 DEF Insert, NoNewIds
  <2> QED BY <2>1 DEF NamesKept, Used, Blocks, Requested, Scanned
<1> QED BY <1>1, <1>2, <1>3, <1>4, <1>5, <1>6, <1>7, <1>8, <1>9, <1>10

\* The counter moves on, and the identifier taken is named nowhere yet.
LEMMA TakeIdIds ==
    ASSUME TypeOK, OwnerInv, IdInv, NEW t \in Tasks, TakeId(t)
    PROVE  IdInv'
<1>1. /\ id' = [id EXCEPT ![t] = nextId] /\ nextId' = nextId + 1
      /\ pc' = [pc EXCEPT ![t] = "lockCreate"]
      /\ UNCHANGED <<fw, uplink, active, channels, scan>>
  BY DEF TakeId, Increment, Goto, wireVars, fwVarsAll, dataVars
<1>2. /\ nextId \in Ids /\ nextId \in Nat /\ nextId # NoId
      /\ id \in [Tasks -> Ids \union {NoId}] /\ pc \in [Tasks -> Pcs]
  BY IdFacts DEF TypeOK
<1>3. \A i : (Used(i))' <=> Used(i)
  BY <1>1 DEF Used, Blocks, Requested, Scanned
<1>4. ~Used(nextId)
  BY <1>2 DEF IdInv
<1>5. \A s \in Tasks : id[s] # NoId => id[s] \in Nat /\ id[s] < nextId
  BY <1>2, IdFacts DEF IdInv
<1>6. \A r, s \in Tasks : r # s /\ id'[r] # NoId => id'[r] # id'[s]
  BY <1>1, <1>2, <1>5 DEF IdInv
<1>7. \A s \in Tasks : id'[s] # NoId => id'[s] < nextId'
  BY <1>1, <1>2, <1>5
<1>8. \A i \in Ids : (Used(i))' => i < nextId'
  BY <1>1, <1>2, <1>3, IdFacts DEF IdInv
<1>9. \A s \in Tasks : pc'[s] = "lockCreate" => ~Used(id'[s])
  BY <1>1, <1>2, <1>4 DEF IdInv
<1>10. \A s \in Tasks : pc'[s] = "lockCreate" => ~(Used(id[s]))'
  BY <1>3, <1>9 DEF Used, Blocks, Requested, Scanned
<1> QED BY <1>6, <1>7, <1>8, <1>10 DEF IdInv

LEMMA CallIds ==
    ASSUME TypeOK, OwnerInv, IdInv, NEW t \in Tasks,
           \/ SendOp(t) \/ OpAnswered(t) \/ SendError(t) \/ Discard(t)
           \/ WaitFails(t) \/ NextSample(t) \/ NextError(t) \/ DropBlock(t)
           \/ Cancel(t)
           \/ \E o \in {"append", "start", "stop"} : CallOp(t, o)
    PROVE  NoNewIds /\ NamesKept
<1> USE DEF taskVars, wireVars, fwVarsAll, dataVars, tableVars, Goto, Return
<1>0. /\ pc \in [Tasks -> Pcs] /\ scan \in [Tasks -> SUBSET Ids]
      /\ id \in [Tasks -> Ids \union {NoId}]
  BY DEF TypeOK
<1>1. CASE SendOp(t)
  <2>1. NoNewIds /\ pc'[t] = "waitOp"
    BY <1>0, <1>1 DEF SendOp, NoNewIds
  <2> QED BY <1>1, <2>1, SendNamesKept DEF SendOp
<1>2. CASE OpAnswered(t)
  <2>1. id' = id \/ id' = [id EXCEPT ![t] = NoId]
    BY <1>2 DEF OpAnswered, Forget
  <2>2. NoNewIds
    BY <1>0, <1>2, <2>1 DEF OpAnswered, NoNewIds
  <2> QED BY <1>2, <2>2, NothingNamed DEF OpAnswered
<1>3. CASE SendError(t)
  BY <1>3, FailsQuiet, NothingNamed DEF SendError
<1>4. CASE Discard(t)
  BY <1>4, NothingNamed DEF Discard, NoNewIds
<1>5. CASE WaitFails(t)
  BY <1>5, FailsQuiet, NothingNamed DEF WaitFails
<1>6. CASE NextSample(t)
  BY <1>6, NothingNamed DEF NextSample, NoNewIds
<1>7. CASE NextError(t)
  BY <1>7, NothingNamed DEF NextError, NoNewIds
<1>8. CASE DropBlock(t)
  <2>1. NoNewIds
    BY <1>0, <1>8 DEF DropBlock, Forget, NoNewIds
  <2> QED BY <1>8, <2>1, NothingNamed DEF DropBlock
<1>9. CASE Cancel(t)
  BY <1>9, FailsQuiet, NothingNamed DEF Cancel
<1>10. ASSUME NEW o \in {"append", "start", "stop"}, CallOp(t, o)
       PROVE  NoNewIds /\ NamesKept
  <2>1. NoNewIds
    BY <1>0, <1>10 DEF CallOp, NoNewIds
  <2> QED BY <1>10, <2>1, NothingNamed DEF CallOp
<1> QED BY <1>1, <1>2, <1>3, <1>4, <1>5, <1>6, <1>7, <1>8, <1>9, <1>10

LEMMA OtherIds ==
    ASSUME TypeOK, OwnerInv, IdInv,
           \/ Dispatch \/ DispatchEnd \/ FwCommand
           \/ (\E i \in Ids : FwSample(i)) \/ ConnectionEnds
    PROVE  NoNewIds /\ NamesKept
<1> USE DEF taskVars, tableVars, wireVars, fwVarsAll
<1>1. NoNewIds
  BY DEF NoNewIds, Dispatch, DispatchEnd, FwCommand, FwSample, ConnectionEnds
<1>2. CASE Dispatch
  BY <1>2, <1>1, NothingNamed DEF Dispatch
<1>3. CASE DispatchEnd
  BY <1>3, <1>1, NothingNamed DEF DispatchEnd
<1>4. CASE FwCommand
  <2>1. uplink \in Seq(Requests) /\ uplink # <<>> /\ uplink' = Tail(uplink)
        /\ UNCHANGED <<active, channels, scan>>
    BY <1>4 DEF FwCommand, TypeOK, dataVars
  <2>2. Requested(Head(uplink).id)
    BY <2>1 DEF Requested
  <2>3. \A i : (Requested(i))' => Requested(i)
    BY <2>1 DEF Requested
  <2>4. \A i \in Blocks' : i \in Blocks \/ i = Head(uplink).id
    BY <1>4 DEF FwCommand, Blocks, TypeOK
  <2> QED BY <1>1, <2>1, <2>2, <2>3, <2>4 DEF NamesKept, Used, Scanned
<1>5. ASSUME NEW i \in Ids, FwSample(i) PROVE NamesKept
  BY <1>5, <1>1, NothingNamed DEF FwSample
<1>6. CASE ConnectionEnds
  <2>1. uplink' = <<>> /\ UNCHANGED <<fw, active, channels, scan>>
    BY <1>6 DEF ConnectionEnds
  <2> QED BY <1>1, <2>1 DEF NamesKept, Used, Blocks, Scanned, Requested
<1> QED BY <1>1, <1>2, <1>3, <1>4, <1>5, <1>6

LEMMA NextIdInv == TypeOK /\ OwnerInv /\ IdInv /\ [Next]_vars => IdInv'
<1> SUFFICES ASSUME TypeOK, OwnerInv, IdInv, [Next]_vars PROVE IdInv'
  OBVIOUS
<1>1. CASE UNCHANGED vars
  BY <1>1 DEF vars, taskVars, tableVars, wireVars, fwVarsAll, dataVars, IdInv,
     Used, Blocks, Scanned, Requested
<1>2. ASSUME NEW t \in Tasks, TakeId(t) PROVE IdInv'
  BY <1>2, TakeIdIds
<1> QED BY <1>1, <1>2, NextCases, CreateIds, CallIds, OtherIds, QuietStep

\* No two objects share an identifier, and a block about to be created finds
\* its own in use nowhere, whatever the clean-up, failing and dropped calls and
\* late answers do (generate_next_block_id, create_block).
THEOREM IdentifiersUnique == Spec => []IdsUnique
<1>1. Init => TypeOK /\ OwnerInv /\ IdInv
  BY InitTypes, InitIdInv
<1>2. TypeOK /\ OwnerInv /\ IdInv /\ [Next]_vars => TypeOK' /\ OwnerInv' /\ IdInv'
  BY NextTypes, NextIdInv
<1>3. IdInv => IdsUnique
  BY DEF IdInv, IdsUnique, Used
<1> QED BY <1>1, <1>2, <1>3, PTL DEF Spec

-----------------------------------------------------------------------------
(* What the steps of one task leave alone. *)

TaskStep(t) ==
    \/ CallStep(t) \/ CreateBlock(t)
    \/ \E o \in {"append", "start", "stop"} : CallOp(t, o)
    \/ NextSample(t) \/ NextError(t) \/ DropBlock(t) \/ Cancel(t)

OtherStep ==
    \/ Dispatch \/ DispatchEnd \/ FwCommand
    \/ (\E i \in Ids : FwSample(i)) \/ ConnectionEnds

\* Nothing happens to the calls and the object of task s.
Bystander(s) ==
    /\ pc'[s] = pc[s] /\ id'[s] = id[s] /\ op'[s] = op[s]
    /\ variables'[s] = variables[s] /\ streaming'[s] = streaming[s]
    /\ scan'[s] = scan[s]

LEMMA FailsOthers ==
    ASSUME TypeOK, NEW t \in Tasks, NEW r, Fails(t, r), NEW s \in Tasks \ {t}
    PROVE  Bystander(s)
<1>1. /\ pc' = [pc EXCEPT ![t] = "idle"] /\ op' = op
      /\ scan' = [scan EXCEPT ![t] = {}]
  BY DEF Fails, Return, Goto
<1>2. \/ UNCHANGED <<id, variables, streaming>>
      \/ /\ id' = [id EXCEPT ![t] = NoId]
         /\ variables' = [variables EXCEPT ![t] = 0]
         /\ streaming' = [streaming EXCEPT ![t] = FALSE]
  BY DEF Fails, Forget
<1> QED BY <1>1, <1>2 DEF Bystander, TypeOK

LEMMA TaskBystanders ==
    ASSUME TypeOK, NEW t \in Tasks, TaskStep(t), NEW s \in Tasks \ {t}
    PROVE  Bystander(s)
<1> USE DEF taskVars, Goto, Return, Bystander
<1>0. /\ pc \in [Tasks -> Pcs] /\ id \in [Tasks -> Ids \union {NoId}]
      /\ op \in [Tasks -> {"append", "start", "stop"}]
      /\ variables \in [Tasks -> Nat] /\ streaming \in [Tasks -> BOOLEAN]
      /\ scan \in [Tasks -> SUBSET Ids]
  BY DEF TypeOK
<1>1. CASE \E r : Fails(t, r)
  BY <1>1, FailsOthers
<1>2. CASE CreateBlock(t) \/ LockActive(t) \/ Scan(t) \/ SendDelete(t)
  BY <1>0, <1>2 DEF CreateBlock, LockActive, Scan, SendDelete
<1>3. CASE DeleteAnswered(t) \/ CleanupDone(t) \/ TakeId(t) \/ NoIdLeft(t)
  BY <1>0, <1>1, <1>3 DEF DeleteAnswered, CleanupDone, TakeId, NoIdLeft
<1>4. CASE SendCreate(t) \/ CreateAnswered(t) \/ Insert(t)
  BY <1>0, <1>1, <1>4 DEF SendCreate, CreateAnswered, Insert
<1>5. CASE \E o \in {"append", "start", "stop"} : CallOp(t, o)
  BY <1>0, <1>5 DEF CallOp
<1>6. CASE SendOp(t) \/ Discard(t) \/ SendError(t) \/ WaitFails(t) \/ Cancel(t)
  BY <1>0, <1>1, <1>6 DEF SendOp, Discard, SendError, WaitFails, Cancel
<1>7. CASE OpAnswered(t)
  <2>1. pc' = [pc EXCEPT ![t] = "idle"] /\ op' = op /\ scan' = scan
    BY <1>7 DEF OpAnswered
  <2>2. \/ Forget(t)
        \/ /\ streaming' = [streaming EXCEPT ![t] = op[t] = "start"]
           /\ variables' = [variables EXCEPT ![t] = Listed(t, Head(control).ok)]
           /\ UNCHANGED id
    BY <1>7 DEF OpAnswered
  <2> QED BY <1>0, <2>1, <2>2 DEF Forget
<1>8. CASE NextSample(t) \/ NextError(t) \/ DropBlock(t)
  BY <1>0, <1>8 DEF NextSample, NextError, DropBlock, Forget
<1> QED BY <1>2, <1>3, <1>4, <1>5, <1>6, <1>7, <1>8 DEF TaskStep, CallStep, CreateStep

LEMMA OtherBystanders ==
    ASSUME OtherStep, NEW s \in Tasks
    PROVE  Bystander(s) /\ UNCHANGED <<taskVars, tableVars, cancels>>
  BY DEF OtherStep, Dispatch, DispatchEnd, FwCommand, FwSample, ConnectionEnds,
     taskVars, boundVars, Bystander

-----------------------------------------------------------------------------
(* The locks and the table.  A task that waits for an answer has the lock   *)
(* of control_downlink, a task that cleans up the lock of active_blocks.    *)
(* What is in that table is the block of an object, or nobody's; and what   *)
(* the clean-up is about to delete is nobody's, and stays so.               *)

Preparing == {"lockActive", "scan", "lockDelete", "waitDelete", "takeId"}
Making == {"lockCreate", "waitCreate", "insert"}
Holding == {"idle", "lockOp", "waitOp"}

Least(i, S) == i \in S /\ \A j \in S : i <= j

\* No task has the block i.
Dead(i) == \A t \in Tasks : id[t] # i

LockOK(t) ==
    /\ pc[t] \in {"waitDelete", "waitCreate", "insert", "waitOp"} => controlLock = t
    /\ pc[t] \in {"scan", "lockDelete", "waitDelete"} =>
           activeLock = t /\ scan[t] \subseteq active
    /\ pc[t] \in {"lockDelete", "waitDelete"} =>
           \E i \in scan[t] : Least(i, scan[t]) /\ Dead(i)

ObjectOK(t) ==
    /\ pc[t] \in Preparing => id[t] = NoId
    /\ pc[t] \in Making => id[t] \notin active
    /\ pc[t] \in Holding /\ id[t] # NoId => id[t] \in active
    /\ id[t] = NoId \/ pc[t] \in Making => variables[t] = 0 /\ ~streaming[t]
    /\ pc[t] \in {"lockOp", "waitOp"} /\ op[t] = "append" => ~streaming[t]

TaskInv == \A t \in Tasks : LockOK(t) /\ ObjectOK(t)

LEMMA InitTask == Init => TaskInv
  BY DEF Init, TaskInv, LockOK, ObjectOK, Preparing, Making, Holding

LEMMA LeastUnique ==
    ASSUME NEW S \in SUBSET Ids, NEW i, NEW j, Least(i, S), Least(j, S)
    PROVE  i = j
<1>1. i \in Nat /\ j \in Nat /\ i <= j /\ j <= i
  BY IdFacts DEF Least
<1> QED BY <1>1

\* A block that nobody has is given to nobody.
LEMMA DeadStays ==
    ASSUME TypeOK, OwnerInv, IdInv, [Next]_vars,
           NEW i \in Ids, i < nextId, Dead(i)
    PROVE  (Dead(i))'
<1>1. CASE UNCHANGED vars
  BY <1>1 DEF vars, taskVars, Dead
<1>2. ASSUME NEW t \in Tasks, TakeId(t) PROVE (Dead(i))'
  <2>1. id' = [id EXCEPT ![t] = nextId] /\ nextId \in Nat /\ i \in Nat
    BY <1>2, IdFacts DEF TakeId, TypeOK
  <2> QED BY <2>1 DEF Dead, TypeOK
<1>3. CASE NoNewIds
  BY <1>3, IdFacts DEF NoNewIds, Dead
<1> QED BY <1>1, <1>2, <1>3, NextCases, CreateIds, CallIds, OtherIds

LEMMA ScanDead ==
    ASSUME TypeOK, OwnerInv, IdInv, [Next]_vars, NEW t \in Tasks,
           NEW i \in scan[t], Dead(i)
    PROVE  (Dead(i))'
<1>1. i \in Ids
  BY DEF TypeOK
<1>2. i < nextId
  BY <1>1 DEF IdInv, Used, Scanned
<1> QED BY <1>1, <1>2, DeadStays

\* What the locks and the table must do for a task that does nothing itself.
LEMMA BystanderTask ==
    ASSUME TypeOK, OwnerInv, IdInv, TaskInv, [Next]_vars,
           NEW s \in Tasks, Bystander(s),
           controlLock = s => controlLock' = s,
           activeLock = s => activeLock' = s /\ active \subseteq active',
           id[s] # NoId => (id[s] \in active' <=> id[s] \in active)
    PROVE  LockOK(s)' /\ ObjectOK(s)'
<1>1. LockOK(s) /\ ObjectOK(s)
  BY DEF TaskInv
<1>2. \A i \in scan[s] : Dead(i) => (Dead(i))'
  BY ScanDead
<1>3. LockOK(s)'
  BY <1>1, <1>2 DEF LockOK, Bystander, Least
<1>4. id[s] = NoId => pc[s] \notin Making
  BY DEF OwnerInv, Owners, Making
<1>5. ObjectOK(s)'
  BY <1>1, <1>4 DEF ObjectOK, Bystander
<1> QED BY <1>3, <1>5

\* What a step of t does to the locks and the table is nothing to the others.
LocksKept(t) ==
    \A s \in Tasks \ {t} :
        /\ controlLock = s => controlLock' = s
        /\ activeLock = s => activeLock' = s /\ active \subseteq active'
        /\ id[s] # NoId => (id[s] \in active' <=> id[s] \in active)

LEMMA FailsTask ==
    ASSUME TypeOK, OwnerInv, TaskInv, NEW t \in Tasks, NEW r, Fails(t, r)
    PROVE  LockOK(t)' /\ ObjectOK(t)' /\ LocksKept(t)
<1>1. pc'[t] = "idle" /\ op' = op /\ active' = active
  BY DEF Fails, Return, Goto, TypeOK
<1>2. LocksKept(t)
  BY <1>1 DEF LocksKept, Fails, Unlock, Unlocked
<1>3. CASE Owning(t)
  <2>1. id'[t] = NoId /\ variables'[t] = 0 /\ ~streaming'[t]
    BY <1>3 DEF Fails, Forget, TypeOK
  <2> QED BY <1>1, <1>2, <2>1 DEF LockOK, ObjectOK, Preparing, Making
<1>4. CASE ~Owning(t)
  <2>1. pc[t] \in {"lockOp", "waitOp"} /\ op[t] = "append"
        /\ UNCHANGED <<id, variables, streaming>>
    BY <1>4 DEF Owning, Fails
  <2>2. id[t] # NoId /\ id[t] \in active
    BY <2>1 DEF OwnerInv, Owners, TaskInv, ObjectOK, Holding
  <2> QED BY <1>1, <1>2, <2>1, <2>2 DEF LockOK, ObjectOK, Preparing, Making
<1> QED BY <1>3, <1>4

\* The answer e is the one task t waits for.
Current(t, e) ==
    \/ pc[t] = "waitDelete" /\ e.cmd = "delete" /\ Least(e.id, scan[t])
    \/ pc[t] = "waitCreate" /\ e.cmd = "create" /\ e.id = id[t]
    \/ pc[t] = "waitOp" /\ e.cmd = op[t] /\ e.id = id[t]

LEMMA ExpectedFacts ==
    ASSUME TypeOK, TaskInv, NEW t \in Tasks, Waits(t), NEW e
    PROVE  Matches(t, e) <=> Current(t, e)
<1>1. CASE pc[t] = "waitDelete"
  <2> DEFINE least == CHOOSE i \in scan[t] : \A j \in scan[t] : i <= j
  <2>1. \E i \in scan[t] : \A j \in scan[t] : i <= j
    BY <1>1 DEF TaskInv, LockOK, Least
  <2>2. Least(least, scan[t])
    BY <2>1 DEF Least
  <2>3. Least(e.id, scan[t]) <=> e.id = least
    BY <2>2, LeastUnique DEF TypeOK
  <2>4. Expected(t) = [cmd |-> "delete", id |-> least]
    BY <1>1 DEF Expected
  <2> QED BY <1>1, <2>3, <2>4 DEF Matches, Current
<1>2. CASE pc[t] = "waitCreate"
  BY <1>2 DEF Expected, Matches, Current
<1>3. CASE pc[t] = "waitOp"
  BY <1>3 DEF Expected, Matches, Current
<1> QED BY <1>1, <1>2, <1>3 DEF Waits

\* What is deleted is nobody's.
LEMMA DeleteFacts ==
    ASSUME TypeOK, TaskInv, NEW t \in Tasks, pc[t] = "waitDelete", NEW e, Current(t, e)
    PROVE  e.id \in scan[t] /\ Dead(e.id)
<1>1. Least(e.id, scan[t])
  BY DEF Current
<1>2. PICK i \in scan[t] : Least(i, scan[t]) /\ Dead(i)
  BY DEF TaskInv, LockOK
<1>3. i = e.id
  BY <1>1, <1>2, LeastUnique DEF TypeOK
<1> QED BY <1>1, <1>2, <1>3 DEF Least

LEMMA ActorTask ==
    ASSUME TypeOK, OwnerInv, IdInv, TaskInv, [Next]_vars, NEW t \in Tasks, TaskStep(t)
    PROVE  LockOK(t)' /\ ObjectOK(t)' /\ LocksKept(t)
<1> USE DEF taskVars, tableVars, Goto, Return
<1>0. /\ pc \in [Tasks -> Pcs] /\ id \in [Tasks -> Ids \union {NoId}]
      /\ op \in [Tasks -> {"append", "start", "stop"}]
      /\ variables \in [Tasks -> Nat] /\ streaming \in [Tasks -> BOOLEAN]
      /\ scan \in [Tasks -> SUBSET Ids] /\ active \in SUBSET Ids
      /\ LockOK(t) /\ ObjectOK(t) /\ (pc[t] \in Owners => id[t] # NoId)
      /\ NoTask \notin Tasks
  BY TaskAssumption DEF TypeOK, TaskInv, OwnerInv
<1> USE DEF LockOK, ObjectOK, Preparing, Making, Holding, Owners
<1>1. CASE \E r : Fails(t, r)
  BY <1>1, FailsTask
<1>2. CASE CreateBlock(t)
  BY <1>0, <1>2 DEF CreateBlock, Called, LocksKept
<1>3. CASE LockActive(t)
  BY <1>0, <1>3 DEF LockActive, LocksKept
<1>4. CASE Scan(t)
  <2>1. PICK i \in scan[t] :
          /\ Least(i, scan[t])
          /\ \/ Alive(i) /\ scan' = [scan EXCEPT ![t] = @ \ {i}] /\ UNCHANGED pc
             \/ ~Alive(i) /\ pc' = [pc EXCEPT ![t] = "lockDelete"] /\ UNCHANGED scan
    BY <1>4 DEF Scan, Least
  <2>2. /\ pc[t] = "scan"
        /\ UNCHANGED <<id, op, variables, streaming, active, activeLock, controlLock>>
    BY <1>4 DEF Scan
  <2>3. ~Alive(i) => Dead(i)
    <3>1. i \in active
      BY <1>0, <2>1, <2>2
    <3>2. ASSUME NEW s \in Tasks, id[s] = i PROVE Holds(s, i)
      <4>1. i # NoId /\ ObjectOK(s)
        BY <1>0, <3>1, IdFacts DEF TaskInv
      <4> QED BY <1>0, <3>1, <3>2, <4>1 DEF Holds, Pcs
    <3> QED BY <3>2 DEF Alive, Dead
  <2>4. ObjectOK(t)' /\ LocksKept(t)
    BY <1>0, <2>1, <2>2 DEF LocksKept
  <2>5. LockOK(t)'
    <3>1. CASE scan' = [scan EXCEPT ![t] = @ \ {i}] /\ UNCHANGED pc
      BY <1>0, <2>2, <3>1
    <3>2. CASE ~Alive(i) /\ pc' = [pc EXCEPT ![t] = "lockDelete"] /\ UNCHANGED scan
      <4>1. Least(i, scan[t]) /\ (Dead(i))'
        BY <2>1, <2>2, <2>3, <3>2 DEF Dead
      <4> QED BY <1>0, <2>1, <2>2, <3>2, <4>1
    <3> QED BY <2>1, <3>1, <3>2
  <2> QED BY <2>4, <2>5
<1>5. CASE SendDelete(t)
  <2>1. /\ pc[t] = "lockDelete" /\ pc' = [pc EXCEPT ![t] = "waitDelete"]
        /\ controlLock = NoTask /\ controlLock' = t
        /\ UNCHANGED <<id, op, variables, streaming, scan, active, activeLock>>
    BY <1>5 DEF SendDelete, TableKept
  <2>2. \A i : Dead(i) => (Dead(i))'
    BY <2>1 DEF Dead
  <2>3. LockOK(t)'
    BY <1>0, <2>1, <2>2
  <2> QED BY <1>0, <2>1, <2>3 DEF LocksKept
<1>6. CASE DeleteAnswered(t)
  <2>1. CASE ~(\E r : Fails(t, r))
    <3>1. /\ pc[t] = "waitDelete" /\ Matches(t, Head(control))
          /\ active' = active \ {Head(control).id}
          /\ scan' = [scan EXCEPT ![t] = @ \ {Head(control).id}]
          /\ controlLock' = NoTask /\ pc' = [pc EXCEPT ![t] = "scan"]
          /\ UNCHANGED <<id, op, variables, streaming, activeLock>>
      BY <1>6, <2>1 DEF DeleteAnswered, Received
    <3>2. Dead(Head(control).id)
      BY <3>1, ExpectedFacts, DeleteFacts DEF Waits
    <3>3. LocksKept(t)
      BY <1>0, <3>1, <3>2 DEF LocksKept, Dead
    <3> QED BY <1>0, <3>1, <3>3
  <2> QED BY <1>1, <2>1
<1>7. CASE CleanupDone(t)
  BY <1>0, <1>7 DEF CleanupDone, DropGuard, LocksKept
<1>8. CASE TakeId(t)
  <2>1. nextId \notin active /\ nextId # NoId
    BY IdFacts DEF IdInv, Used, TypeOK
  <2> QED BY <1>0, <1>8, <2>1 DEF TakeId, LocksKept
<1>9. CASE NoIdLeft(t) \/ SendError(t) \/ WaitFails(t) \/ Cancel(t)
  BY <1>1, <1>9 DEF NoIdLeft, SendError, WaitFails, Cancel
<1>10. CASE SendCreate(t)
  BY <1>0, <1>10 DEF SendCreate, LocksKept
<1>11. CASE CreateAnswered(t)
  BY <1>0, <1>1, <1>11 DEF CreateAnswered, LocksKept
<1>12. CASE Insert(t)
  <2>1. \A s \in Tasks \ {t} : id[s] # id[t]
    BY <1>0, <1>12 DEF Insert, IdInv
  <2> QED BY <1>0, <1>12, <2>1 DEF Insert, LocksKept
<1>13. ASSUME NEW o \in {"append", "start", "stop"}, CallOp(t, o)
       PROVE  LockOK(t)' /\ ObjectOK(t)' /\ LocksKept(t)
  BY <1>0, <1>13 DEF CallOp, Called, LocksKept
<1>14. CASE SendOp(t)
  BY <1>0, <1>14 DEF SendOp, LocksKept
<1>15. CASE OpAnswered(t)
  <2>1. /\ pc[t] = "waitOp" /\ pc' = [pc EXCEPT ![t] = "idle"] /\ controlLock' = NoTask
        /\ UNCHANGED <<op, scan, active, activeLock>>
    BY <1>15 DEF OpAnswered
  <2>2. LockOK(t)' /\ LocksKept(t)
    BY <1>0, <2>1 DEF LocksKept
  <2>3. CASE Forget(t)
    BY <1>0, <2>1, <2>2, <2>3 DEF Forget
  <2>4. CASE id' = id
    BY <1>0, <2>1, <2>2, <2>4
  <2> QED BY <1>15, <2>3, <2>4 DEF OpAnswered
<1>16. CASE Discard(t) \/ NextSample(t) \/ NextError(t)
  <2>1. UNCHANGED <<pc, id, op, variables, streaming, scan, tableVars>>
    BY <1>16 DEF Discard, NextSample, NextError
  <2>2. \A i : Dead(i) => (Dead(i))'
    BY <2>1 DEF Dead
  <2> QED BY <1>0, <2>1, <2>2 DEF LocksKept
<1>17. CASE DropBlock(t)
  BY <1>0, <1>17 DEF DropBlock, Forget, LocksKept
<1> QED
  BY <1>2, <1>3, <1>4, <1>5, <1>6, <1>7, <1>8, <1>9, <1>10, <1>11, <1>12, <1>13,
     <1>14, <1>15, <1>16, <1>17 DEF TaskStep, CallStep, CreateStep

LEMMA NextKinds ==
    ASSUME [Next]_vars
    PROVE  (\E t \in Tasks : TaskStep(t)) \/ OtherStep \/ UNCHANGED vars
  BY DEF Next, TaskStep, OtherStep

LEMMA NextTask ==
    ASSUME TypeOK, OwnerInv, IdInv, TaskInv, [Next]_vars PROVE TaskInv'
<1>1. ASSUME NEW t \in Tasks, TaskStep(t) PROVE TaskInv'
  <2>1. LockOK(t)' /\ ObjectOK(t)' /\ LocksKept(t)
    BY <1>1, ActorTask
  <2>2. ASSUME NEW s \in Tasks \ {t} PROVE LockOK(s)' /\ ObjectOK(s)'
    BY <1>1, <2>1, TaskBystanders, BystanderTask DEF LocksKept
  <2> QED BY <2>1, <2>2 DEF TaskInv
<1>2. ASSUME NEW s \in Tasks, OtherStep \/ UNCHANGED vars PROVE LockOK(s)' /\ ObjectOK(s)'
  <2>1. Bystander(s) /\ UNCHANGED tableVars
    BY <1>2, OtherBystanders DEF vars, taskVars, Bystander
  <2> QED BY <2>1, BystanderTask DEF tableVars
<1> QED BY <1>1, <1>2, NextKinds DEF TaskInv

-----------------------------------------------------------------------------
(* Commands and answers.  A call whose future is dropped leaves its command *)
(* or its answer behind.  An entry is fresh if nothing has been dropped, or *)
(* if it is about the life of a block that a task has.  A fresh entry is    *)
(* what the holder of the lock waits for, and there is at most one.         *)

Fresh(e) == cancels = 0 \/ (e.cmd # "append" /\ ~Dead(e.id))

EntryInv ==
    /\ \A k \in 1..Len(uplink) : Fresh(uplink[k]) => \E t \in Tasks : Current(t, uplink[k])
    /\ \A k \in 1..Len(control) : Fresh(control[k]) => \E t \in Tasks : Current(t, control[k])
    /\ \A k, l \in 1..Len(uplink) : Fresh(uplink[k]) /\ Fresh(uplink[l]) => k = l
    /\ \A k, l \in 1..Len(control) : Fresh(control[k]) /\ Fresh(control[l]) => k = l
    /\ \A k \in 1..Len(uplink), l \in 1..Len(control) :
           ~(Fresh(uplink[k]) /\ Fresh(control[l]))
    /\ \A k \in 1..Len(control) : control[k].id < nextId
    /\ ~connected => uplink = <<>>

Stale ==
    /\ \A k \in 1..Len(uplink) : ~Fresh(uplink[k])
    /\ \A k \in 1..Len(control) : ~Fresh(control[k])

Known == TypeOK /\ OwnerInv /\ IdInv /\ TaskInv

LEMMA InitEntries == Init => EntryInv
<1> SUFFICES ASSUME Init PROVE EntryInv
  OBVIOUS
<1>1. Len(uplink) = 0 /\ Len(control) = 0 /\ connected
  BY EmptyFacts DEF Init
<1> QED BY <1>1 DEF EntryInv

\* The types of what is in the queues, and how far the identifiers go.
LEMMA QueueTypes ==
    ASSUME TypeOK
    PROVE  /\ uplink \in Seq(Requests) /\ control \in Seq(Answers)
           /\ Len(uplink) \in Nat /\ Len(control) \in Nat
           /\ \A k \in 1..Len(uplink) : uplink[k] \in Requests
           /\ \A k \in 1..Len(control) : control[k] \in Answers
           /\ \A e \in Requests \union Answers : e.id \in Ids /\ e.cmd \in Commands
<1>1. uplink \in Seq(Requests) /\ control \in Seq(Answers)
  BY DEF TypeOK
<1>2. \A e \in Requests \union Answers : e.id \in Ids /\ e.cmd \in Commands
  BY DEF Requests, Answers
<1> QED BY <1>1, <1>2, QueueFacts

LEMMA NextIdGrows ==
    ASSUME Known, [Next]_vars PROVE nextId \in Nat /\ nextId' \in Nat /\ nextId <= nextId'
<1> USE DEF Known
<1>0. nextId \in Nat
  BY IdFacts DEF TypeOK
<1>1. CASE UNCHANGED vars
  BY <1>0, <1>1 DEF vars, tableVars
<1>2. ASSUME NEW t \in Tasks, TakeId(t) PROVE nextId' = nextId + 1
  BY <1>2 DEF TakeId, Increment
<1>3. CASE NoNewIds
  BY <1>0, <1>3 DEF NoNewIds
<1> QED BY <1>0, <1>1, <1>2, <1>3, NextCases, CreateIds, CallIds, OtherIds

LEMMA CancelsGrow ==
    ASSUME TypeOK, [Next]_vars, cancels' = 0 PROVE cancels = 0
<1> USE DEF boundVars
<1>1. CASE UNCHANGED vars
  BY <1>1 DEF vars
<1>2. CASE OtherStep
  BY <1>2 DEF OtherStep, Dispatch, DispatchEnd, FwCommand, FwSample, ConnectionEnds
<1>3. ASSUME NEW t \in Tasks, TaskStep(t) PROVE cancels = 0
  <2>1. CASE CreateStep(t)
    BY <2>1 DEF CreateStep, LockActive, Scan, SendDelete, DeleteAnswered, CleanupDone,
       TakeId, NoIdLeft, SendCreate, CreateAnswered, Insert
  <2>2. CASE SendOp(t) \/ OpAnswered(t) \/ SendError(t) \/ Discard(t) \/ WaitFails(t)
    BY <2>2 DEF SendOp, OpAnswered, SendError, Discard, WaitFails
  <2>3. CASE CreateBlock(t) \/ \E o \in {"append", "start", "stop"} : CallOp(t, o)
    BY <2>3 DEF CreateBlock, CallOp, Called
  <2>4. CASE NextSample(t) \/ NextError(t) \/ DropBlock(t)
    BY <2>4 DEF NextSample, NextError, DropBlock
  <2>5. CASE Cancel(t)
    BY <2>5 DEF Cancel, TypeOK
  <2> QED BY <1>3, <2>1, <2>2, <2>3, <2>4, <2>5 DEF TaskStep, CallStep
<1> QED BY <1>1, <1>2, <1>3, NextKinds

\* What is not fresh never becomes so.
LEMMA FreshSteps ==
    ASSUME Known, [Next]_vars,
           NEW e, e.id \in Ids, e.id < nextId, (Fresh(e))'
    PROVE  Fresh(e)
<1>1. Dead(e.id) => (Dead(e.id))'
  <2>1. PICK i : i = e.id
    OBVIOUS
  <2>2. Dead(i) => (Dead(i))'
    BY <2>1, DeadStays DEF Known
  <2> QED BY <2>1, <2>2 DEF Dead
<1> QED BY <1>1, CancelsGrow DEF Fresh, Known

LEMMA NamedBelow ==
    ASSUME Known, EntryInv
    PROVE  /\ \A k \in 1..Len(uplink) : uplink[k].id \in Ids /\ uplink[k].id < nextId
           /\ \A k \in 1..Len(control) : control[k].id \in Ids /\ control[k].id < nextId
<1>1. \A k \in 1..Len(uplink) : uplink[k].id \in Ids /\ Requested(uplink[k].id)
  BY QueueTypes DEF Known, Requested
<1> QED BY <1>1, QueueTypes DEF Known, EntryInv, IdInv, Used

\* The lock of control_downlink tells whose a fresh entry is.
LEMMA HolderFacts ==
    ASSUME Known, EntryInv, NEW e, Fresh(e),
           \/ \E k \in 1..Len(uplink) : e = uplink[k]
           \/ \E k \in 1..Len(control) : e = control[k]
    PROVE  controlLock \in Tasks /\ Waits(controlLock) /\ Current(controlLock, e)
<1>1. PICK t \in Tasks : Current(t, e)
  BY DEF EntryInv
<1>2. Waits(t)
  BY <1>1 DEF Current, Waits
<1>3. controlLock = t
  BY <1>2 DEF Known, TaskInv, LockOK, Waits
<1> QED BY <1>1, <1>2, <1>3

LEMMA FreeStale ==
    ASSUME Known, EntryInv, controlLock = NoTask \/ ~Waits(controlLock) PROVE Stale
  BY HolderFacts, TaskAssumption DEF Stale

\* The rest is stale once a call has its answer.
LEMMA TakenStale ==
    ASSUME Known, EntryInv, NEW t \in Tasks, Waits(t), Received(t)
    PROVE  /\ Head(control) = control[1] /\ 1 \in 1..Len(control) /\ Current(t, control[1])
           /\ Tail(control) \in Seq(Answers) /\ Len(Tail(control)) \in Nat
           /\ \A k \in 1..Len(Tail(control)) :
                  Tail(control)[k] = control[k + 1] /\ k + 1 \in 1..Len(control)
           /\ \A k \in 1..Len(uplink) : ~Fresh(uplink[k])
           /\ \A k \in 1..Len(control) : Fresh(control[k]) => k = 1
<1>1. /\ Head(control) = control[1] /\ 1 \in 1..Len(control)
      /\ Tail(control) \in Seq(Answers) /\ Len(Tail(control)) \in Nat
      /\ \A k \in 1..Len(Tail(control)) :
             Tail(control)[k] = control[k + 1] /\ k + 1 \in 1..Len(control)
  BY QueueFacts DEF Received, Known, TypeOK
<1>2. Current(t, control[1])
  BY <1>1, ExpectedFacts DEF Known, Received
<1>3. controlLock = t
  BY DEF Known, TaskInv, LockOK, Waits
<1>4. ASSUME NEW e, Current(t, e), Fresh(e) PROVE Fresh(control[1])
  <2>1. e.cmd = control[1].cmd
    BY <1>2, <1>4 DEF Current
  <2>2. e.id = control[1].id
    BY <1>2, <1>4, LeastUnique DEF Current, Known, TypeOK
  <2> QED BY <1>4, <2>1, <2>2 DEF Fresh
<1>5. \A k \in 1..Len(uplink) : ~Fresh(uplink[k])
  BY <1>1, <1>3, <1>4, HolderFacts DEF EntryInv
<1>6. \A k \in 1..Len(control) : Fresh(control[k]) => k = 1
  BY <1>1, <1>3, <1>4, HolderFacts DEF EntryInv
<1> QED BY <1>1, <1>2, <1>5, <1>6

\* Entries that stay are still what somebody waits for.
LEMMA EntriesKept ==
    ASSUME Known, EntryInv, [Next]_vars, UNCHANGED <<uplink, control, connected>>,
           \A s \in Tasks, e \in Requests \union Answers :
               Current(s, e) /\ (Fresh(e))' => (Current(s, e))'
    PROVE  EntryInv'
<1>1. ASSUME NEW k \in 1..Len(uplink), (Fresh(uplink[k]))'
      PROVE  Fresh(uplink[k]) /\ \E s \in Tasks : (Current(s, uplink[k]))'
  <2>1. PICK e : e = uplink[k]
    OBVIOUS
  <2>2. e \in Requests /\ e.id \in Ids /\ e.id < nextId
    BY <2>1, NamedBelow, QueueTypes DEF Known
  <2>3. (Fresh(e))'
    BY <1>1, <2>1 DEF Fresh, Dead
  <2>4. Fresh(e)
    BY <2>2, <2>3, FreshSteps
  <2>5. PICK s \in Tasks : Current(s, e)
    BY <2>1, <2>4 DEF EntryInv
  <2>6. (Current(s, e))'
    BY <2>2, <2>3, <2>5
  <2> QED BY <2>1, <2>4, <2>6 DEF Current, Least
<1>2. ASSUME NEW k \in 1..Len(control), (Fresh(control[k]))'
      PROVE  Fresh(control[k]) /\ \E s \in Tasks : (Current(s, control[k]))'
  <2>1. PICK e : e = control[k]
    OBVIOUS
  <2>2. e \in Answers /\ e.id \in Ids /\ e.id < nextId
    BY <2>1, NamedBelow, QueueTypes DEF Known
  <2>3. (Fresh(e))'
    BY <1>2, <2>1 DEF Fresh, Dead
  <2>4. Fresh(e)
    BY <2>2, <2>3, FreshSteps
  <2>5. PICK s \in Tasks : Current(s, e)
    BY <2>1, <2>4 DEF EntryInv
  <2>6. (Current(s, e))'
    BY <2>2, <2>3, <2>5
  <2> QED BY <2>1, <2>4, <2>6 DEF Current, Least
<1>3. \A i \in Ids : i < nextId => i < nextId'
  BY NextIdGrows, IdFacts
<1>4. \A k \in 1..Len(control) : control[k].id < nextId'
  BY <1>3, NamedBelow
<1> QED BY <1>1, <1>2, <1>4 DEF EntryInv

\* No fresh entry, no duty.
LEMMA StaleEntries ==
    ASSUME Stale', ~connected' => uplink' = <<>>,
           \A k \in 1..Len(control') : control'[k].id < nextId'
    PROVE  EntryInv'
  BY DEF Stale, EntryInv

LEMMA SendEntries ==
    ASSUME Known, EntryInv, [Next]_vars, controlLock = NoTask,
           NEW t \in Tasks, NEW x \in Requests,
           IF connected THEN uplink' = Append(uplink, x) ELSE uplink' = uplink,
           UNCHANGED <<control, connected>>, (Current(t, x))'
    PROVE  EntryInv'
<1>1. Stale
  BY FreeStale
<1>2. \A i \in Ids : i < nextId => i < nextId'
  BY NextIdGrows, IdFacts
<1>3. \A k \in 1..Len(control) : control[k].id < nextId' /\ ~(Fresh(control[k]))'
  <2> TAKE k \in 1..Len(control)
  <2>1. PICK e : e = control[k]
    OBVIOUS
  <2>2. e.id \in Ids /\ e.id < nextId /\ ~Fresh(e)
    BY <1>1, <2>1, NamedBelow DEF Stale
  <2>3. ~(Fresh(e))' /\ e.id < nextId'
    BY <1>2, <2>2, FreshSteps
  <2> QED BY <2>1, <2>3 DEF Fresh, Dead
<1>4. ASSUME NEW k \in 1..Len(uplink), uplink'[k] = uplink[k] PROVE ~(Fresh(uplink[k]))'
  <2>1. PICK e : e = uplink[k]
    OBVIOUS
  <2>2. e.id \in Ids /\ e.id < nextId /\ ~Fresh(e)
    BY <1>1, <2>1, NamedBelow DEF Stale
  <2>3. ~(Fresh(e))'
    BY <2>2, FreshSteps
  <2> QED BY <1>4, <2>1, <2>3 DEF Fresh, Dead
<1>5. CASE connected
  <2>1. /\ uplink' = Append(uplink, x) /\ Len(uplink') = Len(uplink) + 1
        /\ uplink'[Len(uplink) + 1] = x
        /\ \A k \in 1..Len(uplink) : uplink'[k] = uplink[k]
        /\ \A k \in 1..Len(uplink') : k \in 1..Len(uplink) \/ k = Len(uplink) + 1
    BY <1>5, QueueTypes, AppendFacts DEF Known
  <2>2. \A k \in 1..Len(uplink') : (Fresh(uplink[k]))' => k = Len(uplink) + 1
    BY <1>4, <2>1
  <2>3. \A k \in 1..Len(uplink') : (Fresh(uplink[k]))' => (Current(t, uplink[k]))'
    BY <2>1, <2>2 DEF Current, Least
  <2> QED BY <1>3, <1>5, <2>2, <2>3 DEF EntryInv
<1>6. CASE ~connected
  <2>1. Stale'
    BY <1>3, <1>4, <1>6 DEF Stale
  <2>2. ~connected' => uplink' = <<>>
    BY <1>6 DEF EntryInv
  <2>3. \A k \in 1..Len(control') : control'[k].id < nextId'
    BY <1>3
  <2> QED BY <2>1, <2>2, <2>3, StaleEntries
<1> QED BY <1>5, <1>6

\* The Crazyflie takes the command r and answers with a.
Served(r, a) ==
    /\ r = Head(uplink) /\ r = uplink[1] /\ 1 \in 1..Len(uplink)
    /\ \A k \in 1..Len(uplink') :
           uplink'[k] = uplink[k + 1] /\ k + 1 \in 1..Len(uplink) /\ k + 1 # 1
    /\ Len(uplink') = Len(uplink) - 1
    /\ a.cmd = r.cmd /\ a.id = r.id /\ a.ok = Accepts(r)
    /\ Len(control') = Len(control) + 1 /\ control'[Len(control) + 1] = a
    /\ \A k \in 1..Len(control) : control'[k] = control[k]
    /\ \A k \in 1..Len(control') : k \in 1..Len(control) \/ k = Len(control) + 1

LEMMA ServedFacts ==
    ASSUME TypeOK, FwCommand
    PROVE  \E r \in Requests, a \in Answers : Served(r, a)
<1>1. PICK r : r = Head(uplink)
  OBVIOUS
<1>2. PICK a : a = [cmd |-> r.cmd, id |-> r.id, ok |-> Accepts(r)]
  OBVIOUS
<1>3. uplink # <<>> /\ uplink' = Tail(uplink) /\ control' = Append(control, a)
  BY <1>1, <1>2 DEF FwCommand
<1>4. /\ r = uplink[1] /\ r \in Requests /\ 1 \in 1..Len(uplink)
      /\ \A k \in 1..Len(uplink') :
             uplink'[k] = uplink[k + 1] /\ k + 1 \in 1..Len(uplink) /\ k + 1 # 1
      /\ Len(uplink') = Len(uplink) - 1
  BY <1>1, <1>3, QueueFacts DEF TypeOK
<1>5. Accepts(r) \in BOOLEAN
  <2>1. CASE r.cmd = "create"
    BY <2>1 DEF Accepts
  <2>2. CASE r.cmd = "append"
    BY <2>2 DEF Accepts
  <2>3. CASE r.cmd # "create" /\ r.cmd # "append"
    <3>1. (Accepts(r) = TRUE) \/ (Accepts(r) = FALSE)
      BY <2>3 DEF Accepts
    <3> QED BY <3>1
  <2> QED BY <2>1, <2>2, <2>3
<1>6. a \in Answers
  BY <1>2, <1>4, <1>5 DEF Answers, Requests
<1>7. /\ Len(control') = Len(control) + 1 /\ control'[Len(control) + 1] = a
      /\ \A k \in 1..Len(control) : control'[k] = control[k]
      /\ \A k \in 1..Len(control') : k \in 1..Len(control) \/ k = Len(control) + 1
  BY <1>3, <1>6, QueueTypes, AppendFacts
<1> QED BY <1>1, <1>2, <1>4, <1>6, <1>7 DEF Served

\* The answer to a fresh entry is fresh, and the only one.
LEMMA AnswerEntries ==
    ASSUME Known, EntryInv, FwCommand PROVE EntryInv'
<1>1. connected /\ connected' = connected /\ UNCHANGED <<pc, id, op, scan, nextId, cancels>>
  BY DEF FwCommand, taskVars, tableVars, boundVars
<1>2. PICK r \in Requests, a \in Answers : Served(r, a)
  BY ServedFacts DEF Known
<1>3. /\ 1 \in 1..Len(uplink) /\ Len(uplink') = Len(uplink) - 1
      /\ \A k \in 1..Len(uplink') :
             uplink'[k] = uplink[k + 1] /\ k + 1 \in 1..Len(uplink) /\ k + 1 # 1
  BY <1>2 DEF Served
<1>4. a.cmd = uplink[1].cmd /\ a.id = uplink[1].id
  BY <1>2 DEF Served
<1>6. /\ Len(control') = Len(control) + 1 /\ control'[Len(control) + 1] = a
      /\ \A k \in 1..Len(control) : control'[k] = control[k]
      /\ \A k \in 1..Len(control') : k \in 1..Len(control) \/ k = Len(control) + 1
  BY <1>2 DEF Served
<1>7. /\ \A k \in 1..Len(uplink') : (Fresh(uplink[k]))' <=> Fresh(uplink[k + 1])
      /\ \A k \in 1..Len(control) : (Fresh(control[k]))' <=> Fresh(control[k])
      /\ \A k \in 1..Len(control') : k = Len(control) + 1 =>
             ((Fresh(control[k]))' <=> Fresh(uplink[1]))
  BY <1>1, <1>3, <1>4, <1>6 DEF Fresh, Dead
<1>8. /\ \A k \in 1..Len(uplink'), s \in Tasks :
             Current(s, uplink[k + 1]) => (Current(s, uplink[k]))'
      /\ \A k \in 1..Len(control), s \in Tasks :
             Current(s, control[k]) => (Current(s, control[k]))'
      /\ \A k \in 1..Len(control'), s \in Tasks : k = Len(control) + 1 =>
             (Current(s, uplink[1]) => (Current(s, control[k]))')
  BY <1>1, <1>3, <1>4, <1>6 DEF Current, Least
<1>9. \A k \in 1..Len(uplink') : (Fresh(uplink[k]))' => \E s \in Tasks : (Current(s, uplink[k]))'
  BY <1>3, <1>7, <1>8 DEF EntryInv
<1>10. \A k \in 1..Len(control') : (Fresh(control[k]))' => \E s \in Tasks : (Current(s, control[k]))'
  BY <1>3, <1>6, <1>7, <1>8 DEF EntryInv
<1>11. ASSUME NEW k \in 1..Len(uplink'), NEW l \in 1..Len(uplink'),
              (Fresh(uplink[k]))', (Fresh(uplink[l]))'
       PROVE  k = l
  <2>1. k + 1 = l + 1
    BY <1>3, <1>7, <1>11 DEF EntryInv
  <2>2. k \in Int /\ l \in Int
    OBVIOUS
  <2> QED BY <2>1, <2>2
<1>12. ASSUME NEW k \in 1..Len(control'), NEW l \in 1..Len(control'),
              (Fresh(control[k]))', (Fresh(control[l]))'
       PROVE  k = l
  BY <1>3, <1>6, <1>7, <1>12 DEF EntryInv
<1>13. \A k \in 1..Len(uplink'), l \in 1..Len(control') :
           ~((Fresh(uplink[k]))' /\ (Fresh(control[l]))')
  BY <1>3, <1>6, <1>7 DEF EntryInv
<1>14. \A k \in 1..Len(control') : control'[k].id < nextId'
  BY <1>1, <1>3, <1>4, <1>6, NamedBelow
<1> QED BY <1>1, <1>9, <1>10, <1>11, <1>12, <1>13, <1>14 DEF EntryInv

LEMMA EndsEntries ==
    ASSUME Known, EntryInv, ConnectionEnds PROVE EntryInv'
<1>1. PICK n \in 0..Len(control) : control' = SubSeq(control, 1, n)
  BY DEF ConnectionEnds
<1>2. uplink' = <<>> /\ UNCHANGED <<pc, id, op, scan, nextId, cancels>>
  BY DEF ConnectionEnds, taskVars, tableVars, boundVars
<1>3. Len(uplink') = 0
  BY <1>2, EmptyFacts
<1>4. Len(control') = n /\ \A k \in 1..Len(control') : control'[k] = control[k] /\ k \in 1..Len(control)
  BY <1>1, QueueTypes, PrefixFacts DEF Known
<1>5. \A k \in 1..Len(control') : (Fresh(control[k]))' <=> Fresh(control[k])
  BY <1>2, <1>4 DEF Fresh, Dead
<1>6. \A k \in 1..Len(control'), s \in Tasks : Current(s, control[k]) => (Current(s, control[k]))'
  BY <1>2, <1>4 DEF Current, Least
<1> QED BY <1>2, <1>3, <1>4, <1>5, <1>6 DEF EntryInv

\* A call that takes its answer leaves nothing fresh.
LEMMA TakenEntries ==
    ASSUME Known, EntryInv, [Next]_vars, NEW t \in Tasks, Waits(t), Received(t),
           UNCHANGED <<uplink, connected>>
    PROVE  EntryInv'
<1>1. control' = Tail(control)
  BY DEF Received
<1>2. \A i \in Ids : i < nextId => i < nextId'
  BY NextIdGrows, IdFacts
<1>3. ASSUME NEW k \in 1..Len(control') PROVE ~(Fresh(control[k]))' /\ control'[k].id < nextId'
  <2>1. k + 1 \in 1..Len(control) /\ k + 1 # 1 /\ control'[k] = control[k + 1]
    BY <1>1, <1>3, TakenStale
  <2>2. PICK e : e = control[k + 1]
    OBVIOUS
  <2>3. e.id \in Ids /\ e.id < nextId /\ ~Fresh(e)
    BY <2>1, <2>2, NamedBelow, TakenStale
  <2>4. ~(Fresh(e))' /\ e.id < nextId'
    BY <1>2, <2>3, FreshSteps
  <2> QED BY <2>1, <2>2, <2>4 DEF Fresh, Dead
<1>4. ASSUME NEW k \in 1..Len(uplink') PROVE ~(Fresh(uplink[k]))'
  <2>1. PICK e : e = uplink[k]
    OBVIOUS
  <2>2. e.id \in Ids /\ e.id < nextId /\ ~Fresh(e)
    BY <2>1, NamedBelow, TakenStale
  <2>3. ~(Fresh(e))'
    BY <2>2, FreshSteps
  <2> QED BY <2>1, <2>3 DEF Fresh, Dead
<1>5. Stale'
  BY <1>3, <1>4 DEF Stale
<1>6. ~connected' => uplink' = <<>>
  BY DEF EntryInv
<1> QED BY <1>3, <1>5, <1>6, StaleEntries

LEMMA DiscardEntries ==
    ASSUME Known, EntryInv, NEW t \in Tasks, Discard(t) PROVE EntryInv'
<1>1. /\ control # <<>> /\ control' = Tail(control) /\ uplink' = uplink /\ connected' = connected
      /\ UNCHANGED <<pc, id, op, scan, nextId, cancels>>
  BY DEF Discard, taskVars, tableVars, boundVars
<1>2. /\ Len(control') = Len(control) - 1
      /\ \A k \in 1..Len(control') : control'[k] = control[k + 1] /\ k + 1 \in 1..Len(control)
  BY <1>1, QueueFacts DEF Known, TypeOK
<1>3. /\ \A k \in 1..Len(uplink') : (Fresh(uplink[k]))' <=> Fresh(uplink[k])
      /\ \A k \in 1..Len(control') : (Fresh(control[k]))' <=> Fresh(control[k + 1])
  BY <1>1, <1>2 DEF Fresh, Dead
<1>4. /\ \A k \in 1..Len(uplink'), s \in Tasks : Current(s, uplink[k]) => (Current(s, uplink[k]))'
      /\ \A k \in 1..Len(control'), s \in Tasks :
             Current(s, control[k + 1]) => (Current(s, control[k]))'
  BY <1>1, <1>2 DEF Current, Least
<1>5. ASSUME NEW k \in 1..Len(control'), NEW l \in 1..Len(control'),
             (Fresh(control[k]))', (Fresh(control[l]))'
      PROVE  k = l
  <2>1. k + 1 = l + 1
    BY <1>2, <1>3, <1>5 DEF EntryInv
  <2>2. k \in Int /\ l \in Int
    OBVIOUS
  <2> QED BY <2>1, <2>2
<1>6. \A k \in 1..Len(control') : (Fresh(control[k]))' => \E s \in Tasks : (Current(s, control[k]))'
  BY <1>2, <1>3, <1>4 DEF EntryInv
<1>7. \A k \in 1..Len(uplink') : (Fresh(uplink[k]))' => \E s \in Tasks : (Current(s, uplink[k]))'
  BY <1>1, <1>3, <1>4 DEF EntryInv
<1>8. \A k \in 1..Len(uplink'), l \in 1..Len(control') :
           ~((Fresh(uplink[k]))' /\ (Fresh(control[l]))')
  BY <1>1, <1>2, <1>3 DEF EntryInv
<1>9. \A k \in 1..Len(control') : control'[k].id < nextId'
  BY <1>1, <1>2, NamedBelow
<1>10. \A k, l \in 1..Len(uplink') : (Fresh(uplink[k]))' /\ (Fresh(uplink[l]))' => k = l
  BY <1>1, <1>3 DEF EntryInv
<1> QED BY <1>1, <1>5, <1>6, <1>7, <1>8, <1>9, <1>10 DEF EntryInv

LEMMA CurrentKept ==
    ASSUME NEW s \in Tasks, Bystander(s), NEW e, Current(s, e) PROVE (Current(s, e))'
  BY DEF Bystander, Current, Least

\* A step of a task that waits for nothing.
LEMMA IdleEntries ==
    ASSUME Known, EntryInv, [Next]_vars, NEW t \in Tasks, TaskStep(t), ~Waits(t),
           UNCHANGED <<uplink, control, connected>>
    PROVE  EntryInv'
<1>1. ASSUME NEW s \in Tasks, NEW e, Current(s, e) PROVE (Current(s, e))'
  <2>1. s # t
    BY <1>1 DEF Current, Waits
  <2> QED BY <1>1, <2>1, TaskBystanders, CurrentKept DEF Known
<1> QED BY <1>1, EntriesKept

\* A dropped future leaves a stale entry: what it has made or started is not
\* its own any more, and what it deletes was nobody's.
LEMMA CancelEntries ==
    ASSUME Known, EntryInv, [Next]_vars, NEW t \in Tasks, Cancel(t) PROVE EntryInv'
<1>1. UNCHANGED <<uplink, control, connected>> /\ cancels' # 0 /\ Fails(t, "error")
  BY DEF Cancel, wireVars, Known, TypeOK
<1>2. ASSUME NEW s \in Tasks, NEW e \in Requests \union Answers, Current(s, e), (Fresh(e))'
      PROVE  (Current(s, e))'
  <2>1. e.cmd # "append" /\ ~(Dead(e.id))'
    BY <1>1, <1>2 DEF Fresh
  <2>2. CASE s # t
    BY <1>2, <2>2, TaskBystanders, CurrentKept DEF Known, TaskStep
  <2>3. CASE s = t /\ pc[t] = "waitDelete"
    <3>1. Dead(e.id) /\ e.id \in scan[t]
      BY <1>2, <2>3, DeleteFacts DEF Known
    <3>2. PICK i : i = e.id
      OBVIOUS
    <3>3. (Dead(i))'
      BY <3>1, <3>2, ScanDead DEF Known
    <3> QED BY <2>1, <3>2, <3>3 DEF Dead
  <2>4. CASE s = t /\ pc[t] # "waitDelete"
    <3>1. pc[t] \in {"waitCreate", "waitOp"} /\ e.id = id[t] /\ id[t] # NoId
          /\ (pc[t] = "waitOp" => op[t] # "append")
      BY <1>2, <2>1, <2>4 DEF Current, Known, OwnerInv, Owners
    <3>2. id' = [id EXCEPT ![t] = NoId]
      BY <1>1, <3>1 DEF Fails, Forget, Owning
    <3>3. \A r \in Tasks : id'[r] # e.id
      BY <3>1, <3>2 DEF Known, IdInv, TypeOK
    <3> QED BY <2>1, <3>3 DEF Dead
  <2> QED BY <2>2, <2>3, <2>4
<1> QED BY <1>1, <1>2, EntriesKept

LEMMA NextEntries ==
    ASSUME Known, EntryInv, [Next]_vars PROVE EntryInv'
<1> USE DEF wireVars
<1>1. CASE UNCHANGED vars
  <2>1. \A s \in Tasks : Bystander(s)
    BY <1>1 DEF vars, taskVars, Bystander
  <2> QED BY <1>1, <2>1, CurrentKept, EntriesKept DEF vars
<1>2. CASE OtherStep
  <2>1. \A s \in Tasks : Bystander(s)
    BY <1>2, OtherBystanders
  <2>2. CASE Dispatch \/ DispatchEnd \/ \E i \in Ids : FwSample(i)
    <3>1. UNCHANGED <<uplink, control, connected>>
      BY <2>2 DEF Dispatch, DispatchEnd, FwSample
    <3> QED BY <2>1, <3>1, CurrentKept, EntriesKept
  <2> QED BY <1>2, <2>2, AnswerEntries, EndsEntries DEF OtherStep
<1>3. ASSUME NEW t \in Tasks, TaskStep(t) PROVE EntryInv'
  <2> USE DEF Goto
  <2>0. /\ pc \in [Tasks -> Pcs] /\ id \in [Tasks -> Ids \union {NoId}]
        /\ op \in [Tasks -> {"append", "start", "stop"}] /\ scan \in [Tasks -> SUBSET Ids]
        /\ (pc[t] \in Owners => id[t] # NoId)
    BY DEF Known, TypeOK, OwnerInv
  <2>1. CASE SendDelete(t)
    <3>1. PICK i \in scan[t] : Least(i, scan[t]) /\ SendOk("delete", i)
      BY <2>1 DEF SendDelete, Least
    <3>2. PICK x : x = [cmd |-> "delete", id |-> i]
      OBVIOUS
    <3>3. x \in Requests /\ x.cmd = "delete" /\ x.id = i
      BY <2>0, <3>2 DEF Requests, Commands
    <3>4. (Current(t, x))'
      BY <2>0, <2>1, <3>1, <3>3 DEF SendDelete, Current, Least
    <3> QED BY <2>1, <3>1, <3>2, <3>3, <3>4, SendEntries DEF SendDelete, SendOk
  <2>2. CASE SendCreate(t)
    <3>1. PICK x : x = [cmd |-> "create", id |-> id[t]]
      OBVIOUS
    <3>2. x \in Requests /\ x.cmd = "create" /\ x.id = id[t]
      BY <2>0, <2>2, <3>1 DEF Requests, Commands, SendCreate, Owners
    <3>3. (Current(t, x))'
      BY <2>0, <2>2, <3>2 DEF SendCreate, Current
    <3> QED BY <2>2, <3>1, <3>2, <3>3, SendEntries DEF SendCreate, SendOk
  <2>3. CASE SendOp(t)
    <3>1. PICK x : x = [cmd |-> op[t], id |-> id[t]]
      OBVIOUS
    <3>2. x \in Requests /\ x.cmd = op[t] /\ x.id = id[t]
      BY <2>0, <2>3, <3>1 DEF Requests, Commands, SendOp, Owners
    <3>3. (Current(t, x))'
      BY <2>0, <2>3, <3>2 DEF SendOp, Current
    <3> QED BY <2>3, <3>1, <3>2, <3>3, SendEntries DEF SendOp, SendOk
  <2>4. CASE DeleteAnswered(t) \/ CreateAnswered(t) \/ OpAnswered(t)
    <3>1. Waits(t) /\ Received(t) /\ UNCHANGED <<uplink, connected>>
      BY <2>4 DEF DeleteAnswered, CreateAnswered, OpAnswered, Waits
    <3> QED BY <3>1, TakenEntries
  <2>5. CASE WaitFails(t)
    <3>1. control' = <<>> /\ uplink' = <<>> /\ Len(control') = 0 /\ Len(uplink') = 0
      BY <2>5, EmptyFacts DEF WaitFails, EntryInv
    <3> QED BY <3>1 DEF EntryInv
  <2>6. CASE ~Waits(t) /\ UNCHANGED <<uplink, control, connected>>
    BY <1>3, <2>6, IdleEntries
  <2>7. CASE \/ CreateBlock(t) \/ LockActive(t) \/ Scan(t) \/ CleanupDone(t)
             \/ TakeId(t) \/ NoIdLeft(t) \/ Insert(t)
    BY <2>6, <2>7 DEF CreateBlock, Called, LockActive, Scan, CleanupDone, TakeId,
       NoIdLeft, Insert, Waits
  <2>8. CASE \/ SendError(t) \/ NextSample(t) \/ NextError(t) \/ DropBlock(t)
             \/ \E o \in {"append", "start", "stop"} : CallOp(t, o)
    BY <2>6, <2>8 DEF SendError, NextSample, NextError, DropBlock, CallOp, Called, Waits
  <2> QED
    BY <1>3, <2>1, <2>2, <2>3, <2>4, <2>5, <2>7, <2>8, CancelEntries, DiscardEntries
       DEF TaskStep, CallStep, CreateStep
<1> QED BY <1>1, <1>2, <1>3, NextKinds

-----------------------------------------------------------------------------
(* The blocks in the Crazyflie.  The block of an object is there and is what *)
(* the object is, unless a start or a stop of the object itself is under     *)
(* way; the answer a call waits for says what has become of the block.       *)

AnswerOK(t, e) ==
    /\ pc[t] = "waitCreate" => fw[id[t]] = IF e.ok THEN "idle" ELSE "absent"
    /\ pc[t] = "waitOp" /\ op[t] # "append" /\ e.ok =>
           (op[t] = "start" <=> fw[id[t]] = "started")

WireOK(t) ==
    /\ \A k \in 1..Len(uplink) :
           Fresh(uplink[k]) /\ pc[t] = "waitCreate" => fw[id[t]] = "absent"
    /\ \A k \in 1..Len(control) : Fresh(control[k]) => AnswerOK(t, control[k])

BlockOK(t) ==
    /\ pc[t] = "insert" => fw[id[t]] = "idle"
    /\ pc[t] \in Holding /\ id[t] # NoId =>
        /\ fw[id[t]] # "absent"
        /\ pc[t] # "waitOp" \/ op[t] = "append" => (streaming[t] <=> fw[id[t]] = "started")

BlockInv == \A t \in Tasks : WireOK(t) /\ BlockOK(t)

LEMMA InitBlocks == Init => BlockInv
<1> SUFFICES ASSUME Init PROVE BlockInv
  OBVIOUS
<1>1. Len(uplink) = 0 /\ Len(control) = 0
  BY EmptyFacts DEF Init
<1> QED BY <1>1 DEF Init, BlockInv, WireOK, BlockOK

\* While a task waits for an answer no other task touches the queues.
LEMMA QuietQueues ==
    ASSUME Known, NEW t \in Tasks, TaskStep(t), NEW s \in Tasks \ {t}, Waits(s)
    PROVE  UNCHANGED <<uplink, control>>
<1> USE DEF wireVars
<1>1. controlLock = s /\ controlLock # NoTask
  BY TaskAssumption DEF Known, TaskInv, LockOK, Waits
<1>2. ~Waits(t)
  BY <1>1 DEF Known, TaskInv, LockOK, Waits
<1>3. CASE CreateStep(t)
  BY <1>1, <1>2, <1>3 DEF CreateStep, LockActive, Scan, SendDelete, DeleteAnswered,
     CleanupDone, TakeId, NoIdLeft, SendCreate, CreateAnswered, Insert, Waits
<1>4. CASE SendOp(t) \/ OpAnswered(t) \/ SendError(t) \/ Discard(t) \/ WaitFails(t)
  BY <1>1, <1>2, <1>4 DEF SendOp, OpAnswered, SendError, Discard, WaitFails, Waits
<1>5. CASE CreateBlock(t) \/ \E o \in {"append", "start", "stop"} : CallOp(t, o)
  BY <1>5 DEF CreateBlock, CallOp
<1>6. CASE NextSample(t) \/ NextError(t) \/ DropBlock(t) \/ Cancel(t)
  BY <1>6 DEF NextSample, NextError, DropBlock, Cancel
<1> QED BY <1>3, <1>4, <1>5, <1>6 DEF TaskStep, CallStep

\* What was fresh or not in a queue that stays.
LEMMA FreshKept ==
    ASSUME Known, EntryInv, [Next]_vars
    PROVE  /\ uplink' = uplink =>
                  \A k \in 1..Len(uplink') : (Fresh(uplink[k]))' => Fresh(uplink[k])
           /\ control' = control =>
                  \A k \in 1..Len(control') : (Fresh(control[k]))' => Fresh(control[k])
<1>1. ASSUME uplink' = uplink, NEW k \in 1..Len(uplink'), (Fresh(uplink[k]))'
      PROVE  Fresh(uplink[k])
  <2>1. PICK e : e = uplink[k]
    OBVIOUS
  <2>2. e.id \in Ids /\ e.id < nextId
    BY <1>1, <2>1, NamedBelow
  <2>3. (Fresh(e))'
    BY <1>1, <2>1 DEF Fresh, Dead
  <2> QED BY <2>1, <2>2, <2>3, FreshSteps
<1>2. ASSUME control' = control, NEW k \in 1..Len(control'), (Fresh(control[k]))'
      PROVE  Fresh(control[k])
  <2>1. PICK e : e = control[k]
    OBVIOUS
  <2>2. e.id \in Ids /\ e.id < nextId
    BY <1>2, <2>1, NamedBelow
  <2>3. (Fresh(e))'
    BY <1>2, <2>1 DEF Fresh, Dead
  <2> QED BY <2>1, <2>2, <2>3, FreshSteps
<1> QED BY <1>1, <1>2

LEMMA BystanderBlock ==
    ASSUME Known, EntryInv, BlockInv, [Next]_vars, NEW s \in Tasks, Bystander(s),
           fw' = fw, Waits(s) => UNCHANGED <<uplink, control>>
    PROVE  WireOK(s)' /\ BlockOK(s)'
<1>1. WireOK(s) /\ BlockOK(s)
  BY DEF BlockInv
<1>2. BlockOK(s)'
  BY <1>1 DEF BlockOK, Bystander
<1>3. CASE Waits(s)
  <2>1. \A k \in 1..Len(uplink') : (Fresh(uplink[k]))' => Fresh(uplink[k])
    BY <1>3, FreshKept
  <2>2. \A k \in 1..Len(control') : (Fresh(control[k]))' => Fresh(control[k])
    BY <1>3, FreshKept
  <2>3. /\ UNCHANGED <<uplink, control, fw>>
        /\ pc'[s] = pc[s] /\ id'[s] = id[s] /\ op'[s] = op[s]
    BY <1>3 DEF Bystander
  <2>4. \A k \in 1..Len(uplink') : (Fresh(uplink[k]))' /\ pc'[s] = "waitCreate" => fw'[id'[s]] = "absent"
    BY <1>1, <2>1, <2>3 DEF WireOK
  <2>5. \A k \in 1..Len(control') : (Fresh(control[k]))' => (AnswerOK(s, control[k]))'
    BY <1>1, <2>2, <2>3 DEF WireOK, AnswerOK
  <2>6. WireOK(s)'
    BY <2>4, <2>5 DEF WireOK
  <2> QED BY <1>2, <2>6
<1>4. CASE ~Waits(s)
  <2>1. pc'[s] \notin {"waitCreate", "waitOp"}
    BY <1>4 DEF Bystander, Waits
  <2>2. WireOK(s)'
    BY <2>1 DEF WireOK, AnswerOK
  <2> QED BY <1>2, <2>2
<1> QED BY <1>3, <1>4

\* A call that comes to its end, or moves on to another lock.
LEMMA FailsBlock ==
    ASSUME Known, BlockInv, NEW t \in Tasks, NEW r, Fails(t, r), fw' = fw
    PROVE  WireOK(t)' /\ BlockOK(t)'
<1>1. pc'[t] = "idle" /\ op' = op
  BY DEF Fails, Return, Goto, Known, TypeOK
<1>2. WireOK(t)'
  BY <1>1 DEF WireOK, AnswerOK
<1>3. CASE Owning(t)
  <2>1. id'[t] = NoId
    BY <1>3 DEF Fails, Forget, Known, TypeOK
  <2> QED BY <1>1, <1>2, <2>1 DEF BlockOK
<1>4. CASE ~Owning(t)
  <2>1. pc[t] \in {"lockOp", "waitOp"} /\ op[t] = "append" /\ UNCHANGED <<id, streaming>>
    BY <1>4 DEF Owning, Fails
  <2>2. BlockOK(t)
    BY DEF BlockInv
  <2> QED BY <1>1, <1>2, <2>1, <2>2 DEF BlockOK, Holding
<1> QED BY <1>3, <1>4

\* A task changes nothing in the Crazyflie by itself.
LEMMA TaskFirmware ==
    ASSUME NEW t \in Tasks, TaskStep(t) PROVE UNCHANGED <<fw, fwVars, connected>>
<1> USE DEF wireVars, fwVarsAll
<1>1. CASE CreateStep(t)
  BY <1>1 DEF CreateStep, LockActive, Scan, SendDelete, DeleteAnswered,
     CleanupDone, TakeId, NoIdLeft, SendCreate, CreateAnswered, Insert
<1>2. CASE SendOp(t) \/ OpAnswered(t) \/ SendError(t) \/ Discard(t) \/ WaitFails(t)
  BY <1>2 DEF SendOp, OpAnswered, SendError, Discard, WaitFails
<1>3. CASE CreateBlock(t) \/ \E o \in {"append", "start", "stop"} : CallOp(t, o)
  BY <1>3 DEF CreateBlock, CallOp
<1>4. CASE NextSample(t) \/ NextError(t) \/ DropBlock(t) \/ Cancel(t)
  BY <1>4 DEF NextSample, NextError, DropBlock, Cancel
<1> QED BY <1>1, <1>2, <1>3, <1>4 DEF TaskStep, CallStep

LEMMA ActorBlock ==
    ASSUME Known, EntryInv, BlockInv, [Next]_vars, NEW t \in Tasks, TaskStep(t)
    PROVE  fw' = fw /\ WireOK(t)' /\ BlockOK(t)'
<1> USE DEF taskVars, tableVars, wireVars, fwVarsAll, Goto, Return
<1>0. /\ pc \in [Tasks -> Pcs] /\ id \in [Tasks -> Ids \union {NoId}]
      /\ op \in [Tasks -> {"append", "start", "stop"}]
      /\ streaming \in [Tasks -> BOOLEAN] /\ fw \in [Ids -> {"absent", "idle", "started"}]
      /\ ObjectOK(t) /\ (pc[t] \in Owners => id[t] # NoId)
      /\ WireOK(t) /\ BlockOK(t)
  BY DEF Known, TypeOK, TaskInv, OwnerInv, BlockInv
<1>1. fw' = fw
  BY TaskFirmware
<1>2. ASSUME pc'[t] \notin {"waitCreate", "waitOp"} PROVE WireOK(t)'
  BY <1>2 DEF WireOK, AnswerOK
<1>3. CASE \E r : Fails(t, r)
  BY <1>1, <1>3, FailsBlock
<1>4. CASE \/ CreateBlock(t) \/ LockActive(t) \/ Scan(t) \/ SendDelete(t)
           \/ CleanupDone(t) \/ TakeId(t)
  <2>1. pc'[t] \in {"lockActive", "scan", "lockDelete", "waitDelete", "takeId", "lockCreate"}
    BY <1>0, <1>4 DEF CreateBlock, LockActive, Scan, SendDelete, CleanupDone, TakeId
  <2> QED BY <1>1, <1>2, <2>1 DEF BlockOK, Holding
<1>5. CASE DeleteAnswered(t)
  <2>1. CASE ~(\E r : Fails(t, r))
    <3>1. pc'[t] = "scan"
      BY <1>0, <1>5, <2>1 DEF DeleteAnswered
    <3> QED BY <1>1, <1>2, <3>1 DEF BlockOK, Holding
  <2> QED BY <1>3, <2>1
<1>6. CASE NoIdLeft(t) \/ SendError(t) \/ WaitFails(t) \/ Cancel(t)
  BY <1>3, <1>6 DEF NoIdLeft, SendError, WaitFails, Cancel
<1>7. CASE SendCreate(t)
  <2>1. pc'[t] = "waitCreate" /\ pc[t] = "lockCreate" /\ id' = id /\ control' = control
        /\ controlLock = NoTask
    BY <1>0, <1>7 DEF SendCreate
  <2>2. fw[id[t]] = "absent"
    BY <1>0, <2>1 DEF Known, IdInv, Used, Blocks, Owners
  <2>3. \A k \in 1..Len(control') : ~(Fresh(control[k]))'
    BY <2>1, FreeStale, FreshKept DEF Stale
  <2> QED BY <1>1, <2>1, <2>2, <2>3 DEF WireOK, BlockOK, Holding
<1>8. CASE CreateAnswered(t)
  <2>1. CASE ~(\E r : Fails(t, r))
    <3>1. pc'[t] = "insert" /\ id' = id /\ pc[t] = "waitCreate" /\ Received(t) /\ Head(control).ok
      BY <1>0, <1>8, <2>1 DEF CreateAnswered
    <3>2. Head(control) = control[1] /\ 1 \in 1..Len(control) /\ Current(t, control[1])
      BY <3>1, TakenStale DEF Waits
    <3>3. Fresh(control[1])
      BY <3>1, <3>2 DEF Current, Fresh, Dead
    <3>4. fw[id[t]] = "idle"
      BY <1>0, <3>1, <3>2, <3>3 DEF WireOK, AnswerOK
    <3> QED BY <1>1, <1>2, <3>1, <3>4 DEF BlockOK, Holding
  <2> QED BY <1>3, <2>1
<1>9. CASE Insert(t)
  <2>1. pc'[t] = "idle" /\ pc[t] = "insert" /\ UNCHANGED <<id, streaming>>
    BY <1>0, <1>9 DEF Insert
  <2>2. fw[id[t]] = "idle" /\ ~streaming[t]
    BY <1>0, <2>1 DEF BlockOK, ObjectOK, Making
  <2> QED BY <1>1, <1>2, <2>1, <2>2 DEF BlockOK, Holding
<1>10. ASSUME NEW o \in {"append", "start", "stop"}, CallOp(t, o)
       PROVE  WireOK(t)' /\ BlockOK(t)'
  <2>1. pc'[t] = "lockOp" /\ pc[t] = "idle" /\ UNCHANGED <<id, streaming>>
    BY <1>0, <1>10 DEF CallOp, Called
  <2> QED BY <1>0, <1>1, <1>2, <2>1 DEF BlockOK, Holding
<1>11. CASE SendOp(t)
  <2>1. pc'[t] = "waitOp" /\ pc[t] = "lockOp" /\ control' = control
        /\ UNCHANGED <<id, op, streaming>> /\ controlLock = NoTask
    BY <1>0, <1>11 DEF SendOp
  <2>2. \A k \in 1..Len(control') : ~(Fresh(control[k]))'
    BY <2>1, FreeStale, FreshKept DEF Stale
  <2> QED BY <1>0, <1>1, <2>1, <2>2 DEF WireOK, BlockOK, Holding
<1>12. CASE OpAnswered(t)
  <2>1. pc'[t] = "idle" /\ pc[t] = "waitOp" /\ Received(t) /\ id[t] # NoId
    BY <1>0, <1>12 DEF OpAnswered, Owners
  <2>2. CASE id'[t] = NoId
    BY <1>1, <1>2, <2>1, <2>2 DEF BlockOK
  <2>3. CASE id'[t] # NoId
    <3>1. /\ Head(control).ok \/ op[t] = "append"
          /\ streaming' = [streaming EXCEPT ![t] = op[t] = "start"] /\ id' = id
      BY <1>0, <1>12, <2>3 DEF OpAnswered, Forget
    <3>2. fw[id[t]] # "absent" /\ streaming'[t] = (op[t] = "start")
      BY <1>0, <2>1, <3>1 DEF BlockOK, Holding
    <3>3. op[t] = "start" <=> fw[id[t]] = "started"
      <4>1. CASE op[t] = "append"
        BY <1>0, <2>1, <4>1 DEF BlockOK, ObjectOK, Holding
      <4>2. CASE op[t] # "append"
        <5>1. Head(control) = control[1] /\ 1 \in 1..Len(control) /\ Current(t, control[1])
          BY <2>1, TakenStale DEF Waits
        <5>2. Fresh(control[1])
          BY <2>1, <4>2, <5>1 DEF Current, Fresh, Dead
        <5> QED BY <1>0, <2>1, <3>1, <4>2, <5>1, <5>2 DEF WireOK, AnswerOK
      <4> QED BY <4>1, <4>2
    <3> QED BY <1>1, <1>2, <2>1, <3>1, <3>2, <3>3 DEF BlockOK
  <2> QED BY <2>2, <2>3
<1>13. CASE Discard(t)
  <2>1. UNCHANGED <<pc, id, op, streaming, uplink, scan, cancels>> /\ control' = Tail(control)
        /\ control # <<>>
    BY <1>13 DEF Discard, boundVars
  <2>2. \A k \in 1..Len(control') : control'[k] = control[k + 1] /\ k + 1 \in 1..Len(control)
    BY <2>1, QueueFacts DEF Known, TypeOK
  <2>3. \A k \in 1..Len(control') : (Fresh(control[k]))' <=> Fresh(control[k + 1])
    BY <2>1, <2>2 DEF Fresh, Dead
  <2>4. WireOK(t)'
    <3>1. \A k \in 1..Len(control') : (Fresh(control[k]))' => (AnswerOK(t, control[k]))'
      BY <1>0, <1>1, <2>1, <2>2, <2>3 DEF WireOK, AnswerOK
    <3>2. \A k \in 1..Len(uplink') : (Fresh(uplink[k]))' => Fresh(uplink[k])
      BY <2>1, FreshKept
    <3> QED BY <1>0, <1>1, <2>1, <3>1, <3>2 DEF WireOK
  <2> QED BY <1>0, <1>1, <2>1, <2>4 DEF BlockOK
<1>14. CASE NextSample(t) \/ NextError(t)
  <2>1. UNCHANGED <<pc, id, op, streaming>> /\ pc[t] = "idle"
    BY <1>14 DEF NextSample, NextError
  <2> QED BY <1>0, <1>1, <1>2, <2>1 DEF BlockOK
<1>15. CASE DropBlock(t)
  <2>1. pc'[t] = "idle" /\ id'[t] = NoId
    BY <1>0, <1>15 DEF DropBlock, Forget
  <2> QED BY <1>1, <1>2, <2>1 DEF BlockOK
<1> QED
  BY <1>1, <1>4, <1>5, <1>6, <1>7, <1>8, <1>9, <1>10, <1>11, <1>12, <1>13, <1>14, <1>15
     DEF TaskStep, CallStep, CreateStep

\* The Crazyflie carries out a command: it touches the block of the one task
\* that waits for it, or none.
LEMMA AnswerBlocks ==
    ASSUME Known, EntryInv, BlockInv, FwCommand PROVE BlockInv'
<1>1. UNCHANGED <<pc, id, op, streaming, cancels>>
  BY DEF FwCommand, taskVars, boundVars
<1>2. PICK r \in Requests, a \in Answers : Served(r, a)
  BY ServedFacts DEF Known
<1>3. /\ r = Head(uplink) /\ r = uplink[1] /\ 1 \in 1..Len(uplink)
      /\ \A k \in 1..Len(uplink') :
             uplink'[k] = uplink[k + 1] /\ k + 1 \in 1..Len(uplink) /\ k + 1 # 1
  BY <1>2 DEF Served
<1>4. /\ a.cmd = r.cmd /\ a.id = r.id /\ a.ok = Accepts(r)
      /\ Len(control') = Len(control) + 1 /\ control'[Len(control) + 1] = a
      /\ \A k \in 1..Len(control) : control'[k] = control[k]
      /\ \A k \in 1..Len(control') : k \in 1..Len(control) \/ k = Len(control) + 1
  BY <1>2 DEF Served
<1>5. fw' = [fw EXCEPT ![r.id] =
               IF ~Accepts(r) THEN @
               ELSE CASE r.cmd = "delete" -> "absent"
                      [] r.cmd = "start" -> "started"
                      [] r.cmd \in {"create", "stop"} -> "idle"
                      [] r.cmd = "append" -> @]
  BY <1>3 DEF FwCommand
<1>6. fw \in [Ids -> {"absent", "idle", "started"}] /\ r.id \in Ids /\ r.cmd \in Commands
      /\ \A s \in Tasks : id[s] # NoId => id[s] \in Ids
  BY DEF Known, TypeOK, Requests
<1> DEFINE Touched(s) == pc[s] \in {"waitCreate", "waitOp"} /\ r.cmd # "append" /\ Current(s, r)
<1>7. ASSUME NEW s \in Tasks, Touched(s)
      PROVE  id[s] = r.id /\ Fresh(r) /\ controlLock = s
  <2>1. id[s] = r.id
    BY <1>7 DEF Current
  <2> QED BY <1>7, <2>1 DEF Fresh, Dead, Known, TaskInv, LockOK
<1>8. ASSUME NEW s \in Tasks, id[s] # NoId, ~Touched(s) PROVE fw'[id[s]] = fw[id[s]]
  <2>1. CASE id[s] # r.id
    BY <1>5, <1>6, <1>8, <2>1
  <2>2. CASE r.cmd = "append"
    BY <1>5, <1>6, <1>8, <2>2
  <2>3. CASE id[s] = r.id /\ r.cmd # "append"
    <3>1. Fresh(r) /\ ~Dead(r.id)
      BY <2>3 DEF Fresh, Dead
    <3>2. controlLock \in Tasks /\ Waits(controlLock) /\ Current(controlLock, r)
      BY <1>3, <3>1, HolderFacts
    <3>3. pc[controlLock] # "waitDelete"
      BY <3>1, <3>2, DeleteFacts DEF Known
    <3>4. id[controlLock] = r.id
      BY <3>2, <3>3 DEF Current
    <3>5. controlLock = s
      BY <1>8, <2>3, <3>2, <3>4 DEF Known, IdInv
    <3> QED BY <1>8, <2>3, <3>2, <3>3, <3>5 DEF Waits
  <2> QED BY <2>1, <2>2, <2>3
<1>9. ASSUME NEW s \in Tasks, Touched(s), pc[s] = "waitCreate"
      PROVE  fw'[id[s]] = IF a.ok THEN "idle" ELSE "absent"
  <2>1. r.cmd = "create" /\ id[s] = r.id
    BY <1>9 DEF Current
  <2>2. fw[r.id] = "absent"
    BY <1>3, <1>7, <1>9, <2>1 DEF BlockInv, WireOK
  <2> QED BY <1>4, <1>5, <1>6, <2>1, <2>2
<1>10. ASSUME NEW s \in Tasks, Touched(s), pc[s] = "waitOp"
       PROVE  /\ op[s] # "append" /\ fw'[id[s]] # "absent"
              /\ op[s] = "start" <=> fw'[id[s]] = "started"
  <2>1. r.cmd = op[s] /\ id[s] = r.id /\ op[s] \in {"start", "stop"}
    BY <1>10 DEF Current, Known, TypeOK
  <2>2. fw[r.id] # "absent"
    BY <1>6, <1>10, <2>1, IdFacts DEF BlockInv, BlockOK, Holding
  <2>3. Accepts(r)
    BY <1>6, <2>1, <2>2 DEF Accepts, Blocks
  <2> QED BY <1>5, <1>6, <2>1, <2>3
<1>11. ASSUME NEW s \in Tasks, Fresh(r),
              pc[s] = "waitCreate" \/ (pc[s] = "waitOp" /\ op[s] # "append")
       PROVE  Touched(s)
  <2>1. controlLock = s /\ Current(s, r)
    BY <1>3, <1>11, HolderFacts DEF Known, TaskInv, LockOK
  <2> QED BY <1>11, <2>1 DEF Current
<1>12. ASSUME NEW s \in Tasks PROVE BlockOK(s)'
  <2>1. BlockOK(s)
    BY DEF BlockInv
  <2>2. CASE Touched(s)
    <3>1. pc[s] = "waitOp" \/ pc[s] = "waitCreate"
      BY <2>2
    <3> QED BY <1>1, <1>10, <2>2, <3>1 DEF BlockOK, Holding
  <2>3. CASE ~Touched(s)
    <3>1. pc[s] = "insert" => id[s] # NoId
      BY DEF Known, OwnerInv, Owners
    <3> HIDE DEF Touched
    <3> QED BY <1>1, <1>8, <2>1, <2>3, <3>1 DEF BlockOK
  <2> QED BY <2>2, <2>3
<1>13. ASSUME NEW s \in Tasks PROVE WireOK(s)'
  <2>0. WireOK(s) /\ (pc[s] \in {"waitCreate", "waitOp"} => id[s] # NoId)
    BY DEF BlockInv, Known, OwnerInv, Owners
  <2>1. ASSUME NEW k \in 1..Len(uplink'), (Fresh(uplink[k]))', pc'[s] = "waitCreate"
        PROVE  fw'[id'[s]] = "absent"
    <3>1. Fresh(uplink[k + 1]) /\ k + 1 \in 1..Len(uplink) /\ k + 1 # 1
      BY <1>1, <1>3, <2>1 DEF Fresh, Dead
    <3>2. ~Fresh(r)
      BY <1>3, <3>1 DEF EntryInv
    <3>3. fw'[id[s]] = fw[id[s]]
      BY <1>1, <1>7, <1>8, <2>0, <2>1, <3>2
    <3> QED BY <1>1, <2>0, <2>1, <3>1, <3>3 DEF WireOK
  <2>2. ASSUME NEW k \in 1..Len(control), (Fresh(control[k]))'
        PROVE  (AnswerOK(s, control[k]))'
    <3>1. Fresh(control[k])
      BY <1>1, <1>4, <2>2 DEF Fresh, Dead
    <3>2. ~Fresh(r)
      BY <1>3, <3>1 DEF EntryInv
    <3>3. pc[s] \in {"waitCreate", "waitOp"} => fw'[id[s]] = fw[id[s]]
      BY <1>7, <1>8, <2>0, <3>2
    <3>4. AnswerOK(s, control[k])
      BY <2>0, <3>1 DEF WireOK
    <3> QED BY <1>1, <1>4, <3>3, <3>4 DEF AnswerOK
  <2>3. ASSUME NEW k \in 1..Len(control'), k = Len(control) + 1, (Fresh(control[k]))'
        PROVE  (AnswerOK(s, control[k]))'
    <3>1. Fresh(r)
      BY <1>1, <1>4, <2>3 DEF Fresh, Dead
    <3>2. pc[s] = "waitCreate" => fw'[id[s]] = IF a.ok THEN "idle" ELSE "absent"
      BY <1>9, <1>11, <3>1
    <3>3. pc[s] = "waitOp" /\ op[s] # "append" => (op[s] = "start" <=> fw'[id[s]] = "started")
      BY <1>10, <1>11, <3>1
    <3> QED BY <1>1, <1>4, <2>3, <3>2, <3>3 DEF AnswerOK
  <2>4. \A k \in 1..Len(control') : (Fresh(control[k]))' => (AnswerOK(s, control[k]))'
    BY <1>4, <2>2, <2>3
  <2> QED BY <2>1, <2>4 DEF WireOK
<1> QED BY <1>12, <1>13 DEF BlockInv

LEMMA NextBlocks ==
    ASSUME Known, EntryInv, BlockInv, [Next]_vars PROVE BlockInv'
<1>1. ASSUME NEW t \in Tasks, TaskStep(t) PROVE BlockInv'
  <2>1. fw' = fw /\ WireOK(t)' /\ BlockOK(t)'
    BY <1>1, ActorBlock
  <2>2. ASSUME NEW s \in Tasks \ {t} PROVE WireOK(s)' /\ BlockOK(s)'
    BY <1>1, <2>1, TaskBystanders, QuietQueues, BystanderBlock DEF Known
  <2> QED BY <2>1, <2>2 DEF BlockInv
<1>2. CASE UNCHANGED vars \/ Dispatch \/ DispatchEnd \/ \E i \in Ids : FwSample(i)
  <2>1. \A s \in Tasks : Bystander(s)
    BY <1>2, OtherBystanders DEF OtherStep, vars, taskVars, Bystander
  <2>2. UNCHANGED <<fw, uplink, control>>
    BY <1>2 DEF vars, wireVars, fwVarsAll, Dispatch, DispatchEnd, FwSample
  <2> QED BY <2>1, <2>2, BystanderBlock DEF BlockInv
<1>3. CASE ConnectionEnds
  <2>1. PICK n \in 0..Len(control) : control' = SubSeq(control, 1, n)
    BY <1>3 DEF ConnectionEnds
  <2>2. uplink' = <<>> /\ UNCHANGED <<pc, id, op, streaming, cancels, fw>>
    BY <1>3 DEF ConnectionEnds, taskVars, boundVars, fwVarsAll
  <2>3. Len(uplink') = 0
    BY <2>2, EmptyFacts
  <2>4. \A k \in 1..Len(control') : control'[k] = control[k] /\ k \in 1..Len(control)
    BY <2>1, QueueTypes, PrefixFacts DEF Known
  <2>5. \A k \in 1..Len(control') : (Fresh(control[k]))' <=> Fresh(control[k])
    BY <2>2, <2>4 DEF Fresh, Dead
  <2>6. ASSUME NEW s \in Tasks PROVE WireOK(s)' /\ BlockOK(s)'
    <3>1. WireOK(s) /\ BlockOK(s)
      BY DEF BlockInv
    <3>2. \A k \in 1..Len(control') : (Fresh(control[k]))' => (AnswerOK(s, control[k]))'
      BY <2>2, <2>4, <2>5, <3>1 DEF WireOK, AnswerOK
    <3> QED BY <2>2, <2>3, <3>1, <3>2 DEF WireOK, BlockOK
  <2> QED BY <2>6 DEF BlockInv
<1> QED BY <1>1, <1>2, <1>3, AnswerBlocks, NextKinds DEF OtherStep

LEMMA BlockFacts ==
    ASSUME Known, BlockInv PROVE BlocksKept
<1> SUFFICES ASSUME NEW t \in Tasks, NEW i \in Ids, Holds(t, i)
             PROVE  fw[i] # "absent" /\ (pc[t] = "idle" => (streaming[t] <=> fw[i] = "started"))
  BY DEF BlocksKept
<1>1. id[t] = i /\ pc[t] \in Holding /\ i # NoId
  BY IdFacts DEF Holds, Holding
<1> QED BY <1>1 DEF BlockInv, BlockOK

Sound == Known /\ EntryInv /\ BlockInv

LEMMA InitSound == Init => Sound
  BY InitTypes, InitIdInv, InitTask, InitEntries, InitBlocks DEF Sound, Known

LEMMA NextSound == Sound /\ [Next]_vars => Sound'
  BY NextTypes, NextIdInv, NextTask, NextEntries, NextBlocks DEF Sound, Known

\* For any number of tasks, identifiers and calls, with dropped futures, late
\* answers and a lost connection: the clean-up of one task never deletes the
\* block of another, and a block is started in the Crazyflie exactly while its
\* object is a LogStream (cleanup_blocks, LogBlock::start, LogStream::stop).
THEOREM BlocksStay == Spec => []BlocksKept
<1>1. Sound => BlocksKept
  BY BlockFacts DEF Sound
<1> QED BY <1>1, InitSound, NextSound, PTL DEF Spec

-----------------------------------------------------------------------------
(* Counting.  If no future has been dropped there is at most one entry on   *)
(* the wire, that of the holder of the lock, and the list of variables of an *)
(* object differs from the Crazyflie's only between an append and its        *)
(* answer.                                                                    *)

Counted(t, n) == fwVars[id[t]] = variables[t] + n

AnswerCounted(t, e) ==
    /\ pc[t] = "waitCreate" /\ e.ok => Counted(t, 0)
    /\ pc[t] = "waitOp" /\ op[t] = "start" => Counted(t, 0)
    /\ pc[t] = "waitOp" /\ op[t] = "append" /\ connected =>
           Counted(t, IF e.ok THEN 1 ELSE 0)

CountOK(t) ==
    /\ \A k \in 1..Len(control) : AnswerCounted(t, control[k])
    /\ pc[t] = "insert" \/ streaming[t] => Counted(t, 0)
    /\ connected /\ pc[t] \in Holding /\ id[t] # NoId
        /\ (pc[t] = "waitOp" /\ op[t] = "append" => uplink # <<>>) => Counted(t, 0)

DeletedInv ==
    \A k \in 1..Len(control) :
        control[k].cmd = "delete" /\ control[k].ok => fw[control[k].id] = "absent"

KeptInv == connected => \A i \in Blocks : i \in active \/ \E t \in Tasks : id[t] = i

CountInv == cancels = 0 => (\A t \in Tasks : CountOK(t)) /\ DeletedInv /\ KeptInv

LEMMA InitCount == Init => CountInv
<1> SUFFICES ASSUME Init PROVE CountInv
  OBVIOUS
<1>1. Len(uplink) = 0 /\ Len(control) = 0
  BY EmptyFacts DEF Init
<1>2. \A t \in Tasks : CountOK(t)
  BY <1>1 DEF Init, CountOK
<1>3. DeletedInv /\ KeptInv
  BY <1>1 DEF Init, DeletedInv, KeptInv, Blocks
<1> QED BY <1>2, <1>3 DEF CountInv

\* One entry at most, and whose it is.
LEMMA OneEntry ==
    ASSUME Known, EntryInv, cancels = 0
    PROVE  /\ \A k \in 1..Len(control) : /\ k = 1 /\ Len(uplink) = 0 /\ Len(control) = 1
                                         /\ controlLock \in Tasks /\ Waits(controlLock)
                                         /\ Current(controlLock, control[1])
           /\ \A k \in 1..Len(uplink) : /\ k = 1 /\ Len(control) = 0 /\ Len(uplink) = 1
                                        /\ controlLock \in Tasks /\ Waits(controlLock)
                                        /\ Current(controlLock, uplink[1])
<1>1. /\ \A k \in 1..Len(uplink) : Fresh(uplink[k])
      /\ \A k \in 1..Len(control) : Fresh(control[k])
  BY DEF Fresh
<1>2. Len(uplink) \in Nat /\ Len(control) \in Nat
  BY QueueTypes DEF Known
<1>3. /\ \A k, l \in 1..Len(uplink) : k = l
      /\ \A k, l \in 1..Len(control) : k = l
      /\ \A k \in 1..Len(uplink), l \in 1..Len(control) : FALSE
  BY <1>1 DEF EntryInv
<1>4. /\ \A k \in 1..Len(control) : controlLock \in Tasks /\ Waits(controlLock)
                                    /\ Current(controlLock, control[k])
      /\ \A k \in 1..Len(uplink) : controlLock \in Tasks /\ Waits(controlLock)
                                   /\ Current(controlLock, uplink[k])
  BY <1>1, HolderFacts
<1>5. ASSUME NEW n \in Nat, \A k, l \in 1..n : k = l PROVE n = 0 \/ n = 1
  <2>1. CASE n > 1
    <3>1. 1 \in 1..n /\ 2 \in 1..n
      BY <2>1
    <3> QED BY <1>5, <3>1
  <2> QED BY <2>1
<1>6. (Len(uplink) = 0 \/ Len(uplink) = 1) /\ (Len(control) = 0 \/ Len(control) = 1)
  BY <1>2, <1>3, <1>5
<1>7. Len(uplink) = 0 \/ Len(control) = 0
  BY <1>3, <1>6
<1> QED BY <1>4, <1>6, <1>7

\* The queue is empty exactly when it has no entry.
LEMMA EmptyQueue == ASSUME TypeOK PROVE uplink # <<>> <=> Len(uplink) # 0
<1>1. uplink = <<>> => Len(uplink) = 0
  BY EmptyFacts
<1>2. uplink # <<>> => Len(uplink) # 0
  BY QueueFacts DEF TypeOK
<1> QED BY <1>1, <1>2

LEMMA BystanderCount ==
    ASSUME NEW s \in Tasks, CountOK(s), Bystander(s), UNCHANGED <<fw, fwVars>>,
           connected' => connected, Waits(s) => UNCHANGED <<uplink, control>>
    PROVE  CountOK(s)'
<1>1. /\ pc'[s] = pc[s] /\ id'[s] = id[s] /\ op'[s] = op[s]
      /\ variables'[s] = variables[s] /\ streaming'[s] = streaming[s] /\ fwVars' = fwVars
  BY DEF Bystander
<1>2. \A k \in 1..Len(control') : (AnswerCounted(s, control[k]))'
  <2>1. CASE Waits(s)
    BY <1>1, <2>1 DEF CountOK, AnswerCounted, Counted
  <2>2. CASE ~Waits(s)
    <3>1. pc'[s] \notin {"waitCreate", "waitOp"}
      BY <1>1, <2>2 DEF Waits
    <3> QED BY <3>1 DEF AnswerCounted
  <2> QED BY <2>1, <2>2
<1>3. pc'[s] = "insert" \/ streaming'[s] => fwVars'[id'[s]] = variables'[s] + 0
  BY <1>1 DEF CountOK, Counted
<1>4. connected' /\ pc'[s] \in Holding /\ id'[s] # NoId
        /\ (pc'[s] = "waitOp" /\ op'[s] = "append" => uplink' # <<>>)
      => fwVars'[id'[s]] = variables'[s] + 0
  BY <1>1 DEF CountOK, Counted, Waits
<1> QED BY <1>2, <1>3, <1>4 DEF CountOK, Counted

\* A call that fails has no block any more, or the connection is lost.
LEMMA FailsCount ==
    ASSUME Known, NEW t \in Tasks, CountOK(t), NEW r, Fails(t, r), Owning(t) \/ ~connected'
    PROVE  CountOK(t)'
<1>1. pc'[t] = "idle"
  BY DEF Fails, Return, Goto, Known, TypeOK
<1>2. \A k \in 1..Len(control') : (AnswerCounted(t, control[k]))'
  BY <1>1 DEF AnswerCounted
<1>3. CASE Owning(t)
  <2>1. id'[t] = NoId /\ ~streaming'[t]
    BY <1>3 DEF Fails, Forget, Known, TypeOK
  <2> QED BY <1>1, <1>2, <2>1 DEF CountOK
<1>4. CASE ~Owning(t)
  <2>1. pc[t] \in {"lockOp", "waitOp"} /\ op[t] = "append" /\ streaming' = streaming
    BY <1>4 DEF Owning, Fails
  <2>2. ~streaming'[t]
    BY <2>1 DEF Known, TaskInv, ObjectOK
  <2> QED BY <1>1, <1>2, <1>4, <2>2 DEF CountOK
<1> QED BY <1>3, <1>4

LEMMA ActorCount ==
    ASSUME Known, EntryInv, [Next]_vars, NEW t \in Tasks, TaskStep(t), CountOK(t),
           cancels = 0, cancels' = 0
    PROVE  CountOK(t)'
<1> USE DEF taskVars, tableVars, wireVars, fwVarsAll, Goto, Return
<1>0. /\ pc \in [Tasks -> Pcs] /\ id \in [Tasks -> Ids \union {NoId}]
      /\ op \in [Tasks -> {"append", "start", "stop"}]
      /\ streaming \in [Tasks -> BOOLEAN] /\ variables \in [Tasks -> Nat]
      /\ ObjectOK(t) /\ (pc[t] \in Owners => id[t] # NoId)
  BY DEF Known, TypeOK, TaskInv, OwnerInv
<1>1. UNCHANGED <<fwVars, connected>>
  BY TaskFirmware
<1>2. ASSUME pc'[t] \notin {"waitCreate", "waitOp"}
      PROVE  \A k \in 1..Len(control') : (AnswerCounted(t, control[k]))'
  BY <1>2 DEF AnswerCounted
<1>3. ASSUME controlLock = NoTask PROVE Len(control) = 0
  <2>1. \A k \in 1..Len(control) : FALSE
    BY <1>3, OneEntry, TaskAssumption
  <2> QED BY <2>1, QueueTypes DEF Known
<1>4. ASSUME Waits(t), Received(t)
      PROVE  Head(control) = control[1] /\ AnswerCounted(t, control[1])
  BY <1>4, TakenStale DEF CountOK
<1>5. ASSUME pc'[t] \in (Preparing \union Making) \ {"insert", "waitCreate"}, ~streaming'[t]
      PROVE  CountOK(t)'
  <2>1. pc'[t] \notin Holding \union {"insert", "waitCreate", "waitOp"}
    BY <1>5 DEF Preparing, Making, Holding
  <2> QED BY <1>2, <1>5, <2>1 DEF CountOK
<1>6. CASE \/ CreateBlock(t) \/ LockActive(t) \/ Scan(t) \/ SendDelete(t)
           \/ CleanupDone(t) \/ TakeId(t)
  <2>1. pc[t] \in Preparing \/ (pc[t] = "idle" /\ id[t] = NoId)
    BY <1>6 DEF CreateBlock, Called, LockActive, Scan, SendDelete, CleanupDone, TakeId, Preparing
  <2>2. /\ pc'[t] \in {"lockActive", "scan", "lockDelete", "waitDelete", "takeId", "lockCreate"}
        /\ streaming' = streaming
    BY <1>0, <1>6 DEF CreateBlock, LockActive, Scan, SendDelete, CleanupDone, TakeId
  <2>3. ~streaming'[t]
    BY <1>0, <2>1, <2>2 DEF ObjectOK
  <2> QED BY <1>5, <2>2, <2>3 DEF Preparing, Making
<1>7. CASE DeleteAnswered(t)
  <2>1. pc[t] = "waitDelete" /\ id[t] = NoId
    BY <1>0, <1>7 DEF DeleteAnswered, ObjectOK, Preparing
  <2>2. CASE \E r : Fails(t, r)
    BY <2>1, <2>2, FailsCount DEF Owning
  <2>3. CASE ~(\E r : Fails(t, r))
    <3>1. pc'[t] = "scan" /\ streaming' = streaming
      BY <1>0, <1>7, <2>3 DEF DeleteAnswered
    <3>2. ~streaming'[t]
      BY <1>0, <2>1, <3>1 DEF ObjectOK
    <3> QED BY <1>5, <3>1, <3>2 DEF Preparing, Making
  <2> QED BY <2>2, <2>3
<1>8. CASE NoIdLeft(t) \/ SendError(t) \/ WaitFails(t)
  <2>1. (\E r : Fails(t, r)) /\ (Owning(t) \/ ~connected')
    BY <1>1, <1>8 DEF NoIdLeft, SendError, SendFails, WaitFails, Owning
  <2> QED BY <2>1, FailsCount
<1>9. CASE Cancel(t)
  BY <1>9 DEF Cancel, Known, TypeOK
<1>10. CASE SendCreate(t)
  <2>1. pc'[t] = "waitCreate" /\ pc[t] = "lockCreate" /\ streaming' = streaming
        /\ control' = control /\ controlLock = NoTask
    BY <1>0, <1>10 DEF SendCreate
  <2>2. ~streaming'[t]
    BY <1>0, <2>1 DEF ObjectOK, Making
  <2>3. Len(control') = 0
    BY <1>3, <2>1
  <2> QED BY <2>1, <2>2, <2>3 DEF CountOK, Holding
<1>11. CASE CreateAnswered(t)
  <2>1. pc[t] = "waitCreate" /\ Received(t) /\ Waits(t)
    BY <1>11 DEF CreateAnswered, Waits
  <2>2. CASE \E r : Fails(t, r)
    BY <2>1, <2>2, FailsCount DEF Owning
  <2>3. CASE ~(\E r : Fails(t, r))
    <3>1. pc'[t] = "insert" /\ Head(control).ok /\ UNCHANGED <<id, variables, streaming>>
      BY <1>0, <1>11, <2>3 DEF CreateAnswered
    <3>2. Counted(t, 0)
      BY <1>4, <2>1, <3>1 DEF AnswerCounted
    <3>3. (Counted(t, 0))'
      BY <1>1, <3>1, <3>2 DEF Counted
    <3> QED BY <1>2, <3>1, <3>3 DEF CountOK, Holding
  <2> QED BY <2>2, <2>3
<1>12. CASE Insert(t)
  <2>1. pc'[t] = "idle" /\ pc[t] = "insert" /\ UNCHANGED <<id, variables>>
    BY <1>0, <1>12 DEF Insert
  <2>2. (Counted(t, 0))'
    BY <1>1, <2>1 DEF CountOK, Counted
  <2> QED BY <1>2, <2>1, <2>2 DEF CountOK
<1>13. ASSUME NEW o \in {"append", "start", "stop"}, CallOp(t, o) PROVE CountOK(t)'
  <2>1. pc'[t] = "lockOp" /\ pc[t] = "idle" /\ UNCHANGED <<id, variables, streaming>>
    BY <1>0, <1>13 DEF CallOp, Called
  <2> QED BY <1>1, <1>2, <2>1 DEF CountOK, Counted, Holding
<1>14. CASE SendOp(t)
  <2>1. /\ pc'[t] = "waitOp" /\ pc[t] = "lockOp" /\ UNCHANGED <<id, variables, streaming>>
        /\ control' = control /\ controlLock = NoTask
    BY <1>0, <1>14 DEF SendOp
  <2>2. Len(control') = 0
    BY <1>3, <2>1
  <2> QED BY <1>1, <2>1, <2>2 DEF CountOK, Counted, Holding
<1>15. CASE OpAnswered(t)
  <2>1. pc'[t] = "idle" /\ pc[t] = "waitOp" /\ Received(t) /\ Waits(t) /\ id[t] # NoId
    BY <1>0, <1>15 DEF OpAnswered, Waits, Owners
  <2>2. CASE Forget(t)
    <3>1. id'[t] = NoId /\ ~streaming'[t]
      BY <1>0, <2>2 DEF Forget
    <3> QED BY <1>2, <2>1, <3>1 DEF CountOK
  <2>3. CASE ~Forget(t)
    <3>1. /\ Head(control).ok \/ op[t] = "append"
          /\ streaming'[t] = (op[t] = "start")
          /\ variables'[t] = Listed(t, Head(control).ok) /\ id' = id
      BY <1>0, <1>15, <2>3 DEF OpAnswered
    <3>2. variables[t] \in Nat /\ AnswerCounted(t, Head(control))
      BY <1>0, <1>4, <2>1
    <3>3. CASE op[t] = "append"
      <4>1. connected => fwVars[id[t]] = variables[t] + (IF Head(control).ok THEN 1 ELSE 0)
        BY <2>1, <3>2, <3>3 DEF AnswerCounted, Counted
      <4>2. variables'[t] + 0 = variables[t] + (IF Head(control).ok THEN 1 ELSE 0)
        BY <3>1, <3>2, <3>3 DEF Listed
      <4>3. connected' => (Counted(t, 0))'
        BY <1>1, <3>1, <4>1, <4>2 DEF Counted
      <4> QED BY <1>2, <2>1, <3>1, <3>3, <4>3 DEF CountOK
    <3>4. CASE op[t] # "append"
      <4>1. variables'[t] = variables[t]
        BY <3>1, <3>4 DEF Listed
      <4>2. op[t] = "start" => Counted(t, 0)
        BY <2>1, <3>2, <3>4 DEF AnswerCounted
      <4>3. connected => Counted(t, 0)
        BY <2>1, <3>4 DEF CountOK, Holding
      <4>4. op[t] = "start" \/ connected' => (Counted(t, 0))'
        BY <1>1, <3>1, <4>1, <4>2, <4>3 DEF Counted
      <4> QED BY <1>2, <2>1, <3>1, <4>4 DEF CountOK
    <3> QED BY <3>3, <3>4
  <2> QED BY <2>2, <2>3
<1>16. CASE Discard(t)
  <2>1. Waits(t) /\ control # <<>> /\ ~Matches(t, Head(control)) /\ controlLock = t
    BY <1>16 DEF Discard, Known, TaskInv, LockOK, Waits
  <2>2. Head(control) = control[1] /\ 1 \in 1..Len(control)
    BY <2>1, QueueFacts DEF Known, TypeOK
  <2>3. Current(t, Head(control))
    BY <2>1, <2>2, OneEntry
  <2> QED BY <2>1, <2>3, ExpectedFacts DEF Known
<1>17. CASE NextSample(t) \/ NextError(t)
  <2>1. UNCHANGED <<pc, id, variables, streaming>> /\ pc[t] = "idle"
    BY <1>17 DEF NextSample, NextError
  <2> QED BY <1>1, <1>2, <2>1 DEF CountOK, Counted
<1>18. CASE DropBlock(t)
  <2>1. pc'[t] = "idle" /\ id'[t] = NoId /\ ~streaming'[t]
    BY <1>0, <1>18 DEF DropBlock, Forget
  <2> QED BY <1>2, <2>1 DEF CountOK
<1> QED
  BY <1>6, <1>7, <1>8, <1>9, <1>10, <1>11, <1>12, <1>13, <1>14, <1>15, <1>16, <1>17, <1>18
     DEF TaskStep, CallStep, CreateStep

\* What a task gives up, or takes out of the table, is not in the Crazyflie or
\* stays in the table.
LEMMA ActorKept ==
    ASSUME Known, EntryInv, BlockInv, DeletedInv, [Next]_vars, NEW t \in Tasks, TaskStep(t),
           cancels = 0, cancels' = 0, connected, NEW i \in Ids, fw[i] # "absent"
    PROVE  /\ i \in active => i \in active'
           /\ id[t] = i => id'[t] = i \/ i \in active
<1> USE DEF taskVars, tableVars, wireVars, Goto, Return
<1>0. /\ id \in [Tasks -> Ids \union {NoId}] /\ i # NoId /\ ObjectOK(t)
  BY IdFacts DEF Known, TypeOK, TaskInv
<1>1. CASE DeleteAnswered(t)
  <2>1. id[t] # i
    BY <1>0, <1>1 DEF DeleteAnswered, ObjectOK, Preparing
  <2>2. CASE \E r : Fails(t, r)
    BY <2>1, <2>2 DEF Fails
  <2>3. CASE ~(\E r : Fails(t, r))
    <3>1. /\ pc[t] = "waitDelete" /\ Received(t) /\ Waits(t) /\ Head(control).ok
          /\ active' = active \ {Head(control).id}
      BY <1>1, <2>3 DEF DeleteAnswered, Waits
    <3>2. Head(control) = control[1] /\ 1 \in 1..Len(control) /\ Current(t, control[1])
      BY <3>1, TakenStale
    <3>3. fw[Head(control).id] = "absent"
      BY <3>1, <3>2 DEF DeletedInv, Current
    <3> QED BY <2>1, <3>1, <3>3
  <2> QED BY <2>2, <2>3
<1>2. CASE CreateAnswered(t)
  <2>1. pc[t] = "waitCreate" /\ Received(t) /\ Waits(t) /\ active' = active
    BY <1>2 DEF CreateAnswered, Waits, Fails
  <2>2. CASE Head(control).ok
    <3>1. id' = id
      BY <1>2, <2>2 DEF CreateAnswered
    <3> QED BY <2>1, <2>2, <3>1
  <2>3. CASE ~Head(control).ok
    <3>1. Head(control) = control[1] /\ 1 \in 1..Len(control)
      BY <2>1, TakenStale
    <3>2. fw[id[t]] = "absent"
      BY <2>1, <2>3, <3>1 DEF BlockInv, WireOK, AnswerOK, Fresh
    <3> QED BY <2>1, <3>2
  <2> QED BY <2>2, <2>3
<1>3. CASE OpAnswered(t) \/ DropBlock(t)
  <2>1. pc[t] \in Holding /\ active' = active
    BY <1>3 DEF OpAnswered, DropBlock, Holding
  <2> QED BY <1>0, <2>1 DEF ObjectOK
<1>4. CASE NoIdLeft(t)
  BY <1>0, <1>4 DEF NoIdLeft, Fails, ObjectOK, Preparing
<1>5. CASE SendError(t) \/ WaitFails(t) \/ Cancel(t)
  BY <1>5 DEF SendError, SendFails, WaitFails, Cancel, Known, TypeOK
<1>6. CASE \/ CreateBlock(t) \/ LockActive(t) \/ Scan(t) \/ SendDelete(t)
           \/ CleanupDone(t) \/ SendCreate(t) \/ Insert(t)
  BY <1>6 DEF CreateBlock, LockActive, Scan, SendDelete, TableKept, CleanupDone,
     SendCreate, Insert
<1>7. CASE TakeId(t)
  BY <1>0, <1>7 DEF TakeId, ObjectOK, Preparing
<1>8. CASE \/ SendOp(t) \/ Discard(t) \/ NextSample(t) \/ NextError(t)
           \/ \E o \in {"append", "start", "stop"} : CallOp(t, o)
  BY <1>8 DEF SendOp, Discard, NextSample, NextError, CallOp
<1> QED
  BY <1>1, <1>2, <1>3, <1>4, <1>5, <1>6, <1>7, <1>8 DEF TaskStep, CallStep, CreateStep

\* The Crazyflie carries out the one command there is.
LEMMA AnswerCount ==
    ASSUME Known, EntryInv, CountInv, FwCommand, cancels = 0
    PROVE  (\A t \in Tasks : CountOK(t)') /\ DeletedInv' /\ KeptInv'
<1>1. connected /\ UNCHANGED <<pc, id, op, variables, streaming, active>>
  BY DEF FwCommand, taskVars, tableVars
<1>2. PICK r \in Requests, a \in Answers : Served(r, a)
  BY ServedFacts DEF Known
<1>3. /\ r = Head(uplink) /\ r = uplink[1] /\ 1 \in 1..Len(uplink)
      /\ Len(uplink') = Len(uplink) - 1
      /\ a.cmd = r.cmd /\ a.id = r.id /\ a.ok = Accepts(r)
      /\ Len(control') = Len(control) + 1 /\ control'[Len(control) + 1] = a
  BY <1>2 DEF Served
<1>4. Len(control) = 0 /\ Len(uplink) = 1 /\ controlLock \in Tasks /\ Current(controlLock, r)
  BY <1>3, OneEntry
<1>5. PICK h \in Tasks : controlLock = h /\ Current(h, r)
  BY <1>4
<1>6. Len(uplink') = 0 /\ Len(control') = 1 /\ control'[1] = a
  BY <1>3, <1>4
<1>7. uplink' = <<>>
  <2>1. uplink # <<>> /\ uplink' = Tail(uplink)
    BY DEF FwCommand
  <2>2. uplink' \in Seq(Requests)
    BY <2>1, QueueFacts DEF Known, TypeOK
  <2> QED BY <1>6, <2>2, EmptySeq
<1>8. /\ fw' = [fw EXCEPT ![r.id] =
                  IF ~Accepts(r) THEN @
                  ELSE CASE r.cmd = "delete" -> "absent"
                         [] r.cmd = "start" -> "started"
                         [] r.cmd \in {"create", "stop"} -> "idle"
                         [] r.cmd = "append" -> @]
      /\ fwVars' = [fwVars EXCEPT ![r.id] =
                  CASE Accepts(r) /\ r.cmd = "append" -> @ + 1
                    [] Accepts(r) /\ r.cmd = "create" -> 0
                    [] OTHER -> @]
  BY <1>3 DEF FwCommand
<1>9. /\ fw \in [Ids -> {"absent", "idle", "started"}] /\ fwVars \in [Ids -> Nat]
      /\ r.id \in Ids /\ r.cmd \in Commands
      /\ \A s \in Tasks : id[s] \in Ids \union {NoId}
      /\ \A s \in Tasks : variables[s] \in Nat
  BY DEF Known, TypeOK, Requests
<1>10. /\ \A s \in Tasks : CountOK(s)
       /\ DeletedInv /\ KeptInv
  BY DEF CountInv
\* The waiting task, and the others.
<1>11. ASSUME NEW s \in Tasks, s # h PROVE CountOK(s)'
  <2>1. pc[s] \notin {"waitCreate", "waitOp", "insert"}
    BY <1>5, <1>11 DEF Known, TaskInv, LockOK
  <2>2. ASSUME id[s] # NoId PROVE fwVars'[id[s]] = fwVars[id[s]]
    <3>1. CASE pc[h] = "waitDelete"
      <4>1. r.cmd = "delete"
        BY <1>5, <3>1 DEF Current
      <4> QED BY <1>8, <1>9, <2>2, <4>1
    <3>2. CASE pc[h] # "waitDelete"
      <4>1. id[h] = r.id
        BY <1>5, <3>2 DEF Current
      <4>2. id[s] # r.id
        BY <1>11, <2>2, <4>1 DEF Known, IdInv
      <4> QED BY <1>8, <1>9, <2>2, <4>2
    <3> QED BY <3>1, <3>2
  <2>3. streaming[s] => id[s] # NoId
    BY DEF Known, TaskInv, ObjectOK
  <2>4. \A k \in 1..Len(control') : (AnswerCounted(s, control[k]))'
    BY <1>1, <2>1 DEF AnswerCounted
  <2>5. CountOK(s)
    BY <1>10
  <2> QED BY <1>1, <2>1, <2>2, <2>3, <2>4, <2>5 DEF CountOK, Counted
<1>12. CountOK(h)'
  <2>1. CountOK(h) /\ ObjectOK(h) /\ pc[h] \in {"waitDelete", "waitCreate", "waitOp"}
    BY <1>5, <1>10 DEF Known, TaskInv, Current
  <2>2. CASE pc[h] = "waitDelete"
    <3>1. ~streaming[h]
      BY <2>1, <2>2 DEF ObjectOK, Preparing
    <3>2. \A k \in 1..Len(control') : (AnswerCounted(h, control[k]))'
      BY <1>1, <2>2 DEF AnswerCounted
    <3> QED BY <1>1, <2>2, <3>1, <3>2 DEF CountOK, Holding
  <2>3. CASE pc[h] = "waitCreate"
    <3>1. r.cmd = "create" /\ r.id = id[h] /\ variables[h] = 0 /\ ~streaming[h]
      BY <1>5, <2>1, <2>3 DEF Current, ObjectOK, Making
    <3>2. Accepts(r) => fwVars'[id[h]] = 0
      BY <1>8, <1>9, <3>1
    <3>3. \A k \in 1..Len(control') : (AnswerCounted(h, control[k]))'
      <4> TAKE k \in 1..Len(control')
      <4>1. control'[k] = a
        BY <1>6
      <4>2. a.ok => fwVars'[id'[h]] = variables'[h] + 0
        BY <1>1, <1>3, <3>1, <3>2
      <4> QED BY <1>1, <2>3, <4>1, <4>2 DEF AnswerCounted, Counted
    <3> QED BY <1>1, <2>3, <3>1, <3>3 DEF CountOK, Holding
  <2>4. CASE pc[h] = "waitOp"
    <3>1. r.cmd = op[h] /\ r.id = id[h] /\ op[h] \in {"append", "start", "stop"} /\ id[h] # NoId
      BY <1>5, <1>9, <2>4, IdFacts DEF Current, Known, TypeOK
    <3>2. uplink # <<>>
      BY <1>4, EmptyQueue DEF Known
    <3>3. fwVars[id[h]] = variables[h]
      BY <1>1, <1>9, <2>1, <2>4, <3>1, <3>2 DEF CountOK, Counted, Holding
    <3>4. CASE op[h] = "append"
      <4>1. fwVars'[id[h]] = IF a.ok THEN fwVars[id[h]] + 1 ELSE fwVars[id[h]]
        BY <1>3, <1>8, <1>9, <3>1, <3>4
      <4>2. fwVars'[id'[h]] = variables'[h] + (IF a.ok THEN 1 ELSE 0)
        BY <1>1, <1>9, <3>3, <4>1
      <4>3. \A k \in 1..Len(control') : (AnswerCounted(h, control[k]))'
        BY <1>1, <1>6, <2>4, <3>4, <4>2 DEF AnswerCounted, Counted
      <4>4. ~streaming[h]
        BY <2>1, <2>4, <3>4 DEF ObjectOK
      <4> QED BY <1>1, <1>7, <2>4, <3>4, <4>3, <4>4 DEF CountOK
    <3>5. CASE op[h] # "append"
      <4>1. fwVars'[id[h]] = fwVars[id[h]]
        BY <1>8, <1>9, <3>1, <3>5
      <4>2. fwVars'[id'[h]] = variables'[h] + 0
        BY <1>1, <1>9, <3>3, <4>1
      <4>3. \A k \in 1..Len(control') : (AnswerCounted(h, control[k]))'
        BY <1>1, <2>4, <3>5, <4>2 DEF AnswerCounted, Counted
      <4> QED BY <1>1, <2>4, <4>2, <4>3 DEF CountOK, Counted
    <3> QED BY <3>4, <3>5
  <2> QED BY <2>1, <2>2, <2>3, <2>4
<1>13. DeletedInv'
  <2> SUFFICES ASSUME NEW k \in 1..Len(control'), control'[k].cmd = "delete", control'[k].ok
               PROVE  fw'[control'[k].id] = "absent"
    BY DEF DeletedInv
  <2>1. control'[k] = a
    BY <1>6
  <2> QED BY <1>3, <1>8, <1>9, <2>1
<1>14. KeptInv'
  <2>1. ASSUME NEW i \in Ids, fw'[i] # "absent", fw[i] = "absent" PROVE id[h] = i
    <3>1. r.id = i /\ Accepts(r) /\ r.cmd \in {"start", "create", "stop"}
      BY <1>8, <1>9, <2>1 DEF Commands
    <3> QED BY <1>5, <3>1 DEF Current
  <2> QED BY <1>1, <1>10, <2>1 DEF KeptInv, Blocks
<1> QED BY <1>11, <1>12, <1>13, <1>14

LEMMA NextCount ==
    ASSUME Sound, CountInv, [Next]_vars PROVE CountInv'
<1> USE DEF Sound
<1> SUFFICES ASSUME cancels' = 0 PROVE (\A t \in Tasks : CountOK(t)') /\ DeletedInv' /\ KeptInv'
  BY DEF CountInv
<1>1. cancels = 0
  BY CancelsGrow DEF Known
<1>2. (\A t \in Tasks : CountOK(t)) /\ DeletedInv /\ KeptInv
  BY <1>1 DEF CountInv
<1>3. ASSUME NEW t \in Tasks, TaskStep(t)
      PROVE  (\A s \in Tasks : CountOK(s)') /\ DeletedInv' /\ KeptInv'
  <2>1. UNCHANGED <<fw, fwVars, connected>>
    BY <1>3, TaskFirmware
  <2>2. CountOK(t)'
    BY <1>1, <1>2, <1>3, ActorCount
  <2>3. ASSUME NEW s \in Tasks \ {t} PROVE CountOK(s)'
    BY <1>2, <1>3, <2>1, TaskBystanders, QuietQueues, BystanderCount DEF Known
  <2>4. DeletedInv'
    <3>1. control' = control \/ (control # <<>> /\ control' = Tail(control))
      <4> USE DEF wireVars
      <4>1. CASE CreateStep(t)
        BY <4>1 DEF CreateStep, LockActive, Scan, SendDelete, DeleteAnswered, CleanupDone,
           TakeId, NoIdLeft, SendCreate, CreateAnswered, Insert, Received
      <4>2. CASE SendOp(t) \/ OpAnswered(t) \/ SendError(t) \/ Discard(t) \/ WaitFails(t)
        BY <4>2 DEF SendOp, OpAnswered, SendError, Discard, WaitFails, Received
      <4>3. CASE CreateBlock(t) \/ \E o \in {"append", "start", "stop"} : CallOp(t, o)
        BY <4>3 DEF CreateBlock, CallOp
      <4>4. CASE NextSample(t) \/ NextError(t) \/ DropBlock(t) \/ Cancel(t)
        BY <4>4 DEF NextSample, NextError, DropBlock, Cancel
      <4> QED BY <1>3, <4>1, <4>2, <4>3, <4>4 DEF TaskStep, CallStep
    <3>2. CASE control' = control
      BY <1>2, <2>1, <3>2 DEF DeletedInv
    <3>3. CASE control # <<>> /\ control' = Tail(control)
      <4>1. \A k \in 1..Len(control') : control'[k] = control[k + 1] /\ k + 1 \in 1..Len(control)
        BY <3>3, QueueFacts DEF Known, TypeOK
      <4> QED BY <1>2, <2>1, <4>1 DEF DeletedInv
    <3> QED BY <3>1, <3>2, <3>3
  <2>5. ASSUME connected', NEW i \in Ids, fw'[i] # "absent"
        PROVE  i \in active' \/ \E s \in Tasks : id'[s] = i
    <3>1. connected /\ fw[i] # "absent"
      BY <2>1, <2>5
    <3>2. i \in active \/ \E s \in Tasks : id[s] = i
      BY <1>2, <3>1 DEF KeptInv, Blocks
    <3>3. /\ i \in active => i \in active'
          /\ id[t] = i => id'[t] = i \/ i \in active
      BY <1>1, <1>2, <1>3, <3>1, ActorKept
    <3>4. \A s \in Tasks \ {t} : id'[s] = id[s]
      BY <1>3, TaskBystanders DEF Known, Bystander
    <3> QED BY <3>2, <3>3, <3>4
  <2>6. KeptInv'
    BY <2>5 DEF KeptInv, Blocks
  <2> QED BY <2>2, <2>3, <2>4, <2>6
<1>4. CASE UNCHANGED vars \/ Dispatch \/ DispatchEnd \/ \E i \in Ids : FwSample(i)
  <2>1. \A s \in Tasks : Bystander(s)
    BY <1>4, OtherBystanders DEF OtherStep, vars, taskVars, Bystander
  <2>2. UNCHANGED <<fw, fwVars, uplink, control, connected, active>>
    BY <1>4 DEF vars, wireVars, tableVars, fwVarsAll, Dispatch, DispatchEnd, FwSample
  <2>3. \A s \in Tasks : CountOK(s)'
    BY <1>2, <2>1, <2>2, BystanderCount
  <2> QED BY <1>2, <2>1, <2>2, <2>3 DEF DeletedInv, KeptInv, Blocks, Bystander
<1>5. CASE ConnectionEnds
  <2>1. PICK n \in 0..Len(control) : control' = SubSeq(control, 1, n)
    BY <1>5 DEF ConnectionEnds
  <2>2. connected' = FALSE /\ UNCHANGED <<pc, id, op, variables, streaming, fw, fwVars>>
    BY <1>5 DEF ConnectionEnds, taskVars, fwVarsAll
  <2>3. \A k \in 1..Len(control') : control'[k] = control[k] /\ k \in 1..Len(control)
    BY <2>1, QueueTypes, PrefixFacts DEF Known
  <2>4. ASSUME NEW s \in Tasks PROVE CountOK(s)'
    <3>1. CountOK(s)
      BY <1>2
    <3>2. \A k \in 1..Len(control') : (AnswerCounted(s, control[k]))'
      BY <2>2, <2>3, <3>1 DEF CountOK, AnswerCounted, Counted
    <3> QED BY <2>2, <3>1, <3>2 DEF CountOK, Counted
  <2>5. DeletedInv' /\ KeptInv'
    BY <1>2, <2>2, <2>3 DEF DeletedInv, KeptInv
  <2> QED BY <2>4, <2>5
<1> QED BY <1>1, <1>3, <1>4, <1>5, AnswerCount, NextKinds DEF OtherStep

LEMMA InitAll == Init => Sound /\ CountInv
  BY InitSound, InitCount

LEMMA NextAll == Sound /\ CountInv /\ [Next]_vars => Sound' /\ CountInv'
  BY NextSound, NextCount

\* As long as the connection is up and no future has been dropped, every block
\* in the Crazyflie has an object, is being created, or is in the table the next
\* create_block cleans up from (create_block, cleanup_blocks).
THEOREM NothingLeaks == Spec => []NoLeak
<1>1. CountInv => NoLeak
  BY DEF CountInv, KeptInv, NoLeak
<1> QED BY <1>1, InitAll, NextAll, PTL DEF Spec

\* If no future has been dropped a stream decodes with the number of variables
\* the Crazyflie sends (add_variable, decode_packet).
THEOREM DecodersRight == Spec => []VariablesAgree
<1>1. Sound /\ CountInv => VariablesAgree
  <2> SUFFICES ASSUME Sound, CountInv, cancels = 0, NEW t \in Tasks, streaming[t]
               PROVE  variables[t] = fwVars[id[t]]
    BY DEF VariablesAgree
  <2>1. Counted(t, 0) /\ variables[t] \in Nat
    BY DEF CountInv, CountOK, Sound, Known, TypeOK
  <2> QED BY <2>1 DEF Counted
<1> QED BY <1>1, InitAll, NextAll, PTL DEF Spec
=============================================================================
