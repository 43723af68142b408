--------------------------------- MODULE Log ---------------------------------
(***************************************************************************)
(* The log subsystem of one Crazyflie object, shared by several tasks of   *)
(* the program: creation and clean-up of log blocks, the calls on a block  *)
(* and on a stream, the task that distributes log data, and the Crazyflie. *)
(*                                                                         *)
(* A call on the control channel locks the receiver of that channel, sends *)
(* its command and waits for the answer with the lock held, throwing away  *)
(* every answer that is not its own.  create_block first deletes in the    *)
(* Crazyflie the blocks whose LogBlock is gone, which it learns from weak  *)
(* references, and holds the lock of the table of these while it does.     *)
(*                                                                         *)
(* Each task has at most one LogBlock or LogStream; it moves neither to    *)
(* another task.                                                           *)
(***************************************************************************)
EXTENDS Naturals, Sequences, FiniteSets

CONSTANTS
    Tasks,          \* tasks of the program that share the Crazyflie object
    NoTask,         \* the holder of a free lock
    NoId,           \* the block of a task that has none
    IdSpace,        \* number of values of a block identifier (256 for u8)
    Capacity,       \* log blocks the Crazyflie has room for
    MaxVars,        \* variables a log block has room for
    MaxCreating,    \* create_block calls the program runs at the same time
    MaxCalls,       \* bound: calls made by one task
    MaxSamples,     \* bound: data packets the Crazyflie sends
    MaxCancels      \* bound: calls whose future is dropped

ASSUME IdAssumption == IdSpace \in Nat \ {0} /\ NoId \notin Nat
ASSUME TaskAssumption == NoTask \notin Tasks
ASSUME LimitAssumption ==
    /\ Capacity \in Nat /\ MaxVars \in Nat /\ MaxCreating \in Nat
    /\ MaxCalls \in Nat /\ MaxSamples \in Nat /\ MaxCancels \in Nat

Ids == 0..(IdSpace - 1)

VARIABLES
    pc,             \* where each task is
    id,             \* the identifier of the task's block
    op,             \* the call a task makes on its block
    variables,      \* length of the LogBlock's list of variables
    streaming,      \* the task's object is a LogStream
    scan,           \* identifiers cleanup_blocks has still to look at
    result,         \* how the task's last call ended
    nextId,         \* next_block_id
    active,         \* keys of active_blocks
    activeLock,     \* holder of the lock of active_blocks
    controlLock,    \* holder of the lock of control_downlink
    uplink,         \* commands on their way to the Crazyflie
    control,        \* answers in the channel control_downlink
    fw,             \* blocks in the Crazyflie
    fwVars,         \* number of variables of those blocks
    data,           \* data packets the data dispatcher has not seen
    channels,       \* keys of data_channels
    queue,          \* data packets in the channel of each block
    dispatcher,     \* the task spawned by spawn_data_dispatcher
    connected,      \* the connection is up
    calls,          \* number of calls each task has made
    samples,        \* number of data packets sent
    cancels         \* number of dropped futures

taskVars == <<pc, id, op, variables, streaming, scan, result>>
tableVars == <<nextId, active, activeLock, controlLock>>
wireVars == <<uplink, control, connected>>
fwVarsAll == <<fw, fwVars, samples>>
dataVars == <<data, channels, queue, dispatcher>>
boundVars == <<calls, cancels>>
vars == <<taskVars, tableVars, wireVars, fwVarsAll, dataVars, boundVars>>

Commands == {"create", "delete", "append", "start", "stop"}
Requests == [cmd : Commands, id : Ids]
Answers == [cmd : Commands, id : Ids, ok : BOOLEAN]
Samples == [id : Ids, n : Nat]

Pcs == {"idle", "lockActive", "scan", "lockDelete", "waitDelete", "takeId",
        "lockCreate", "waitCreate", "insert", "lockOp", "waitOp"}

TypeOK ==
    /\ pc \in [Tasks -> Pcs]
    /\ id \in [Tasks -> Ids \union {NoId}]
    /\ op \in [Tasks -> {"append", "start", "stop"}]
    /\ variables \in [Tasks -> Nat]
    /\ streaming \in [Tasks -> BOOLEAN]
    /\ scan \in [Tasks -> SUBSET Ids]
    /\ result \in [Tasks -> {"ok", "disconnected", "error", "noId"}]
    /\ nextId \in Ids
    /\ active \in SUBSET Ids
    /\ activeLock \in Tasks \union {NoTask}
    /\ controlLock \in Tasks \union {NoTask}
    /\ uplink \in Seq(Requests)
    /\ control \in Seq(Answers)
    /\ fw \in [Ids -> {"absent", "idle", "started"}]
    /\ fwVars \in [Ids -> Nat]
    /\ data \in Seq(Samples)
    /\ channels \in SUBSET Ids
    /\ queue \in [Ids -> Seq(Nat)]
    /\ dispatcher \in {"running", "ended"}
    /\ connected \in BOOLEAN
    /\ samples \in Nat
    /\ calls \in [Tasks -> Nat]
    /\ cancels \in Nat

\* Log::new has fetched the table of contents and reset the Crazyflie's log.
Init ==
    /\ pc = [t \in Tasks |-> "idle"]
    /\ id = [t \in Tasks |-> NoId]
    /\ op = [t \in Tasks |-> "append"]
    /\ variables = [t \in Tasks |-> 0]
    /\ streaming = [t \in Tasks |-> FALSE]
    /\ scan = [t \in Tasks |-> {}]
    /\ result = [t \in Tasks |-> "ok"]
    /\ nextId = 0
    /\ active = {}
    /\ activeLock = NoTask /\ controlLock = NoTask
    /\ uplink = <<>> /\ control = <<>>
    /\ fw = [i \in Ids |-> "absent"]
    /\ fwVars = [i \in Ids |-> 0]
    /\ data = <<>>
    /\ channels = {}
    /\ queue = [i \in Ids |-> <<>>]
    /\ dispatcher = "running"
    /\ connected = TRUE
    /\ samples = 0 /\ cancels = 0
    /\ calls = [t \in Tasks |-> 0]

-----------------------------------------------------------------------------
(* What a call is made of. *)

Goto(t, p) == pc' = [pc EXCEPT ![t] = p]

\* A call returns r.
Return(t, r) ==
    /\ Goto(t, "idle")
    /\ result' = [result EXCEPT ![t] = r]

Unlocked(lock, t) == IF lock = t THEN NoTask ELSE lock

\* The lock guards a call holds go with it, whatever it returns.
Unlock(t) ==
    /\ activeLock' = Unlocked(activeLock, t)
    /\ controlLock' = Unlocked(controlLock, t)

\* uplink.send_async(pk).await: an error once the uplink task is gone.  When
\* contact is lost the task may still be there, and the packet goes nowhere.
SendOk(cmd, i) ==
    uplink' = IF connected THEN Append(uplink, [cmd |-> cmd, id |-> i]) ELSE uplink
SendFails == ~connected

\* wait_packet(port, channel, [cmd, id])
Expected(t) ==
    CASE pc[t] = "waitDelete" ->
            [cmd |-> "delete", id |-> CHOOSE i \in scan[t] : \A j \in scan[t] : i <= j]
      [] pc[t] = "waitCreate" -> [cmd |-> "create", id |-> id[t]]
      [] pc[t] = "waitOp" -> [cmd |-> op[t], id |-> id[t]]

\* Mutant: the first answer is taken for the call's own.
MatchesAny(t, answer) == TRUE
Matches(t, answer) ==
    answer.cmd = Expected(t).cmd /\ answer.id = Expected(t).id

Waits(t) == pc[t] \in {"waitDelete", "waitCreate", "waitOp"}

Received(t) ==
    /\ control # <<>>
    /\ Matches(t, Head(control))
    /\ control' = Tail(control)

Discard(t) ==
    /\ Waits(t)
    /\ control # <<>>
    /\ ~Matches(t, Head(control))
    /\ control' = Tail(control)
    /\ UNCHANGED <<taskVars, tableVars, uplink, connected, fwVarsAll, dataVars, boundVars>>

\* The object of a call that consumes it is dropped when the call fails.
Forget(t) ==
    /\ id' = [id EXCEPT ![t] = NoId]
    /\ variables' = [variables EXCEPT ![t] = 0]
    /\ streaming' = [streaming EXCEPT ![t] = FALSE]

\* add_variable borrows the block; create_block, start and stop own it.
Owning(t) == ~(pc[t] \in {"lockOp", "waitOp"} /\ op[t] = "append")

Fails(t, r) ==
    /\ Return(t, r)
    /\ Unlock(t)
    /\ IF Owning(t) THEN Forget(t) ELSE UNCHANGED <<id, variables, streaming>>
    /\ scan' = [scan EXCEPT ![t] = {}]
    /\ UNCHANGED <<op, nextId, active>>

\* The channel is closed and empty: Error::Disconnected.
WaitFails(t) ==
    /\ Waits(t)
    /\ ~connected
    /\ control = <<>>
    /\ Fails(t, "disconnected")
    /\ UNCHANGED <<wireVars, fwVarsAll, dataVars, boundVars>>

-----------------------------------------------------------------------------
(* create_block *)

\* The task's LogBlock or LogStream, with its strong reference.
Holds(t, i) == id[t] = i /\ pc[t] \in {"idle", "lockOp", "waitOp"}
\* Mutant: start() does not move the strong reference into the stream.
AliveIdle(i) == \E t \in Tasks : Holds(t, i) /\ ~streaming[t]
\* canary.upgrade() is Some
Alive(i) == \E t \in Tasks : Holds(t, i)

Called(t) ==
    /\ pc[t] = "idle"
    /\ calls[t] < MaxCalls
    /\ calls' = [calls EXCEPT ![t] = @ + 1]
    /\ UNCHANGED cancels

Creating(t) == pc[t] \notin {"idle", "lockOp", "waitOp"}

CreateBlock(t) ==
    /\ Called(t)
    /\ id[t] = NoId
    /\ Cardinality({s \in Tasks : Creating(s)}) < MaxCreating
    /\ Goto(t, "lockActive")
    /\ UNCHANGED <<id, op, variables, streaming, scan, result, tableVars,
                   wireVars, fwVarsAll, dataVars>>

\* cleanup_blocks locks active_blocks and goes through a copy of it.
LockActive(t) ==
    /\ pc[t] = "lockActive"
    /\ activeLock = NoTask
    /\ activeLock' = t
    /\ scan' = [scan EXCEPT ![t] = active]
    /\ Goto(t, "scan")
    /\ UNCHANGED <<id, op, variables, streaming, result, nextId, active,
                   controlLock, wireVars, fwVarsAll, dataVars, boundVars>>

\* The smallest identifier of the copy; its block is used, or to be deleted.
Scan(t) ==
    /\ pc[t] = "scan"
    /\ \E i \in scan[t] :
        /\ \A j \in scan[t] : i <= j
        /\ \/ Alive(i) /\ scan' = [scan EXCEPT ![t] = @ \ {i}] /\ UNCHANGED pc
           \/ ~Alive(i) /\ Goto(t, "lockDelete") /\ UNCHANGED scan
    /\ UNCHANGED <<id, op, variables, streaming, result, tableVars, wireVars,
                   fwVarsAll, dataVars, boundVars>>

\* Mutant: the entry is removed before the Crazyflie has answered.
TableWithout(i) == active' = active \ {i}
TableKept(i) == UNCHANGED active

SendDelete(t) ==
    /\ pc[t] = "lockDelete"
    /\ controlLock = NoTask
    /\ \E i \in scan[t] :
        /\ \A j \in scan[t] : i <= j
        /\ SendOk("delete", i)
        /\ TableKept(i)
    /\ controlLock' = t
    /\ Goto(t, "waitDelete")
    /\ UNCHANGED <<id, op, variables, streaming, scan, result, nextId,
                   activeLock, control, connected, fwVarsAll, dataVars, boundVars>>

DeleteAnswered(t) ==
    /\ pc[t] = "waitDelete"
    /\ Received(t)
    /\ \/ /\ Head(control).ok
          /\ active' = active \ {Head(control).id}
          /\ scan' = [scan EXCEPT ![t] = @ \ {Head(control).id}]
          /\ controlLock' = NoTask
          /\ Goto(t, "scan")
          /\ UNCHANGED <<id, op, variables, streaming, result, nextId, activeLock>>
       \/ ~Head(control).ok /\ Fails(t, "error")
    /\ UNCHANGED <<uplink, connected, fwVarsAll, dataVars, boundVars>>

\* The guard is dropped when cleanup_blocks returns.
\* Mutant: the guard lives on in create_block.
KeepGuard(t) == UNCHANGED activeLock
DropGuard(t) == activeLock' = NoTask

CleanupDone(t) ==
    /\ pc[t] = "scan"
    /\ scan[t] = {}
    /\ DropGuard(t)
    /\ Goto(t, "takeId")
    /\ UNCHANGED <<id, op, variables, streaming, scan, result, nextId, active,
                   controlLock, wireVars, fwVarsAll, dataVars, boundVars>>

\* generate_next_block_id refuses when next_block_id is u8::MAX.
\* Mutant: it does not.
IdsUsedUpNever == FALSE
IdsUsedUp == nextId = IdSpace - 1

\* Mutant: the counter wraps round.
IncrementWraps == nextId' = (nextId + 1) % (IdSpace - 1)
Increment == nextId' = nextId + 1

TakeId(t) ==
    /\ pc[t] = "takeId"
    /\ ~IdsUsedUp
    /\ id' = [id EXCEPT ![t] = nextId]
    /\ Increment
    /\ Goto(t, "lockCreate")
    /\ UNCHANGED <<op, variables, streaming, scan, result, active, activeLock,
                   controlLock, wireVars, fwVarsAll, dataVars, boundVars>>

NoIdLeft(t) ==
    /\ pc[t] = "takeId"
    /\ IdsUsedUp
    /\ Fails(t, "noId")
    /\ UNCHANGED <<wireVars, fwVarsAll, dataVars, boundVars>>

SendCreate(t) ==
    /\ pc[t] = "lockCreate"
    /\ controlLock = NoTask
    /\ SendOk("create", id[t])
    /\ controlLock' = t
    /\ Goto(t, "waitCreate")
    /\ UNCHANGED <<id, op, variables, streaming, scan, result, nextId, active,
                   activeLock, control, connected, fwVarsAll, dataVars, boundVars>>

\* The channel of the block's data is made before the block is entered in
\* active_blocks, whose lock is awaited with the control lock held.
CreateAnswered(t) ==
    /\ pc[t] = "waitCreate"
    /\ Received(t)
    /\ \/ /\ Head(control).ok
          /\ channels' = channels \union {id[t]}
          /\ Goto(t, "insert")
          /\ UNCHANGED <<id, op, variables, streaming, scan, result, tableVars>>
       \/ ~Head(control).ok /\ Fails(t, "error") /\ UNCHANGED channels
    /\ UNCHANGED <<uplink, connected, fwVarsAll, data, queue, dispatcher, boundVars>>

Insert(t) ==
    /\ pc[t] = "insert"
    /\ activeLock = NoTask
    /\ active' = active \union {id[t]}
    /\ controlLock' = NoTask
    /\ Return(t, "ok")
    /\ UNCHANGED <<id, op, variables, streaming, scan, nextId, activeLock,
                   wireVars, fwVarsAll, dataVars, boundVars>>

-----------------------------------------------------------------------------
(* add_variable, start and stop; next; the drop of a block or a stream. *)

CallOp(t, o) ==
    /\ Called(t)
    /\ id[t] # NoId
    /\ streaming[t] = (o = "stop")
    /\ op' = [op EXCEPT ![t] = o]
    /\ Goto(t, "lockOp")
    /\ UNCHANGED <<id, variables, streaming, scan, result, tableVars, wireVars,
                   fwVarsAll, dataVars>>

SendOp(t) ==
    /\ pc[t] = "lockOp"
    /\ controlLock = NoTask
    /\ SendOk(op[t], id[t])
    /\ controlLock' = t
    /\ Goto(t, "waitOp")
    /\ UNCHANGED <<id, op, variables, streaming, scan, result, nextId, active,
                   activeLock, control, connected, fwVarsAll, dataVars, boundVars>>

\* Mutant: the variable is listed whatever the Crazyflie answers.
ListedAlways(t, ok) == IF op[t] = "append" THEN variables[t] + 1 ELSE variables[t]
Listed(t, ok) == IF op[t] = "append" /\ ok THEN variables[t] + 1 ELSE variables[t]

OpAnswered(t) ==
    /\ pc[t] = "waitOp"
    /\ Received(t)
    /\ controlLock' = NoTask
    /\ Return(t, IF Head(control).ok THEN "ok" ELSE "error")
    /\ IF Head(control).ok \/ op[t] = "append"
       THEN /\ streaming' = [streaming EXCEPT ![t] = op[t] = "start"]
            /\ variables' = [variables EXCEPT ![t] = Listed(t, Head(control).ok)]
            /\ UNCHANGED id
       ELSE Forget(t)
    /\ UNCHANGED <<op, scan, nextId, active, activeLock, uplink, connected,
                   fwVarsAll, dataVars, boundVars>>

\* A send fails: Error::Disconnected.
SendError(t) ==
    /\ pc[t] \in {"lockDelete", "lockCreate", "lockOp"}
    /\ controlLock = NoTask
    /\ SendFails
    /\ Fails(t, "disconnected")
    /\ UNCHANGED <<wireVars, fwVarsAll, dataVars, boundVars>>

\* next() decodes the oldest packet of the block's channel
NextSample(t) ==
    /\ pc[t] = "idle"
    /\ streaming[t]
    /\ queue[id[t]] # <<>>
    /\ queue' = [queue EXCEPT ![id[t]] = Tail(@)]
    /\ result' = [result EXCEPT ![t] = "ok"]
    /\ UNCHANGED <<pc, id, op, variables, streaming, scan, tableVars, wireVars,
                   fwVarsAll, data, channels, dispatcher, boundVars>>

\* or finds it closed: Error::Disconnected.
NextError(t) ==
    /\ pc[t] = "idle"
    /\ streaming[t]
    /\ queue[id[t]] = <<>>
    /\ id[t] \notin channels
    /\ result' = [result EXCEPT ![t] = "disconnected"]
    /\ UNCHANGED <<pc, id, op, variables, streaming, scan, tableVars, wireVars,
                   fwVarsAll, dataVars, boundVars>>

DropBlock(t) ==
    /\ pc[t] = "idle"
    /\ id[t] # NoId
    /\ Forget(t)
    /\ UNCHANGED <<pc, op, scan, result, tableVars, wireVars, fwVarsAll,
                   dataVars, boundVars>>

\* The program drops the future of a call at one of its awaits.
Cancel(t) ==
    /\ pc[t] # "idle"
    /\ cancels < MaxCancels
    /\ cancels' = cancels + 1
    /\ Fails(t, "error")
    /\ UNCHANGED <<wireVars, fwVarsAll, dataVars, calls>>

-----------------------------------------------------------------------------
(* The data dispatcher. *)

\* Someone still has the receiver of the block's channel.
Receiving(i) == \E t \in Tasks : id[t] = i /\ ~(pc[t] \in {"lockCreate", "waitCreate"})

\* A packet of a block whose receiver is gone ends the dispatcher, and the
\* end of the dispatcher closes the channels of all the blocks.
Dispatch ==
    /\ dispatcher = "running"
    /\ data # <<>>
    /\ data' = Tail(data)
    /\ LET i == Head(data).id IN
        \/ /\ i \in channels /\ Receiving(i)
           /\ queue' = [queue EXCEPT ![i] = Append(@, Head(data).n)]
           /\ UNCHANGED <<channels, dispatcher>>
        \/ /\ i \in channels /\ ~Receiving(i)
           /\ dispatcher' = "ended"
           /\ channels' = {}
           /\ UNCHANGED queue
        \/ i \notin channels /\ UNCHANGED <<queue, channels, dispatcher>>
    /\ UNCHANGED <<taskVars, tableVars, wireVars, fwVarsAll, boundVars>>

DispatchEnd ==
    /\ dispatcher = "running"
    /\ data = <<>>
    /\ ~connected
    /\ dispatcher' = "ended"
    /\ channels' = {}
    /\ UNCHANGED <<taskVars, tableVars, wireVars, fwVarsAll, data, queue, boundVars>>

-----------------------------------------------------------------------------
(* External: the Crazyflie and the connection. *)

Blocks == {i \in Ids : fw[i] # "absent"}

\* Whether the Crazyflie carries out a command.
Accepts(r) ==
    CASE r.cmd = "create" -> r.id \notin Blocks /\ Cardinality(Blocks) < Capacity
      [] r.cmd = "append" -> r.id \in Blocks /\ fwVars[r.id] < MaxVars
      [] OTHER -> r.id \in Blocks

FwCommand ==
    /\ connected
    /\ uplink # <<>>
    /\ uplink' = Tail(uplink)
    /\ LET r == Head(uplink) IN
        /\ control' = Append(control, [cmd |-> r.cmd, id |-> r.id, ok |-> Accepts(r)])
        /\ fw' = [fw EXCEPT ![r.id] =
                    IF ~Accepts(r) THEN @
                    ELSE CASE r.cmd = "delete" -> "absent"
                           [] r.cmd = "start" -> "started"
                           [] r.cmd \in {"create", "stop"} -> "idle"
                           [] r.cmd = "append" -> @]
        /\ fwVars' = [fwVars EXCEPT ![r.id] =
                    CASE Accepts(r) /\ r.cmd = "append" -> @ + 1
                      [] Accepts(r) /\ r.cmd = "create" -> 0
                      [] OTHER -> @]
    /\ UNCHANGED <<taskVars, tableVars, connected, samples, dataVars, boundVars>>

FwSample(i) ==
    /\ connected
    /\ fw[i] = "started"
    /\ samples < MaxSamples
    /\ samples' = samples + 1
    /\ data' = Append(data, [id |-> i, n |-> fwVars[i]])
    /\ UNCHANGED <<taskVars, tableVars, wireVars, fw, fwVars, channels, queue,
                   dispatcher, boundVars>>

\* The connection ends: commands on their way are lost, and so are the last
\* answers and samples; those that have come in can still be read.
ConnectionEnds ==
    /\ connected
    /\ connected' = FALSE
    /\ uplink' = <<>>
    /\ \E n \in 0..Len(control) : control' = SubSeq(control, 1, n)
    /\ \E n \in 0..Len(data) : data' = SubSeq(data, 1, n)
    /\ UNCHANGED <<taskVars, tableVars, fwVarsAll, channels, queue, dispatcher,
                   boundVars>>

-----------------------------------------------------------------------------
CreateStep(t) ==
    \/ LockActive(t) \/ Scan(t) \/ SendDelete(t) \/ DeleteAnswered(t)
    \/ CleanupDone(t) \/ TakeId(t) \/ NoIdLeft(t) \/ SendCreate(t)
    \/ CreateAnswered(t) \/ Insert(t)

CallStep(t) ==
    \/ CreateStep(t) \/ SendOp(t) \/ OpAnswered(t)
    \/ SendError(t) \/ Discard(t) \/ WaitFails(t)

Next ==
    \/ \E t \in Tasks :
        \/ CallStep(t)
        \/ CreateBlock(t) \/ \E o \in {"append", "start", "stop"} : CallOp(t, o)
        \/ NextSample(t) \/ NextError(t) \/ DropBlock(t) \/ Cancel(t)
    \/ Dispatch \/ DispatchEnd
    \/ FwCommand \/ (\E i \in Ids : FwSample(i)) \/ ConnectionEnds

Spec == Init /\ [][Next]_vars

(* A call goes on when it can, the Crazyflie answers every command it gets  *)
(* and the data dispatcher runs.  The locks are futures::lock::Mutex, which *)
(* is not fair: that a call gets a lock in the end follows from the others  *)
(* making finitely many calls (MaxCalls), not from an assumption here.      *)
Fairness ==
    /\ \A t \in Tasks : WF_vars(CallStep(t))
    /\ WF_vars(FwCommand)
    /\ WF_vars(Dispatch \/ DispatchEnd)

FairSpec == Spec /\ Fairness

-----------------------------------------------------------------------------
(* Properties *)

\* A block identifier is given out once: no two objects share one, and a block
\* about to be created finds its identifier unused in the Crazyflie and in both
\* tables (generate_next_block_id, create_block, which replaces a channel).
IdsUnique ==
    /\ \A s, t \in Tasks : s # t /\ id[s] # NoId => id[s] # id[t]
    /\ \A t \in Tasks :
           pc[t] = "lockCreate" => id[t] \notin Blocks \union active \union channels

\* The clean-up made by one task never deletes the block another task uses, and
\* what an object of the program is, LogBlock or LogStream, is what the block is
\* in the Crazyflie (cleanup_blocks; LogBlock "represents an IDLE LogBlock").
BlocksKept ==
    \A t \in Tasks, i \in Ids :
        Holds(t, i) =>
            /\ fw[i] # "absent"
            /\ pc[t] = "idle" => (streaming[t] <=> fw[i] = "started")

\* No block is left behind in the Crazyflie: each one belongs to an object, is
\* being created, or is in the table the next create_block cleans up from.
\* (When the connection is lost the next one starts with a reset, Log::new; a
\* create_block whose future is dropped after the answer does leave one.)
NoLeak ==
    connected /\ cancels = 0 => \A i \in Blocks : i \in active \/ \E t \in Tasks : id[t] = i

\* A stream decodes with as many variables as the Crazyflie puts in a packet
\* (decode_packet slices the packet by the local list of variables), unless the
\* future of an add_variable has been dropped.
VariablesAgree ==
    cancels = 0 => \A t \in Tasks : streaming[t] => variables[t] = fwVars[id[t]]

\* "The Crazyflie object is intended to be shared between tasks" (lib.rs): two
\* calls never wait for each other's lock.  create_block holds the lock of
\* control_downlink and waits for that of active_blocks; cleanup_blocks does
\* the opposite.
NoCircularWait ==
    ~\E s, t \in Tasks :
        /\ activeLock = s /\ pc[s] = "lockDelete"
        /\ controlLock = t /\ pc[t] = "insert"

\* Every call returns, dropped futures and a lost connection included, as long
\* as the calls of the other tasks come to an end: two create_block calls that
\* wait for each other are the only way to wait for ever.
CallsReturn ==
    \A t \in Tasks : pc[t] # "idle" ~> pc[t] = "idle" \/ ~NoCircularWait

\* "This function will return an error if the Crazyflie gets disconnected"
\* (LogStream::next), and Error::Disconnected says it is: the channel of a
\* stream stays open as long as the connection is up.
StreamsSurvive ==
    connected => \A t \in Tasks : streaming[t] => id[t] \in channels
=============================================================================
