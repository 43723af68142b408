-------------------------------- MODULE Param --------------------------------
(***************************************************************************)
(* The parameter subsystem of one Crazyflie object, shared by several      *)
(* tasks of the program: the cache of values that get, set and the task    *)
(* started by spawn_misc_loop keep together, the watchers they notify, and *)
(* the Crazyflie.  The queries the misc loop passes on are in Storage.     *)
(*                                                                         *)
(* Answers come back on three queues, one for each CRTP channel of the     *)
(* port, and each queue has its own reader: what the Crazyflie sent in one *)
(* order on two channels may be dealt with in the other order.             *)
(*                                                                         *)
(* The type of a parameter is checked before anything else happens; all    *)
(* calls here pass that check.                                             *)
(***************************************************************************)
EXTENDS Naturals, Sequences

CONSTANTS
    Users,          \* tasks of the program that share the Crazyflie object
    Params,         \* parameters in the table of contents
    Settable,       \* parameters the program sets
    Changing,       \* parameters the Crazyflie changes by itself
    Values,         \* values of a parameter
    ErrorCode,      \* what the Crazyflie echoes when it refuses a value
    NoValue,        \* None: not read yet
    Loop, NoOne,    \* the misc loop as holder of a lock; nobody
    MaxCalls,       \* bound: calls of get and set
    MaxStreams,     \* bound: streams opened
    MaxUpdates,     \* bound: updates sent by the Crazyflie
    MaxCancels      \* bound: calls whose future is dropped

ASSUME ParamAssumption ==
    Params # {} /\ Settable \subseteq Params /\ Changing \subseteq Params
ASSUME ValueAssumption == Values # {} /\ NoValue \notin Values
ASSUME HolderAssumption == Loop \notin Users /\ NoOne \notin Users \union {Loop}
ASSUME BoundAssumption ==
    /\ MaxCalls \in Nat /\ MaxStreams \in Nat
    /\ MaxUpdates \in Nat /\ MaxCancels \in Nat

VARIABLES
    pc,             \* where each user is
    arg,            \* parameter and value of its call
    values,         \* the cache, an empty function once it is cleared
    valuesLock,     \* holder of the lock of values
    writeLock,      \* holder of the lock of write_downlink
    watchers,       \* users whose stream is in the list of watchers
    heard,          \* history: what each user's stream was told last, from
                    \* what the cache held when the stream was opened
    loop,           \* where the misc loop is
    update,         \* the update it is dealing with
    uplink,         \* requests on their way to the Crazyflie
    read, write, misc,  \* packets in the queues of the three channels
    fw,             \* values in the Crazyflie
    uplinkUp,       \* the uplink task runs
    downlinkUp,     \* the dispatchers run
    applied,        \* history: the Crazyflie has carried out the user's set
    calls, opened, updates, cancels  \* counters for the bounds

callVars == <<pc, arg>>
cacheVars == <<values, valuesLock>>
watchVars == <<watchers, heard>>
loopVars == <<loop, update>>
wireVars == <<uplink, read, write, misc>>
linkVars == <<uplinkUp, downlinkUp>>
fwVars == <<fw, applied>>
boundVars == <<calls, opened, updates, cancels>>
vars == <<callVars, cacheVars, writeLock, watchVars, loopVars, wireVars,
          linkVars, fwVars, boundVars>>

Pcs == {"idle", "getLock", "getWait", "setLock", "setWait", "setStore",
        "setNotify", "watchPush"}

Requests == [cmd : {"read", "set"}, by : Users, param : Params,
             value : Values]
Readings == [param : Params, value : Values]
Answers == [param : Params, value : Values \union {ErrorCode}]
MiscPackets == [kind : {"update", "malformed"}, param : Params,
                value : Values]

TypeOK ==
    /\ pc \in [Users -> Pcs]
    /\ arg \in [Users -> [param : Params, value : Values]]
    /\ values \in [Params -> Values \union {NoValue}] \/ values = <<>>
    /\ valuesLock \in Users \union {Loop, NoOne}
    /\ writeLock \in Users \union {NoOne}
    /\ watchers \in SUBSET Users
    /\ heard \in [Users -> [Params -> Values \union {NoValue}]]
    /\ loop \in {"recv", "store", "notify", "clearValues", "clearWatchers", "ended"}
    /\ update \in MiscPackets
    /\ uplink \in Seq(Requests)
    /\ read \in Seq(Readings) /\ write \in Seq(Answers)
    /\ misc \in Seq(MiscPackets)
    /\ fw \in [Params -> Values]
    /\ uplinkUp \in BOOLEAN /\ downlinkUp \in BOOLEAN
    /\ applied \in [Users -> BOOLEAN]
    /\ calls \in Nat /\ opened \in Nat
    /\ updates \in Nat /\ cancels \in Nat

\* What a call or the loop holds between two calls or two updates.
NoArg == [param |-> CHOOSE p \in Params : TRUE, value |-> CHOOSE v \in Values : TRUE]
NoUpdate == [kind |-> "update", param |-> NoArg.param, value |-> NoArg.value]
NothingHeard == [p \in Params |-> NoValue]

\* Param::new: the values are all None (initialize_values).
Init ==
    /\ pc = [u \in Users |-> "idle"]
    /\ arg = [u \in Users |-> NoArg]
    /\ values = [p \in Params |-> NoValue]
    /\ valuesLock = NoOne /\ writeLock = NoOne
    /\ watchers = {}
    /\ heard = [u \in Users |-> NothingHeard]
    /\ loop = "recv"
    /\ update = NoUpdate
    /\ uplink = <<>>
    /\ read = <<>> /\ write = <<>> /\ misc = <<>>
    /\ fw = [p \in Params |-> CHOOSE v \in Values : TRUE]
    /\ uplinkUp = TRUE /\ downlinkUp = TRUE
    /\ applied = [u \in Users |-> FALSE]
    /\ calls = 0 /\ opened = 0 /\ updates = 0 /\ cancels = 0

-----------------------------------------------------------------------------
(* What a call is made of. *)

Goto(u, p) == pc' = [pc EXCEPT ![u] = p]

\* A call returns, whatever it returns: what it held is gone.
Return(u) ==
    /\ Goto(u, "idle")
    /\ arg' = [arg EXCEPT ![u] = NoArg]
    /\ applied' = [applied EXCEPT ![u] = FALSE]

Unlocked(lock, u) == IF lock = u THEN NoOne ELSE lock

\* A call ends early: the guards it holds are dropped.
Fails(u) ==
    /\ Return(u)
    /\ valuesLock' = Unlocked(valuesLock, u)
    /\ writeLock' = Unlocked(writeLock, u)
    /\ UNCHANGED <<values, watchVars, loopVars, wireVars, linkVars, fw>>

\* uplink.send_async(request).await is Ok as long as the uplink task runs.
Send(u, cmd) ==
    /\ uplinkUp
    /\ uplink' = IF downlinkUp
                 THEN Append(uplink, [cmd |-> cmd, by |-> u,
                                      param |-> arg[u].param, value |-> arg[u].value])
                 ELSE uplink

Call(u, p, a) ==
    /\ pc[u] = "idle"
    /\ calls < MaxCalls
    /\ calls' = calls + 1
    /\ Goto(u, p)
    /\ arg' = [arg EXCEPT ![u] = a]
    /\ UNCHANGED <<cacheVars, writeLock, watchVars, loopVars, wireVars, linkVars,
                   fwVars, opened, updates, cancels>>

-----------------------------------------------------------------------------
(* get *)

CallGet(u) ==
    \E p \in Params : Call(u, "getLock", [arg[u] EXCEPT !.param = p])

\* *values.get_mut(p).unwrap() = Some(v)
Stored(p, v) == [q \in DOMAIN values |-> IF q = p THEN v ELSE values[q]]

Cached(p) == p \in DOMAIN values /\ values[p] # NoValue

\* The lock of values is taken; the value is in the cache (Ok), or the name is
\* not (an error).
GetCached(u) ==
    /\ pc[u] = "getLock"
    /\ valuesLock = NoOne
    /\ \/ Cached(arg[u].param) /\ Return(u)
       \/ arg[u].param \notin DOMAIN values /\ Return(u)
    /\ UNCHANGED <<cacheVars, writeLock, watchVars, loopVars, wireVars, linkVars,
                   fw, boundVars>>

\* The lock of values is held while the value is read.
\* Mutant: the lock is let go before the read.
LetGoForRead(u) == UNCHANGED valuesLock
HoldForRead(u) == valuesLock' = u

GetRead(u) ==
    /\ pc[u] = "getLock"
    /\ valuesLock = NoOne
    /\ arg[u].param \in DOMAIN values /\ ~Cached(arg[u].param)
    /\ Send(u, "read")
    /\ HoldForRead(u)
    /\ Goto(u, "getWait")
    /\ UNCHANGED <<arg, values, writeLock, watchVars, loopVars, read,
                   write, misc, linkVars, fwVars, boundVars>>

\* wait_packet: the answer begins with the identifier of the parameter.  Bytes
\* that are not of its type are an error of read_value.
GetAnswered(u) ==
    /\ pc[u] = "getWait"
    /\ read # <<>>
    /\ read' = Tail(read)
    /\ \/ /\ Head(read).param = arg[u].param
          /\ \/ values' = Stored(arg[u].param, Head(read).value)
             \/ UNCHANGED values
          /\ valuesLock' = NoOne
          /\ Return(u)
       \/ Head(read).param # arg[u].param /\ UNCHANGED <<cacheVars, callVars, applied>>
    /\ UNCHANGED <<writeLock, watchVars, loopVars, uplink, write, misc, linkVars,
                   fw, boundVars>>

-----------------------------------------------------------------------------
(* set *)

CallSet(u) ==
    \E p \in Settable, v \in Values :
        Call(u, "setLock", [param |-> p, value |-> v])

SetSend(u) ==
    /\ pc[u] = "setLock"
    /\ writeLock = NoOne
    /\ Send(u, "set")
    /\ writeLock' = u
    /\ Goto(u, "setWait")
    /\ UNCHANGED <<arg, cacheVars, watchVars, loopVars, read,
                   write, misc, linkVars, fwVars, boundVars>>

\* Mutant: any answer for the parameter is a success.
EchoIgnored(u, answer) == TRUE
\* "Success response: firmware echoes back the written value"
Echoed(u, answer) == answer.value = arg[u].value

SetAnswered(u) ==
    /\ pc[u] = "setWait"
    /\ write # <<>>
    /\ write' = Tail(write)
    /\ \/ /\ Head(write).param # arg[u].param
          /\ UNCHANGED <<callVars, writeLock, applied>>
       \/ /\ Head(write).param = arg[u].param
          /\ Echoed(u, Head(write))
          /\ Goto(u, "setStore")
          /\ UNCHANGED <<arg, writeLock, applied>>
       \/ /\ Head(write).param = arg[u].param
          /\ ~Echoed(u, Head(write))
          /\ Return(u)
          /\ writeLock' = NoOne
    /\ UNCHANGED <<cacheVars, watchVars, loopVars, uplink, read, misc, linkVars,
                   fw, boundVars>>

\* values.lock().await.get_mut(param).unwrap(), a panic if the cache is empty;
\* the guard is gone at the end of the statement.
\* Mutant: the lock of write_downlink does not last until the notification.
ReleaseEarly(u) == writeLock' = NoOne
\* Mutant: the misc loop is handed the lock for its own notification.
ReleaseToCaller(u) == writeLock' = Loop
KeepWriteLock(u) == UNCHANGED writeLock

SetStore(u) ==
    /\ pc[u] = "setStore"
    /\ valuesLock = NoOne
    /\ arg[u].param \in DOMAIN values
    /\ values' = Stored(arg[u].param, arg[u].value)
    /\ KeepWriteLock(u)
    /\ Goto(u, "setNotify")
    /\ UNCHANGED <<arg, valuesLock, watchVars, loopVars,
                   wireVars, linkVars, fwVars, boundVars>>

SetPanic(u) ==
    /\ pc[u] = "setStore"
    /\ valuesLock = NoOne
    /\ arg[u].param \notin DOMAIN values
    /\ Fails(u)
    /\ UNCHANGED boundVars

\* notify_watchers; a watcher whose stream is gone is taken off the list.
Notify(p, v) ==
    /\ heard' = [u \in Users |-> IF u \in watchers
                                 THEN [heard[u] EXCEPT ![p] = v] ELSE heard[u]]
    /\ UNCHANGED watchers

SetNotify(u) ==
    /\ pc[u] = "setNotify"
    /\ Notify(arg[u].param, arg[u].value)
    /\ writeLock' = Unlocked(writeLock, u)
    /\ Return(u)
    /\ UNCHANGED <<cacheVars, loopVars, wireVars, linkVars, fw, boundVars>>

-----------------------------------------------------------------------------
(* watch_change, errors and dropped calls. *)

\* "if self.uplink.is_disconnected()", then the list of watchers.
CallWatch(u) ==
    /\ pc[u] = "idle"
    /\ u \notin watchers
    /\ opened < MaxStreams
    /\ opened' = opened + 1
    /\ uplinkUp
    /\ Goto(u, "watchPush")
    /\ UNCHANGED <<arg, cacheVars, writeLock, watchVars, loopVars, wireVars,
                   linkVars, fwVars, calls, updates, cancels>>

WatchPush(u) ==
    /\ pc[u] = "watchPush"
    /\ watchers' = watchers \union {u}
    /\ heard' = [heard EXCEPT ![u] = [p \in Params |->
                    IF p \in DOMAIN values THEN values[p] ELSE NoValue]]
    /\ Return(u)
    /\ UNCHANGED <<cacheVars, writeLock, loopVars, wireVars, linkVars, fw, boundVars>>

\* The program drops a stream, or reads its end once the list is cleared.
DropStream(u) ==
    /\ u \in watchers
    /\ pc[u] = "idle"
    /\ watchers' = watchers \ {u}
    /\ heard' = [heard EXCEPT ![u] = NothingHeard]
    /\ UNCHANGED <<callVars, cacheVars, writeLock, loopVars, wireVars,
                   linkVars, fwVars, boundVars>>

\* send_async is an error: Error::Disconnected.
SendError(u) ==
    /\ ~uplinkUp
    /\ \/ pc[u] = "getLock" /\ valuesLock = NoOne
          /\ arg[u].param \in DOMAIN values /\ ~Cached(arg[u].param)
       \/ pc[u] = "setLock" /\ writeLock = NoOne
    /\ Fails(u)
    /\ UNCHANGED boundVars

\* wait_packet finds the channel closed and empty: Error::Disconnected.
WaitError(u) ==
    /\ \/ pc[u] = "getWait" /\ read = <<>> /\ ~downlinkUp
       \/ pc[u] = "setWait" /\ write = <<>> /\ ~downlinkUp
    /\ Fails(u)
    /\ UNCHANGED boundVars

\* The program drops the future of a call.
Cancel(u) ==
    /\ pc[u] # "idle"
    /\ cancels < MaxCancels
    /\ cancels' = cancels + 1
    /\ Fails(u)
    /\ UNCHANGED <<calls, opened, updates>>

-----------------------------------------------------------------------------
(* The misc loop. *)

\* A parameter that is not in the table, or a value that is not of its type,
\* breaks the loop; an update too short for an identifier is a panic, and then
\* neither the cache nor the list of watchers is cleared.
LoopRecv ==
    /\ loop = "recv"
    /\ misc # <<>>
    /\ misc' = Tail(misc)
    /\ LET pk == Head(misc) IN
        \/ pk.kind = "update" /\ loop' = "store" /\ update' = pk
        \/ /\ pk.kind = "malformed"
           /\ loop' \in {"clearValues", "ended"}
           /\ UNCHANGED update
    /\ UNCHANGED <<callVars, cacheVars, writeLock, watchVars, uplink, read, write,
                   linkVars, fwVars, boundVars>>

LoopRecvError ==
    /\ loop = "recv"
    /\ misc = <<>>
    /\ ~downlinkUp
    /\ loop' = "clearValues"
    /\ UNCHANGED <<callVars, cacheVars, writeLock, watchVars, update,
                   wireVars, linkVars, fwVars, boundVars>>

\* Mutant: the guard of values outlives the assignment.
KeepValuesLock == valuesLock' = Loop
FreeValuesLock == UNCHANGED valuesLock

LoopStore ==
    /\ loop = "store"
    /\ valuesLock = NoOne
    /\ values' = Stored(update.param, update.value)
    /\ FreeValuesLock
    /\ loop' = "notify"
    /\ UNCHANGED <<callVars, writeLock, watchVars, update, wireVars,
                   linkVars, fwVars, boundVars>>

LoopNotify ==
    /\ loop = "notify"
    /\ Notify(update.param, update.value)
    /\ loop' = "recv"
    /\ update' = NoUpdate
    /\ UNCHANGED <<callVars, cacheVars, writeLock, wireVars, linkVars, fwVars,
                   boundVars>>

LoopClearValues ==
    /\ loop = "clearValues"
    /\ valuesLock = NoOne
    /\ values' = <<>>
    /\ loop' = "clearWatchers"
    /\ UNCHANGED <<callVars, valuesLock, writeLock, watchVars, update,
                   wireVars, linkVars, fwVars, boundVars>>

\* The streams end.
LoopClearWatchers ==
    /\ loop = "clearWatchers"
    /\ watchers' = {}
    /\ heard' = [u \in Users |-> NothingHeard]
    /\ loop' = "ended"
    /\ UNCHANGED <<callVars, cacheVars, writeLock, update,
                   wireVars, linkVars, fwVars, boundVars>>

LoopStep == LoopRecv \/ LoopRecvError \/ LoopStore \/ LoopNotify
              \/ LoopClearValues \/ LoopClearWatchers

-----------------------------------------------------------------------------
(* External: the Crazyflie and the connection. *)

FwRead(r) ==
    /\ r.cmd = "read"
    /\ read' = Append(read, [param |-> r.param, value |-> fw[r.param]])
    /\ UNCHANGED <<fwVars, write, misc>>

FwSet(r) ==
    /\ r.cmd = "set"
    /\ write' = Append(write, [param |-> r.param, value |-> r.value])
    /\ fw' = [fw EXCEPT ![r.param] = r.value]
    /\ applied' = [applied EXCEPT ![r.by] = TRUE]
    /\ UNCHANGED <<read, misc>>

FwRefuse(r) ==
    /\ r.cmd = "set"
    /\ write' = Append(write, [param |-> r.param, value |-> ErrorCode])
    /\ UNCHANGED <<fwVars, read, misc>>

FwRequest ==
    /\ downlinkUp
    /\ uplink # <<>>
    /\ uplink' = Tail(uplink)
    /\ LET r == Head(uplink) IN FwRead(r) \/ FwSet(r) \/ FwRefuse(r)
    /\ UNCHANGED <<callVars, cacheVars, writeLock, watchVars, loopVars, linkVars,
                   boundVars>>

\* The Crazyflie changes a parameter and says so.
FwChange(p, v) ==
    /\ downlinkUp
    /\ updates < MaxUpdates
    /\ updates' = updates + 1
    /\ fw' = [fw EXCEPT ![p] = v]
    /\ misc' = Append(misc, [kind |-> "update", param |-> p, value |-> v])
    /\ UNCHANGED <<callVars, cacheVars, writeLock, watchVars, loopVars, uplink,
                   read, write, linkVars, applied, calls, opened, cancels>>

\* An update of a parameter that is not in the table, or too short.
FwMalformed ==
    /\ downlinkUp
    /\ updates < MaxUpdates
    /\ updates' = updates + 1
    /\ misc' = Append(misc, [NoUpdate EXCEPT !.kind = "malformed"])
    /\ UNCHANGED <<callVars, cacheVars, writeLock, watchVars, loopVars, uplink,
                   read, write, linkVars, fwVars, calls, opened, cancels>>

\* The downlink ends when the link is lost; requests and the last packets sent
\* are lost.  The uplink task ends at the latest with a call of disconnect().
DownlinkEnds ==
    /\ downlinkUp
    /\ downlinkUp' = FALSE
    /\ uplink' = <<>>
    /\ \E n \in 0..Len(read) : read' = SubSeq(read, 1, n)
    /\ \E n \in 0..Len(write) : write' = SubSeq(write, 1, n)
    /\ \E n \in 0..Len(misc) : misc' = SubSeq(misc, 1, n)
    /\ UNCHANGED <<callVars, cacheVars, writeLock, watchVars, loopVars, uplinkUp,
                   fwVars, boundVars>>

UplinkEnds ==
    /\ uplinkUp
    /\ uplinkUp' = FALSE
    /\ \E n \in 0..Len(uplink) : uplink' = SubSeq(uplink, 1, n)
    /\ UNCHANGED <<callVars, cacheVars, writeLock, watchVars, loopVars, read,
                   write, misc, downlinkUp, fwVars, boundVars>>

-----------------------------------------------------------------------------
CallStep(u) ==
    \/ GetCached(u) \/ GetRead(u) \/ GetAnswered(u)
    \/ SetSend(u) \/ SetAnswered(u) \/ SetStore(u) \/ SetPanic(u) \/ SetNotify(u)
    \/ WatchPush(u) \/ SendError(u) \/ WaitError(u)

Next ==
    \/ \E u \in Users :
        \/ CallGet(u) \/ CallSet(u) \/ CallWatch(u)
        \/ CallStep(u) \/ DropStream(u) \/ Cancel(u)
    \/ LoopStep
    \/ FwRequest \/ (\E p \in Changing, v \in Values : FwChange(p, v)) \/ FwMalformed
    \/ DownlinkEnds \/ UplinkEnds

Spec == Init /\ [][Next]_vars

(* Calls and the misc loop go on when they can, and the Crazyflie answers   *)
(* every request it gets.  As in Log, the locks are not fair.  The uplink   *)
(* task ends with the flag or with a closed link, and either of them ends   *)
(* the dispatcher too (Connection).                                         *)
Fairness ==
    /\ \A u \in Users : WF_vars(CallStep(u))
    /\ WF_vars(LoopStep)
    /\ WF_vars(FwRequest)
    /\ WF_vars(~uplinkUp /\ DownlinkEnds)

FairSpec == Spec /\ Fairness

-----------------------------------------------------------------------------
(* Properties *)

Quiet ==
    /\ uplinkUp /\ downlinkUp
    /\ \A u \in Users : pc[u] = "idle"
    /\ uplink = <<>> /\ read = <<>> /\ write = <<>> /\ misc = <<>>
    /\ loop = "recv"

\* The cache agrees with the Crazyflie when nothing is in flight: a get whose
\* answer is overtaken by a set does not leave the older value in the cache
\* (get holds the lock of values while it reads), and the updates the
\* Crazyflie sends are taken in ("updates the local value cache").
CacheCoherent ==
    Quiet /\ cancels = 0 => \A p \in DOMAIN values : values[p] \in {NoValue, fw[p]}

\* The last thing a stream is told about a parameter is what the cache holds:
\* no change is kept from it, and two sets of one parameter notify in the order
\* they store.  A value that get reads for the first time is no change.
WatchersAgree ==
    Quiet /\ cancels = 0 => \A u \in watchers, p \in DOMAIN values :
                 heard[u][p] \in {NoValue, values[p]}

\* "If the set is successful Ok(()) is returned, otherwise the error code
\* reported by the Crazyflie is returned": a set that is about to succeed has
\* been carried out by the Crazyflie, for this call and not for an earlier one.
SetHonest ==
    cancels = 0 => \A u \in Users : pc[u] \in {"setStore", "setNotify"} => applied[u]

\* Every call returns: get, set and the misc loop never end up
\* waiting for one another, nor for an answer that will not come.
CallsReturn == \A u \in Users : pc[u] # "idle" ~> pc[u] = "idle"
=============================================================================
