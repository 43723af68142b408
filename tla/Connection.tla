----------------------------- MODULE Connection -----------------------------
(***************************************************************************)
(* The life of a Crazyflie object: connect_from_link, the uplink task, the *)
(* downlink dispatcher, any number of concurrent calls of disconnect() and *)
(* wait_disconnect(), the drop of the object, and the loss of the link.    *)
(*                                                                         *)
(* Two tasks share an AtomicBool with the object.  Each runs a loop        *)
(* "while not disconnect, receive with a timeout", so each looks at the    *)
(* flag only between two receptions.  disconnect() sets the flag, takes    *)
(* the JoinHandle of each task out of a mutex and awaits it with the mutex *)
(* locked, and closes the link.                                            *)
(*                                                                         *)
(* A user is a subsystem call in progress: it puts a packet in the uplink  *)
(* queue and waits for an answer on its port.  Connector is the one that   *)
(* connect_from_link runs before the object exists.                        *)
(***************************************************************************)
EXTENDS Naturals, Sequences

CONSTANTS
    Clients,        \* tasks of the program that call the subsystems
    Closers,        \* calls of disconnect() or wait_disconnect()
    Connector,      \* the requests connect_from_link makes
    NoOne,          \* the holder of a free mutex, the packet of an idle task
    MaxRequests,    \* bound: requests made by one client
    Rounds,         \* bound: requests made by connect_from_link
    MaxCancels      \* bound: calls of disconnect() dropped before they return

Users == Clients \union {Connector}
Tasks == {"uplink", "dispatch"}

ASSUME ConnectorAssumption == Connector \notin Clients
ASSUME NoOneAssumption == NoOne \notin Closers /\ NoOne \notin Users \X Nat
ASSUME BoundsAssumption ==
    MaxRequests \in Nat /\ Rounds \in Nat /\ MaxCancels \in Nat

VARIABLES
    object,         \* the Crazyflie object, or the connect call that makes it
    disconnect,     \* the AtomicBool the tasks poll
    link,           \* the radio link
    task,           \* where each task is in its loop
    inflight,       \* the packet the uplink task is handing to the link
    uplink,         \* the unbounded queue from the subsystems to the task
    downlink,       \* packets the link has received, by the port's user
    inbox,          \* number of packets waiting in each port's channel
    abort,          \* abort() was called on both tasks
    handle,         \* whether each Mutex<Option<JoinHandle>> holds Some
    lock,           \* who holds each of those mutexes
    closer,         \* program counter of each disconnect() call
    user,           \* program counter of each subsystem call
    requests,       \* requests made so far by each user
    owed,           \* requests the Crazyflie has not answered yet
    accepted,       \* history: packets the uplink queue took, in order
    sent,           \* history: packets handed to the link, in order
    cancels         \* number of dropped disconnect() calls

taskVars == <<task, inflight, uplink, downlink, inbox, abort, sent>>
closeVars == <<handle, lock, closer, cancels>>
userVars == <<user, requests, owed, accepted>>
vars == <<object, disconnect, link, taskVars, closeVars, userVars>>

\* A packet is named by its user and its number.
Packets == Users \X (0..(MaxRequests + Rounds))

ClosePcs == {"idle", "waitClose", "lockUplink", "awaitUplink",
             "lockDispatch", "awaitDispatch", "close", "returned", "cancelled"}

TypeOK ==
    /\ object \in {"connecting", "connected", "failed", "dropped"}
    /\ disconnect \in BOOLEAN
    /\ link \in {"open", "lost", "closed"}
    /\ task \in [Tasks -> {"check", "recv", "send", "done"}]
    /\ task["dispatch"] # "send"
    /\ inflight \in Packets \union {NoOne}
    /\ inflight # NoOne <=> task["uplink"] = "send"
    /\ uplink \in Seq(Packets)
    /\ downlink \in Seq(Users)
    /\ inbox \in [Users -> Nat]
    /\ abort \in BOOLEAN
    /\ handle \in [Tasks -> BOOLEAN]
    /\ lock \in [Tasks -> Closers \union {NoOne}]
    /\ closer \in [Closers -> ClosePcs]
    /\ user \in [Users -> {"idle", "waiting", "disconnected", "released"}]
    /\ requests \in [Users -> Nat]
    /\ owed \in [Users -> Nat]
    /\ accepted \in Seq(Packets)
    /\ sent \in Seq(Packets)
    /\ cancels \in Nat

Init ==
    /\ object = "connecting"
    /\ disconnect = FALSE
    /\ link = "open"
    /\ task = [t \in Tasks |-> "check"]
    /\ inflight = NoOne
    /\ uplink = <<>> /\ downlink = <<>>
    /\ inbox = [u \in Users |-> 0]
    /\ abort = FALSE
    /\ handle = [t \in Tasks |-> TRUE]
    /\ lock = [t \in Tasks |-> NoOne]
    /\ closer = [c \in Closers |-> "idle"]
    /\ user = [u \in Users |-> "idle"]
    /\ requests = [u \in Users |-> 0]
    /\ owed = [u \in Users |-> 0]
    /\ accepted = <<>> /\ sent = <<>>
    /\ cancels = 0

-----------------------------------------------------------------------------
(* The two tasks. *)

Goto(t, pc) == task' = [task EXCEPT ![t] = pc]

\* "while !disconnect.load(Relaxed)"
\* Mutant: a task that never looks at the flag.
CheckFlagNever(t) ==
    /\ task[t] = "check"
    /\ Goto(t, "recv")
    /\ UNCHANGED <<object, disconnect, link, inflight, uplink, downlink, inbox,
                   abort, sent, closeVars, userVars>>
\* Mutant: the dispatcher's loop copied from the uplink task, which sends.
CheckFlagJumps(t) ==
    /\ task[t] = "check"
    /\ Goto(t, IF disconnect THEN "done" ELSE "send")
    /\ UNCHANGED <<object, disconnect, link, inflight, uplink, downlink, inbox,
                   abort, sent, closeVars, userVars>>
CheckFlag(t) ==
    /\ task[t] = "check"
    /\ Goto(t, IF disconnect THEN "done" ELSE "recv")
    /\ UNCHANGED <<object, disconnect, link, inflight, uplink, downlink, inbox,
                   abort, sent, closeVars, userVars>>

\* The queue a task receives from, empty.
Starved(t) == IF t = "uplink" THEN uplink = <<>>
                              ELSE downlink = <<>> /\ link = "open"

\* Nothing came for 100 ms (uplink) or 200 ms (dispatcher).
\* Mutant: a receive without a timeout.
RecvTimeoutNever(t) == FALSE /\ UNCHANGED vars
\* Mutant: a receive that times out takes the packet that came in with it.
RecvTimeoutDrops(t) ==
    /\ task[t] = "recv"
    /\ uplink' = IF t = "uplink" /\ uplink # <<>> THEN Tail(uplink) ELSE uplink
    /\ Goto(t, "check")
    /\ UNCHANGED <<object, disconnect, link, inflight, downlink, inbox, abort, sent,
                   closeVars, userVars>>
RecvTimeout(t) ==
    /\ task[t] = "recv"
    /\ Starved(t)
    /\ Goto(t, "check")
    /\ UNCHANGED <<object, disconnect, link, inflight, uplink, downlink, inbox,
                   abort, sent, closeVars, userVars>>

\* Every Sender of the uplink queue is gone: the object with its subsystems,
\* and the log blocks and streams that may outlive it.
SendersGone ==
    /\ object \in {"failed", "dropped"}
    /\ \A u \in Clients : user[u] = "released"

UplinkRecv ==
    /\ task["uplink"] = "recv"
    /\ uplink # <<>>
    /\ inflight' = Head(uplink)
    /\ uplink' = Tail(uplink)
    /\ Goto("uplink", "send")
    /\ UNCHANGED <<object, disconnect, link, downlink, inbox, abort, sent,
                   closeVars, userVars>>

\* Ok(Err(RecvError::Disconnected)) => return
UplinkRecvError ==
    /\ task["uplink"] = "recv"
    /\ uplink = <<>>
    /\ SendersGone
    /\ Goto("uplink", "done")
    /\ UNCHANGED <<object, disconnect, link, inflight, uplink, downlink, inbox,
                   abort, sent, closeVars, userVars>>

\* link_uplink.send_packet(pk).await is Ok.  A link that is lost may still
\* take the packet; the Crazyflie then never sees it.
UplinkSend ==
    /\ task["uplink"] = "send"
    /\ link # "closed"
    /\ sent' = Append(sent, inflight)
    /\ owed' = IF link = "open"
               THEN [owed EXCEPT ![inflight[1]] = @ + 1] ELSE owed
    /\ inflight' = NoOne
    /\ Goto("uplink", "check")
    /\ UNCHANGED <<object, disconnect, link, uplink, downlink, inbox, abort,
                   closeVars, user, requests, accepted>>

\* send_packet is an error: return.
UplinkSendError ==
    /\ task["uplink"] = "send"
    /\ link # "open"
    /\ inflight' = NoOne
    /\ Goto("uplink", "done")
    /\ UNCHANGED <<object, disconnect, link, uplink, downlink, inbox, abort,
                   sent, closeVars, userVars>>

\* A packet is routed to the channel of its port; the dispatcher ignores the
\* error of a channel whose receiver is gone.
DispatchRecv ==
    /\ task["dispatch"] = "recv"
    /\ downlink # <<>>
    /\ inbox' = [inbox EXCEPT ![Head(downlink)] = @ + 1]
    /\ downlink' = Tail(downlink)
    /\ Goto("dispatch", "check")
    /\ UNCHANGED <<object, disconnect, link, inflight, uplink, abort, sent,
                   closeVars, userVars>>

\* The other side of the link is gone: return, which drops every port sender.
DispatchRecvError ==
    /\ task["dispatch"] = "recv"
    /\ downlink = <<>>
    /\ link # "open"
    /\ Goto("dispatch", "done")
    /\ UNCHANGED <<object, disconnect, link, inflight, uplink, downlink, inbox,
                   abort, sent, closeVars, userVars>>

\* An aborted task ends at an await.
Aborted(t) ==
    /\ abort
    /\ task[t] \in {"recv", "send"}
    /\ Goto(t, "done")
    /\ inflight' = IF t = "uplink" THEN NoOne ELSE inflight
    /\ UNCHANGED <<object, disconnect, link, uplink, downlink, inbox, abort,
                   sent, closeVars, userVars>>

TaskStep(t) == CheckFlag(t) \/ RecvTimeout(t) \/ Aborted(t)
UplinkStep == TaskStep("uplink") \/ UplinkRecv \/ UplinkRecvError
                \/ UplinkSend \/ UplinkSendError
DispatchStep == TaskStep("dispatch") \/ DispatchRecv \/ DispatchRecvError

-----------------------------------------------------------------------------
(* disconnect(), wait_disconnect() and the drop of the object. *)

LockPc  == [uplink |-> "lockUplink",  dispatch |-> "lockDispatch"]
AwaitPc == [uplink |-> "awaitUplink", dispatch |-> "awaitDispatch"]
DonePc  == [uplink |-> "lockDispatch", dispatch |-> "close"]

Active(c) == closer[c] \notin {"idle", "returned", "cancelled"}

CallerGoto(c, pc) == closer' = [closer EXCEPT ![c] = pc]

CallDisconnect(c) ==
    /\ object = "connected"
    /\ closer[c] = "idle"
    /\ disconnect' = TRUE
    /\ CallerGoto(c, "lockUplink")
    /\ UNCHANGED <<object, link, taskVars, handle, lock, cancels, userVars>>

CallWaitDisconnect(c) ==
    /\ object = "connected"
    /\ closer[c] = "idle"
    /\ CallerGoto(c, "waitClose")
    /\ UNCHANGED <<object, disconnect, link, taskVars, handle, lock, cancels,
                   userVars>>

\* link.wait_close() returns, and wait_disconnect() calls disconnect().
LinkWaitOver(c) ==
    /\ closer[c] = "waitClose"
    /\ link # "open"
    /\ disconnect' = TRUE
    /\ CallerGoto(c, "lockUplink")
    /\ UNCHANGED <<object, link, taskVars, handle, lock, cancels, userVars>>

\* The guard of "if let Some(t) = mutex.lock().await.take()" lives as long as
\* the body, so the mutex stays locked while the task is awaited.
\* Mutant: take the handle, let the guard go, then await.
HoldNotAtAll(c, t) == UNCHANGED lock
Hold(c, t) == lock' = [lock EXCEPT ![t] = c]

TakeHandle(c, t) ==
    /\ closer[c] = LockPc[t]
    /\ lock[t] = NoOne
    /\ \/ /\ handle[t]
          /\ handle' = [handle EXCEPT ![t] = FALSE]
          /\ Hold(c, t)
          /\ CallerGoto(c, AwaitPc[t])
       \/ /\ ~handle[t]
          /\ CallerGoto(c, DonePc[t])
          /\ UNCHANGED <<handle, lock>>
    /\ UNCHANGED <<object, disconnect, link, taskVars, cancels, userVars>>

Joined(c, t) ==
    /\ closer[c] = AwaitPc[t]
    /\ task[t] = "done"
    /\ lock' = [lock EXCEPT ![t] = NoOne]
    /\ CallerGoto(c, DonePc[t])
    /\ UNCHANGED <<object, disconnect, link, taskVars, handle, cancels,
                   userVars>>

CloseLink(c) ==
    /\ closer[c] = "close"
    /\ link' = "closed"
    /\ CallerGoto(c, "returned")
    /\ UNCHANGED <<object, disconnect, taskVars, handle, lock, cancels,
                   userVars>>

\* The program drops the future of a disconnect() call at one of its awaits
\* (a timeout or a select around it): the mutex it holds is unlocked, and a
\* JoinHandle it has taken is dropped, which leaves the task running.
CancelDisconnect(c) ==
    /\ Active(c)
    /\ cancels < MaxCancels
    /\ cancels' = cancels + 1
    /\ lock' = [t \in Tasks |-> IF lock[t] = c THEN NoOne ELSE lock[t]]
    /\ CallerGoto(c, "cancelled")
    /\ UNCHANGED <<object, disconnect, link, taskVars, handle, userVars>>

\* The object is dropped, which no call that borrows it can be outlived by.
\* Mutant: the drop forgets the flag.
DropFlagKept == UNCHANGED disconnect
DropFlag == disconnect' = TRUE

Drop ==
    /\ object = "connected"
    /\ \A c \in Closers : ~Active(c)
    /\ object' = "dropped"
    /\ DropFlag
    /\ UNCHANGED <<link, taskVars, closeVars, userVars>>

CloserStep(c) == CloseLink(c) \/ LinkWaitOver(c)
                   \/ \E t \in Tasks : TakeHandle(c, t) \/ Joined(c, t)

-----------------------------------------------------------------------------
(* connect_from_link: Rounds requests and their answers, then the object.    *)
(* ConnectGuard sets the flag and aborts both tasks if it is not disarmed.  *)

\* Mutant: a guard that sets the flag and forgets to abort.
GuardAborts == abort' = TRUE
GuardDropped ==
    /\ object' = "failed"
    /\ disconnect' = TRUE
    /\ GuardAborts
    /\ UNCHANGED <<link, task, inflight, uplink, downlink, inbox, sent,
                   closeVars, userVars>>

ConnectDone ==
    /\ object = "connecting"
    /\ user[Connector] = "idle"
    /\ requests[Connector] = Rounds
    /\ object' = "connected"
    /\ UNCHANGED <<disconnect, link, taskVars, closeVars, userVars>>

\* A request came back with Error::Disconnected, and "?" returns it.
ConnectError ==
    /\ object = "connecting"
    /\ user[Connector] = "disconnected"
    /\ GuardDropped

\* The answer is not acceptable (an unsupported protocol version, a malformed
\* table of contents), or the program drops the connect future.
ConnectAbandoned == object = "connecting" /\ GuardDropped

-----------------------------------------------------------------------------
(* Subsystem calls, the Crazyflie and the link. *)

\* Who may call: connect_from_link until the object exists, then the clients;
\* log blocks and streams stay usable when the object is dropped.
MayCall(u) == IF u = Connector
              THEN object = "connecting" /\ requests[u] < Rounds
              ELSE object \in {"connected", "dropped"} /\ requests[u] < MaxRequests

\* uplink.send_async(pk): an error once the task, and so the receiver, is gone.
Request(u) ==
    /\ user[u] = "idle"
    /\ MayCall(u)
    /\ requests' = [requests EXCEPT ![u] = @ + 1]
    /\ \/ /\ task["uplink"] # "done"
          /\ uplink' = Append(uplink, <<u, requests[u]>>)
          /\ accepted' = Append(accepted, <<u, requests[u]>>)
          /\ user' = [user EXCEPT ![u] = "waiting"]
       \/ /\ task["uplink"] = "done"
          /\ user' = [user EXCEPT ![u] = "disconnected"]
          /\ UNCHANGED <<uplink, accepted>>
    /\ UNCHANGED <<object, disconnect, link, task, inflight, downlink, inbox,
                   abort, sent, closeVars, owed>>

\* wait_packet returns an answer
Answered(u) ==
    /\ user[u] = "waiting"
    /\ inbox[u] > 0
    /\ inbox' = [inbox EXCEPT ![u] = @ - 1]
    /\ user' = [user EXCEPT ![u] = "idle"]
    /\ UNCHANGED <<object, disconnect, link, task, inflight, uplink, downlink,
                   abort, sent, closeVars, requests, owed, accepted>>

\* or Error::Disconnected, once the dispatcher is gone and the channel empty.
Refused(u) ==
    /\ user[u] = "waiting"
    /\ inbox[u] = 0
    /\ task["dispatch"] = "done"
    /\ user' = [user EXCEPT ![u] = "disconnected"]
    /\ UNCHANGED <<object, disconnect, link, taskVars, closeVars, requests,
                   owed, accepted>>

\* A client lets go of the log block or stream that outlives the object.
Release(u) ==
    /\ u \in Clients
    /\ object \in {"failed", "dropped"}
    /\ user[u] \in {"idle", "disconnected"}
    /\ user' = [user EXCEPT ![u] = "released"]
    /\ UNCHANGED <<object, disconnect, link, taskVars, closeVars, requests,
                   owed, accepted>>

\* External: the Crazyflie answers a request.
DeviceAnswer(u) ==
    /\ link = "open"
    /\ owed[u] > 0
    /\ owed' = [owed EXCEPT ![u] = @ - 1]
    /\ downlink' = Append(downlink, u)
    /\ UNCHANGED <<object, disconnect, link, task, inflight, uplink, inbox,
                   abort, sent, closeVars, user, requests, accepted>>

\* External: radio contact is lost for good.
LinkLost ==
    /\ link = "open"
    /\ link' = "lost"
    /\ UNCHANGED <<object, disconnect, taskVars, closeVars, userVars>>

UserStep(u) == Answered(u) \/ Refused(u)

-----------------------------------------------------------------------------
Next ==
    \/ UplinkStep \/ DispatchStep
    \/ \E c \in Closers : CallDisconnect(c) \/ CallWaitDisconnect(c)
                            \/ CloserStep(c) \/ CancelDisconnect(c)
    \/ Drop \/ ConnectDone \/ ConnectError \/ ConnectAbandoned
    \/ \E u \in Users : Request(u) \/ UserStep(u) \/ Release(u) \/ DeviceAnswer(u)
    \/ LinkLost

Spec == Init /\ [][Next]_vars

(* Every task the executor runs is polled when it can make progress: both   *)
(* background loops, the closers, the error return of connect_from_link and *)
(* the calls whose answer has come.  Nothing makes the Crazyflie answer,    *)
(* the link fail, or the program call, drop or cancel anything.             *)
Fairness ==
    /\ WF_vars(UplinkStep) /\ WF_vars(DispatchStep)
    /\ \A c \in Closers : WF_vars(CloserStep(c))
    /\ \A u \in Users : WF_vars(UserStep(u))
    /\ WF_vars(ConnectError)

FairSpec == Spec /\ Fairness

-----------------------------------------------------------------------------
(* Properties *)

TaskEnded(t) == task[t] = "done"

\* "Once this function return, the Crazyflie is fully disconnected": when any
\* one of the concurrent calls has returned, both tasks are over and the link
\* is closed (crazyflie.rs, disconnect()).
FullyDisconnected ==
    (\E c \in Closers : closer[c] = "returned") =>
        (\A t \in Tasks : TaskEnded(t)) /\ link = "closed"

\* The object keeps the promise of Session: packets reach the link in the
\* order the queue took them, and none is taken or handed over after a
\* disconnect() has returned.
Promise == INSTANCE Session WITH
    closed <- \E c \in Closers : closer[c] = "returned"
SessionKept == Promise!Spec

\* disconnect() always returns, whatever the other callers, the drop of the
\* link and the Crazyflie do; wait_disconnect() does too once the link is gone.
CloseReturns ==
    \A c \in Closers :
        closer[c] \notin {"idle", "waitClose"} ~> closer[c] \in {"returned", "cancelled"}

\* Dropping the object, or failing to connect, ends both tasks: nothing keeps
\* the link open behind the program's back.
TasksEnd == object \in {"dropped", "failed"} ~> \A t \in Tasks : TaskEnded(t)

\* No call waits for ever for an answer that cannot come: after a disconnect
\* or the loss of the link every pending call, connect_from_link included,
\* gets its answer or Error::Disconnected.
WaitersResolved ==
    \A u \in Users :
        user[u] = "waiting" /\ (disconnect \/ link # "open") ~> user[u] # "waiting"

\* As long as nobody disconnects and the link stays up, a packet the queue
\* accepted reaches the link.
In(p, s) == \E i \in DOMAIN s : s[i] = p
AcceptedIsSent ==
    \A p \in Packets :
        In(p, accepted) ~> In(p, sent) \/ disconnect \/ link # "open"
=============================================================================
