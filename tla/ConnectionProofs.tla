-------------------------- MODULE ConnectionProofs --------------------------
(***************************************************************************)
(* What Connection guarantees for any number of clients and of concurrent  *)
(* disconnect() calls, any queue length and any bounds.                    *)
(***************************************************************************)
EXTENDS Connection, SequenceTheorems, TLAPS

\* Next, one named alternative for each action.
LEMMA NextCases ==
    ASSUME Next
    PROVE  \/ \E t \in Tasks : CheckFlag(t) \/ RecvTimeout(t) \/ Aborted(t)
           \/ UplinkRecv \/ UplinkRecvError \/ UplinkSend \/ UplinkSendError
           \/ DispatchRecv \/ DispatchRecvError
           \/ \E c \in Closers : CallDisconnect(c) \/ CallWaitDisconnect(c)
                 \/ LinkWaitOver(c) \/ CloseLink(c) \/ CancelDisconnect(c)
           \/ \E c \in Closers, t \in Tasks : TakeHandle(c, t) \/ Joined(c, t)
           \/ Drop \/ ConnectDone \/ ConnectError \/ ConnectAbandoned
           \/ \E u \in Users : Request(u) \/ Answered(u) \/ Refused(u)
                 \/ Release(u) \/ DeviceAnswer(u)
           \/ LinkLost
  BY DEF Next, UplinkStep, DispatchStep, TaskStep, CloserStep, UserStep, Tasks

\* A packet is a pair of a user and a number, and NoOne is not one.
LEMMA PacketType ==
    /\ NoOne \notin Packets
    /\ \A p \in Packets : p[1] \in Users
  BY NoOneAssumption, BoundsAssumption DEF Packets

LEMMA InitTypeOK == Init => TypeOK
<1> SUFFICES ASSUME Init PROVE TypeOK
  OBVIOUS
<1> USE DEF Init
<1>1. /\ task \in [Tasks -> {"check", "recv", "send", "done"}]
      /\ task["dispatch"] # "send" /\ task["uplink"] # "send"
  BY DEF Tasks
<1>2. closer \in [Closers -> ClosePcs]
  BY DEF ClosePcs
<1>3. lock \in [Tasks -> Closers \union {NoOne}] /\ handle \in [Tasks -> BOOLEAN]
  OBVIOUS
<1>4. /\ uplink \in Seq(Packets) /\ downlink \in Seq(Users)
      /\ accepted \in Seq(Packets) /\ sent \in Seq(Packets)
  OBVIOUS
<1>5. /\ user \in [Users -> {"idle", "waiting", "disconnected", "released"}]
      /\ requests \in [Users -> Nat] /\ owed \in [Users -> Nat]
      /\ inbox \in [Users -> Nat]
  OBVIOUS
<1> QED BY <1>1, <1>2, <1>3, <1>4, <1>5 DEF TypeOK

\* The values every variable takes are those of the code's types.
LEMMA NextTypeOK == TypeOK /\ [Next]_vars => TypeOK'
<1> SUFFICES ASSUME TypeOK, [Next]_vars PROVE TypeOK'
  OBVIOUS
<1> USE DEF TypeOK, taskVars, closeVars, userVars, Goto, CallerGoto
<1>1. ASSUME NEW t \in Tasks, CheckFlag(t) PROVE TypeOK'
  BY <1>1 DEF CheckFlag, Tasks
<1>2. ASSUME NEW t \in Tasks, RecvTimeout(t) PROVE TypeOK'
  BY <1>2 DEF RecvTimeout, Tasks
<1>3. ASSUME NEW t \in Tasks, Aborted(t) PROVE TypeOK'
  BY <1>3 DEF Aborted, Tasks
<1>4. CASE UplinkRecv
  <2>1. Head(uplink) \in Packets /\ Tail(uplink) \in Seq(Packets)
    BY <1>4 DEF UplinkRecv
  <2>2. Head(uplink) # NoOne
    BY <2>1, PacketType
  <2> QED BY <1>4, <2>1, <2>2 DEF UplinkRecv, Tasks
<1>5. CASE UplinkRecvError
  BY <1>5 DEF UplinkRecvError, Tasks
<1>6. CASE UplinkSend
  <2>1. inflight \in Packets
    BY <1>6 DEF UplinkSend
  <2>2. sent' \in Seq(Packets)
    BY <1>6, <2>1 DEF UplinkSend
  <2>3. owed' \in [Users -> Nat]
    <3>1. inflight[1] \in Users
      BY <2>1, PacketType
    <3>2. owed[inflight[1]] + 1 \in Nat
      BY <3>1
    <3> QED BY <1>6, <3>1, <3>2 DEF UplinkSend
  <2>4. task' \in [Tasks -> {"check", "recv", "send", "done"}]
        /\ task'["dispatch"] # "send" /\ task'["uplink"] # "send"
    BY <1>6 DEF UplinkSend, Tasks
  <2> QED BY <1>6, <2>2, <2>3, <2>4 DEF UplinkSend
<1>7. CASE UplinkSendError
  BY <1>7 DEF UplinkSendError, Tasks
<1>8. CASE DispatchRecv
  BY <1>8 DEF DispatchRecv, Tasks
<1>9. CASE DispatchRecvError
  BY <1>9 DEF DispatchRecvError, Tasks
<1>10. ASSUME NEW c \in Closers,
              CallDisconnect(c) \/ CallWaitDisconnect(c) \/ LinkWaitOver(c)
       PROVE  TypeOK'
  BY <1>10 DEF CallDisconnect, CallWaitDisconnect, LinkWaitOver, ClosePcs
<1>11. ASSUME NEW c \in Closers, CloseLink(c)
       PROVE  TypeOK'
  BY <1>11 DEF CloseLink, ClosePcs
<1>12. ASSUME NEW c \in Closers, CancelDisconnect(c)
       PROVE  TypeOK'
  <2>1. lock' \in [Tasks -> Closers \union {NoOne}]
    BY <1>12 DEF CancelDisconnect
  <2>2. closer' \in [Closers -> ClosePcs]
    BY <1>12 DEF CancelDisconnect, ClosePcs
  <2> QED BY <1>12, <2>1, <2>2 DEF CancelDisconnect
<1>18. ASSUME NEW c \in Closers, NEW t \in Tasks, TakeHandle(c, t) \/ Joined(c, t)
       PROVE  TypeOK'
  <2>1. AwaitPc[t] \in ClosePcs /\ DonePc[t] \in ClosePcs
    BY DEF ClosePcs, AwaitPc, DonePc, Tasks
  <2>2. closer' \in [Closers -> ClosePcs]
    BY <1>18, <2>1 DEF TakeHandle, Joined
  <2>3. lock' \in [Tasks -> Closers \union {NoOne}] /\ handle' \in [Tasks -> BOOLEAN]
    BY <1>18 DEF TakeHandle, Joined, Hold
  <2> QED BY <1>18, <2>2, <2>3 DEF TakeHandle, Joined
<1>13. CASE Drop \/ ConnectDone \/ ConnectError \/ ConnectAbandoned \/ LinkLost
  BY <1>13 DEF Drop, DropFlag, ConnectDone, ConnectError, ConnectAbandoned,
               GuardDropped, GuardAborts, LinkLost
<1>14. ASSUME NEW u \in Users, Request(u) PROVE TypeOK'
  <2>1. <<u, requests[u]>> \in Packets
    BY <1>14, BoundsAssumption DEF Request, MayCall, Packets
  <2>2. requests' \in [Users -> Nat]
    BY <1>14 DEF Request
  <2>3. uplink' \in Seq(Packets) /\ accepted' \in Seq(Packets)
    <3>1. /\ Append(uplink, <<u, requests[u]>>) \in Seq(Packets)
          /\ Append(accepted, <<u, requests[u]>>) \in Seq(Packets)
      BY <2>1
    <3> QED BY <1>14, <3>1 DEF Request
  <2>4. user' \in [Users -> {"idle", "waiting", "disconnected", "released"}]
    BY <1>14 DEF Request
  <2> QED BY <1>14, <2>2, <2>3, <2>4 DEF Request
<1>15. ASSUME NEW u \in Users, Answered(u) \/ Refused(u) \/ Release(u)
       PROVE  TypeOK'
  <2>1. user' \in [Users -> {"idle", "waiting", "disconnected", "released"}]
    BY <1>15 DEF Answered, Refused, Release
  <2>2. inbox' \in [Users -> Nat]
    <3>1. CASE Answered(u)
      BY <3>1, inbox[u] - 1 \in Nat DEF Answered
    <3> QED BY <1>15, <3>1 DEF Refused, Release
  <2> QED BY <1>15, <2>1, <2>2 DEF Answered, Refused, Release
<1>16. ASSUME NEW u \in Users, DeviceAnswer(u) PROVE TypeOK'
  BY <1>16 DEF DeviceAnswer
<1>17. CASE UNCHANGED vars
  BY <1>17 DEF vars
<1> QED
  BY <1>1, <1>2, <1>3, <1>4, <1>5, <1>6, <1>7, <1>8, <1>9, <1>10, <1>11, <1>12,
     <1>13, <1>14, <1>15, <1>16, <1>17,
     <1>18, NextCases

\* Type correctness of Connection for every instance.
THEOREM TypeCorrect == Spec => []TypeOK
  BY InitTypeOK, NextTypeOK, PTL DEF Spec

-----------------------------------------------------------------------------
(* Disconnection.  A handle that is gone from its mutex belongs to a caller *)
(* that awaits the task with the mutex locked, or its task is over; so who  *)
(* finds the mutex free and empty may go on.  This is lost as soon as one   *)
(* call is dropped half way, hence the assumption MaxCancels = 0.           *)

Reached(t) == IF t = "uplink"
              THEN {"lockDispatch", "awaitDispatch", "close", "returned"}
              ELSE {"close", "returned"}

HandleInv ==
    /\ cancels = 0
    /\ \A t \in Tasks : lock[t] # NoOne => closer[lock[t]] = AwaitPc[t]
    /\ \A c \in Closers, t \in Tasks :
           closer[c] = AwaitPc[t] => lock[t] = c /\ ~handle[t]
    /\ \A t \in Tasks : handle[t] \/ lock[t] # NoOne \/ task[t] = "done"
    /\ \A c \in Closers, t \in Tasks : closer[c] \in Reached(t) => task[t] = "done"
    /\ \A c \in Closers : closer[c] = "returned" => link = "closed"

\* The program counters of a closer, spelt out for each mutex.
LEMMA PcFacts ==
    /\ AwaitPc["uplink"] = "awaitUplink" /\ AwaitPc["dispatch"] = "awaitDispatch"
    /\ LockPc["uplink"] = "lockUplink" /\ LockPc["dispatch"] = "lockDispatch"
    /\ DonePc["uplink"] = "lockDispatch" /\ DonePc["dispatch"] = "close"
  BY DEF AwaitPc, LockPc, DonePc

LEMMA InitHandleInv == Init => HandleInv
  BY PcFacts DEF Init, HandleInv, Tasks, Reached

\* A task that is over stays over, and a closed link stays closed.
LEMMA TaskStaysDone ==
    ASSUME TypeOK, [Next]_vars
    PROVE  /\ \A t \in Tasks : task[t] = "done" => task'[t] = "done"
           /\ link = "closed" => link' = "closed"
<1> USE DEF TypeOK, taskVars, closeVars, userVars, Goto
<1>1. ASSUME NEW t \in Tasks, CheckFlag(t) \/ RecvTimeout(t) \/ Aborted(t)
      PROVE  (\A s \in Tasks : task[s] = "done" => task'[s] = "done") /\ link' = link
  BY <1>1 DEF CheckFlag, RecvTimeout, Aborted
<1>2. CASE UplinkRecv \/ UplinkRecvError \/ UplinkSend \/ UplinkSendError
  BY <1>2 DEF UplinkRecv, UplinkRecvError, UplinkSend, UplinkSendError, Tasks
<1>3. CASE DispatchRecv \/ DispatchRecvError
  BY <1>3 DEF DispatchRecv, DispatchRecvError, Tasks
<1>4. ASSUME NEW c \in Closers,
             CallDisconnect(c) \/ CallWaitDisconnect(c) \/ LinkWaitOver(c)
               \/ CloseLink(c) \/ CancelDisconnect(c)
      PROVE  task' = task /\ (link = "closed" => link' = "closed")
  BY <1>4 DEF CallDisconnect, CallWaitDisconnect, LinkWaitOver, CloseLink,
              CancelDisconnect
<1>5. ASSUME NEW c \in Closers, NEW t \in Tasks, TakeHandle(c, t) \/ Joined(c, t)
      PROVE  task' = task /\ link' = link
  BY <1>5 DEF TakeHandle, Joined
<1>6. ASSUME Drop \/ ConnectDone \/ ConnectError \/ ConnectAbandoned \/ LinkLost
      PROVE  task' = task /\ (link = "closed" => link' = "closed")
  BY <1>6 DEF Drop, ConnectDone, ConnectError, ConnectAbandoned, GuardDropped,
              LinkLost
<1>7. ASSUME NEW u \in Users, Request(u) \/ Answered(u) \/ Refused(u)
                                \/ Release(u) \/ DeviceAnswer(u)
      PROVE  task' = task /\ link' = link
  BY <1>7 DEF Request, Answered, Refused, Release, DeviceAnswer
<1>8. CASE UNCHANGED vars
  BY <1>8 DEF vars
<1> QED
  BY <1>1, <1>2, <1>3, <1>4, <1>5, <1>6, <1>7, <1>8, NextCases

\* The steps other than those of the closers leave mutexes and closers alone.
LEMMA OtherSteps ==
    ASSUME TypeOK, [Next]_vars
    PROVE  \/ closer' = closer /\ lock' = lock /\ handle' = handle /\ cancels' = cancels
           \/ \E c \in Closers : CallDisconnect(c) \/ CallWaitDisconnect(c)
                 \/ LinkWaitOver(c) \/ CloseLink(c) \/ CancelDisconnect(c)
           \/ \E c \in Closers, t \in Tasks : TakeHandle(c, t) \/ Joined(c, t)
<1> DEFINE Same == closer' = closer /\ lock' = lock /\ handle' = handle
                      /\ cancels' = cancels
<1> USE DEF closeVars
<1>1. ASSUME NEW t \in Tasks, CheckFlag(t) \/ RecvTimeout(t) \/ Aborted(t) PROVE Same
  BY <1>1 DEF CheckFlag, RecvTimeout, Aborted
<1>2. ASSUME UplinkRecv \/ UplinkRecvError \/ UplinkSend \/ UplinkSendError PROVE Same
  BY <1>2 DEF UplinkRecv, UplinkRecvError, UplinkSend, UplinkSendError
<1>3. ASSUME DispatchRecv \/ DispatchRecvError PROVE Same
  BY <1>3 DEF DispatchRecv, DispatchRecvError
<1>4. ASSUME Drop \/ ConnectDone \/ ConnectError \/ ConnectAbandoned \/ LinkLost
      PROVE  Same
  BY <1>4 DEF Drop, ConnectDone, ConnectError, ConnectAbandoned, GuardDropped,
              LinkLost
<1>5. ASSUME NEW u \in Users, Request(u) \/ Answered(u) \/ Refused(u)
                                \/ Release(u) \/ DeviceAnswer(u)
      PROVE  Same
  BY <1>5 DEF Request, Answered, Refused, Release, DeviceAnswer
<1>6. ASSUME UNCHANGED vars PROVE Same
  BY <1>6 DEF vars
<1> QED BY <1>1, <1>2, <1>3, <1>4, <1>5, <1>6, NextCases

LEMMA NextHandleInv ==
    ASSUME MaxCancels = 0
    PROVE  TypeOK /\ HandleInv /\ [Next]_vars => HandleInv'
<1> SUFFICES ASSUME TypeOK, HandleInv, [Next]_vars PROVE HandleInv'
  OBVIOUS
<1>0. /\ \A t \in Tasks : task[t] = "done" => task'[t] = "done"
      /\ link = "closed" => link' = "closed"
  BY TaskStaysDone
<1> USE PcFacts DEF TypeOK, HandleInv, Tasks, Reached, CallerGoto
<1>1. CASE closer' = closer /\ lock' = lock /\ handle' = handle /\ cancels' = cancels
  BY <1>0, <1>1
<1>2. ASSUME NEW c \in Closers,
             CallDisconnect(c) \/ CallWaitDisconnect(c) \/ LinkWaitOver(c)
      PROVE  HandleInv'
  <2>1. /\ closer[c] \in {"idle", "waitClose"}
        /\ closer' = [closer EXCEPT ![c] = "lockUplink"]
             \/ closer' = [closer EXCEPT ![c] = "waitClose"]
        /\ lock' = lock /\ handle' = handle /\ cancels' = cancels
    BY <1>2 DEF CallDisconnect, CallWaitDisconnect, LinkWaitOver
  <2> QED BY <1>0, <2>1
<1>3. ASSUME NEW c \in Closers, CloseLink(c) PROVE HandleInv'
  <2>1. /\ closer[c] = "close" /\ closer' = [closer EXCEPT ![c] = "returned"]
        /\ lock' = lock /\ handle' = handle /\ cancels' = cancels
        /\ link' = "closed"
    BY <1>3 DEF CloseLink
  <2> QED BY <1>0, <2>1
<1>4. ASSUME NEW c \in Closers, CancelDisconnect(c) PROVE HandleInv'
  BY <1>4, MaxCancels = 0 DEF CancelDisconnect
<1>5. ASSUME NEW c \in Closers, NEW t \in Tasks, TakeHandle(c, t), handle[t]
      PROVE  HandleInv'
  <2>1. /\ closer[c] = LockPc[t] /\ lock[t] = NoOne
        /\ handle' = [handle EXCEPT ![t] = FALSE]
        /\ lock' = [lock EXCEPT ![t] = c]
        /\ closer' = [closer EXCEPT ![c] = AwaitPc[t]]
        /\ cancels' = cancels /\ link' = link /\ task' = task
    BY <1>5 DEF TakeHandle, Hold, taskVars
  <2>2. NoOne \notin Closers
    BY NoOneAssumption
  <2>3. CASE t = "uplink"
    BY <1>0, <2>1, <2>2, <2>3
  <2>4. CASE t = "dispatch"
    BY <1>0, <2>1, <2>2, <2>4
  <2> QED BY <2>3, <2>4
<1>6. ASSUME NEW c \in Closers, NEW t \in Tasks, TakeHandle(c, t), ~handle[t]
      PROVE  HandleInv'
  <2>1. /\ closer[c] = LockPc[t] /\ lock[t] = NoOne
        /\ handle' = handle /\ lock' = lock
        /\ closer' = [closer EXCEPT ![c] = DonePc[t]]
        /\ cancels' = cancels /\ link' = link /\ task' = task
    BY <1>6 DEF TakeHandle, taskVars
  <2>2. task[t] = "done"
    BY <1>6, <2>1
  <2>3. closer[c] \in {"lockUplink", "lockDispatch"}
        /\ closer'[c] \in {"lockDispatch", "close"}
    BY <2>1
  <2>4. \A s \in Tasks : lock'[s] # NoOne => closer'[lock'[s]] = AwaitPc[s]
    BY <2>1, <2>3
  <2>5. \A d \in Closers, s \in Tasks :
            closer'[d] = AwaitPc[s] => lock'[s] = d /\ ~handle'[s]
    BY <2>1, <2>3
  <2>6. ASSUME NEW d \in Closers, NEW s \in Tasks, closer'[d] \in Reached(s)
        PROVE  task'[s] = "done"
    <3>1. CASE d = c
      <4>1. CASE t = "uplink"
        BY <2>1, <2>2, <2>6, <3>1, <4>1
      <4>2. CASE t = "dispatch"
        BY <2>1, <2>2, <2>6, <3>1, <4>2
      <4> QED BY <4>1, <4>2
    <3>2. CASE d # c
      BY <2>1, <2>6, <3>2
    <3> QED BY <3>1, <3>2
  <2>7. /\ \A s \in Tasks : handle'[s] \/ lock'[s] # NoOne \/ task'[s] = "done"
        /\ \A d \in Closers : closer'[d] = "returned" => link' = "closed"
        /\ cancels' = 0
    BY <2>1, <2>3
  <2> QED BY <2>4, <2>5, <2>6, <2>7
<1>7. ASSUME NEW c \in Closers, NEW t \in Tasks, Joined(c, t) PROVE HandleInv'
  <2>1. /\ closer[c] = AwaitPc[t] /\ task[t] = "done"
        /\ handle' = handle
        /\ lock' = [lock EXCEPT ![t] = NoOne]
        /\ closer' = [closer EXCEPT ![c] = DonePc[t]]
        /\ cancels' = cancels /\ link' = link /\ task' = task
    BY <1>7 DEF Joined, taskVars
  <2>2. lock[t] = c
    BY <2>1
  <2>3. CASE t = "uplink"
    BY <1>0, <2>1, <2>2, <2>3
  <2>4. CASE t = "dispatch"
    BY <1>0, <2>1, <2>2, <2>4
  <2> QED BY <2>3, <2>4
<1> QED
  BY <1>1, <1>2, <1>3, <1>4, <1>5, <1>6, <1>7, OtherSteps

LEMMA HandleInvDisconnected == HandleInv => FullyDisconnected
  BY DEF HandleInv, FullyDisconnected, TaskEnded, Tasks, Reached

\* When no call of disconnect() is dropped half way, the first one to return
\* finds both tasks over and the link closed, however many run together.
THEOREM Disconnected ==
    ASSUME MaxCancels = 0
    PROVE  Spec => []FullyDisconnected
<1>1. Init => TypeOK /\ HandleInv
  BY InitTypeOK, InitHandleInv
<1>2. TypeOK /\ HandleInv /\ [Next]_vars => (TypeOK /\ HandleInv)'
  BY MaxCancels = 0, NextTypeOK, NextHandleInv
<1>3. TypeOK /\ HandleInv => FullyDisconnected
  BY HandleInvDisconnected
<1> QED BY <1>1, <1>2, <1>3, PTL DEF Spec

-----------------------------------------------------------------------------
(* The promise of Session.  While the uplink task runs, what was accepted   *)
(* and not handed over is the packet in flight followed by the queue.       *)

Ahead == IF task["uplink"] = "send" THEN 1 ELSE 0

QueueInv ==
    task["uplink"] # "done" =>
        /\ Len(accepted) = Len(sent) + Ahead + Len(uplink)
        /\ task["uplink"] = "send" => accepted[Len(sent) + 1] = inflight
        /\ \A i \in 1..Len(uplink) : accepted[Len(sent) + Ahead + i] = uplink[i]

LEMMA InitQueueInv == Init => QueueInv
  BY DEF Init, QueueInv, Ahead, Tasks

\* Every step but four leaves the queues alone, or ends the uplink task.
LEMMA QueueSteps ==
    ASSUME TypeOK, [Next]_vars
    PROVE  \/ UplinkRecv \/ UplinkSend
           \/ \E u \in Users : Request(u)
           \/ /\ accepted' = accepted /\ sent' = sent
              /\ \/ task'["uplink"] = "done"
                 \/ /\ uplink' = uplink /\ inflight' = inflight
                    /\ task["uplink"] \in {"check", "recv"}
                          <=> task'["uplink"] \in {"check", "recv"}
                    /\ task["uplink"] = "done" <=> task'["uplink"] = "done"
<1> DEFINE Rest ==
       /\ accepted' = accepted /\ sent' = sent
       /\ \/ task'["uplink"] = "done"
          \/ /\ uplink' = uplink /\ inflight' = inflight
             /\ task["uplink"] \in {"check", "recv"}
                   <=> task'["uplink"] \in {"check", "recv"}
             /\ task["uplink"] = "done" <=> task'["uplink"] = "done"
<1> USE DEF TypeOK, taskVars, userVars, Goto, Tasks
<1>1. ASSUME NEW t \in Tasks, CheckFlag(t) \/ RecvTimeout(t) \/ Aborted(t) PROVE Rest
  BY <1>1 DEF CheckFlag, RecvTimeout, Aborted
<1>2. ASSUME UplinkRecvError \/ UplinkSendError PROVE Rest
  BY <1>2 DEF UplinkRecvError, UplinkSendError
<1>3. ASSUME DispatchRecv \/ DispatchRecvError PROVE Rest
  BY <1>3 DEF DispatchRecv, DispatchRecvError
<1>4. ASSUME NEW c \in Closers,
             CallDisconnect(c) \/ CallWaitDisconnect(c) \/ LinkWaitOver(c)
               \/ CloseLink(c) \/ CancelDisconnect(c)
      PROVE  Rest
  BY <1>4 DEF CallDisconnect, CallWaitDisconnect, LinkWaitOver, CloseLink,
              CancelDisconnect
<1>5. ASSUME NEW c \in Closers, NEW t \in Tasks, TakeHandle(c, t) \/ Joined(c, t)
      PROVE  Rest
  BY <1>5 DEF TakeHandle, Joined
<1>6. ASSUME Drop \/ ConnectDone \/ ConnectError \/ ConnectAbandoned \/ LinkLost
      PROVE  Rest
  BY <1>6 DEF Drop, ConnectDone, ConnectError, ConnectAbandoned, GuardDropped,
              LinkLost
<1>7. ASSUME NEW u \in Users,
             Answered(u) \/ Refused(u) \/ Release(u) \/ DeviceAnswer(u)
      PROVE  Rest
  BY <1>7 DEF Answered, Refused, Release, DeviceAnswer
<1>8. ASSUME UNCHANGED vars PROVE Rest
  BY <1>8 DEF vars
<1> QED BY <1>1, <1>2, <1>3, <1>4, <1>5, <1>6, <1>7, <1>8, NextCases

LEMMA NextQueueInv == TypeOK /\ QueueInv /\ [Next]_vars => QueueInv'
<1> SUFFICES ASSUME TypeOK, QueueInv, [Next]_vars PROVE QueueInv'
  OBVIOUS
<1>1. CASE UplinkRecv
  <2>1. /\ task["uplink"] = "recv" /\ task'["uplink"] = "send"
        /\ uplink # <<>> /\ uplink \in Seq(Packets)
        /\ inflight' = Head(uplink) /\ uplink' = Tail(uplink)
        /\ accepted' = accepted /\ sent' = sent
    BY <1>1 DEF UplinkRecv, TypeOK, userVars, Goto, Tasks
  <2>2. /\ Len(uplink') = Len(uplink) - 1 /\ Len(uplink) \in Nat \ {0}
        /\ inflight' = uplink[1]
        /\ \A i \in 1..Len(uplink') : uplink'[i] = uplink[i + 1]
    BY <2>1, HeadTailProperties, EmptySeq, Head(uplink) = uplink[1]
  <2>3. Len(accepted) \in Nat /\ Len(sent) \in Nat
    BY LenProperties DEF TypeOK
  <2>4. /\ Len(accepted) = Len(sent) + Len(uplink)
        /\ \A i \in 1..Len(uplink) : accepted[Len(sent) + i] = uplink[i]
    BY <2>1, <2>3 DEF QueueInv, Ahead
  <2>5. accepted[Len(sent) + 1] = inflight'
    BY <2>2, <2>4
  <2>6. \A i \in 1..Len(uplink') : accepted[Len(sent) + 1 + i] = uplink'[i]
    <3>1. TAKE i \in 1..Len(uplink')
    <3>2. i + 1 \in 1..Len(uplink) /\ Len(sent) + (i + 1) = Len(sent) + 1 + i
      BY <2>2, <2>3
    <3> QED BY <2>2, <2>4, <3>2
  <2> QED BY <2>1, <2>2, <2>3, <2>4, <2>5, <2>6 DEF QueueInv, Ahead
<1>2. CASE UplinkSend
  <2>1. /\ task["uplink"] = "send" /\ task'["uplink"] = "check"
        /\ sent' = Append(sent, inflight)
        /\ accepted' = accepted /\ uplink' = uplink
        /\ inflight \in Packets /\ sent \in Seq(Packets)
    BY <1>2 DEF UplinkSend, TypeOK, Goto, Tasks
  <2>2. Len(sent') = Len(sent) + 1
    BY <2>1, AppendProperties
  <2>3. Len(accepted) \in Nat /\ Len(sent) \in Nat /\ Len(uplink) \in Nat
    BY LenProperties DEF TypeOK
  <2> QED BY <2>1, <2>2, <2>3 DEF QueueInv, Ahead
<1>3. ASSUME NEW u \in Users, Request(u) PROVE QueueInv'
  <2>1. CASE task["uplink"] = "done"
    BY <1>3, <2>1 DEF Request, QueueInv
  <2>2. CASE task["uplink"] # "done"
    <3> DEFINE p == <<u, requests[u]>>
    <3>1. /\ uplink' = Append(uplink, p) /\ accepted' = Append(accepted, p)
          /\ sent' = sent /\ inflight' = inflight /\ task' = task
      BY <1>3, <2>2 DEF Request
    <3>2. p \in Packets
      BY <1>3, BoundsAssumption DEF Request, MayCall, Packets, TypeOK
    <3>3. uplink \in Seq(Packets) /\ accepted \in Seq(Packets) /\ sent \in Seq(Packets)
      BY DEF TypeOK
    <3> HIDE DEF p
    <3>4. /\ Len(uplink') = Len(uplink) + 1 /\ Len(accepted') = Len(accepted) + 1
          /\ uplink'[Len(uplink) + 1] = p /\ accepted'[Len(accepted) + 1] = p
          /\ \A i \in 1..Len(uplink) : uplink'[i] = uplink[i]
          /\ \A i \in 1..Len(accepted) : accepted'[i] = accepted[i]
      BY <3>1, <3>2, <3>3, AppendProperties
    <3>5. Len(accepted) \in Nat /\ Len(sent) \in Nat /\ Len(uplink) \in Nat
      BY <3>3, LenProperties
    <3>6. Ahead \in {0, 1} /\ Ahead' = Ahead
      BY <3>1 DEF Ahead
    <3>7. /\ Len(accepted) = Len(sent) + Ahead + Len(uplink)
          /\ \A i \in 1..Len(uplink) : accepted[Len(sent) + Ahead + i] = uplink[i]
      BY <2>2 DEF QueueInv
    <3>8. \A i \in 1..Len(uplink') :
              accepted'[Len(sent) + Ahead + i] = uplink'[i]
      <4>1. TAKE i \in 1..Len(uplink')
      <4>2. CASE i = Len(uplink) + 1
        <5>1. Len(sent) + Ahead + i = Len(accepted) + 1
          BY <3>5, <3>6, <3>7, <4>2
        <5> QED BY <3>4, <4>2, <5>1
      <4>3. CASE i \in 1..Len(uplink)
        <5>1. Len(sent) + Ahead + i \in 1..Len(accepted)
          BY <3>5, <3>6, <3>7, <4>3
        <5> QED BY <3>4, <3>7, <4>3, <5>1
      <4> QED BY <3>4, <3>5, <4>2, <4>3
    <3>9. task["uplink"] = "send" => accepted'[Len(sent) + 1] = inflight
      <4>1. ASSUME task["uplink"] = "send" PROVE Len(sent) + 1 \in 1..Len(accepted)
        BY <3>5, <3>7, <4>1 DEF Ahead
      <4> QED BY <2>2, <3>4, <4>1 DEF QueueInv
    <3>10. Len(accepted') = Len(sent) + Ahead + Len(uplink')
      BY <3>4, <3>5, <3>6, <3>7
    <3> QED BY <3>1, <3>6, <3>8, <3>9, <3>10 DEF QueueInv
  <2> QED BY <2>1, <2>2
<1>4. CASE /\ accepted' = accepted /\ sent' = sent
           /\ task'["uplink"] = "done"
  BY <1>4 DEF QueueInv
<1>5. CASE /\ accepted' = accepted /\ sent' = sent
           /\ uplink' = uplink /\ inflight' = inflight
           /\ task["uplink"] \in {"check", "recv"}
                 <=> task'["uplink"] \in {"check", "recv"}
           /\ task["uplink"] = "done" <=> task'["uplink"] = "done"
  <2>1. task'["uplink"] \in {"check", "recv", "send", "done"}
    BY NextTypeOK DEF TypeOK, Tasks
  <2>2. task["uplink"] \in {"check", "recv", "send", "done"}
    BY DEF TypeOK, Tasks
  <2> QED BY <1>5, <2>1, <2>2 DEF QueueInv, Ahead
<1> QED BY <1>1, <1>2, <1>3, <1>4, <1>5, QueueSteps

\* A step of Connection is a step of Session or leaves its variables alone.
LEMMA StepKept ==
    TypeOK /\ HandleInv /\ HandleInv' /\ QueueInv /\ [Next]_vars
      => [Promise!Next]_Promise!vars
<1> DEFINE Shut == \E c \in Closers : closer[c] = "returned"
<1> SUFFICES ASSUME TypeOK, HandleInv, HandleInv', QueueInv, [Next]_vars
             PROVE  [Promise!Next]_Promise!vars
  OBVIOUS
<1>1. Shut => task["uplink"] = "done"
  BY DEF HandleInv, Tasks, Reached
<1>2. Shut => Shut'
  <2>1. ASSUME NEW c \in Closers, CallDisconnect(c) \/ CallWaitDisconnect(c)
                 \/ LinkWaitOver(c) \/ CloseLink(c) \/ CancelDisconnect(c), Shut
        PROVE  Shut'
    BY <2>1 DEF CallDisconnect, CallWaitDisconnect, LinkWaitOver, CloseLink,
                CancelDisconnect, Active, CallerGoto, TypeOK
  <2>2. ASSUME NEW c \in Closers, NEW t \in Tasks,
               TakeHandle(c, t) \/ Joined(c, t), Shut
        PROVE  Shut'
    BY <2>2, PcFacts DEF TakeHandle, Joined, CallerGoto, TypeOK, Tasks
  <2> QED BY <2>1, <2>2, OtherSteps
<1>3. CASE accepted' = accepted /\ sent' = sent
  <2>1. CASE Shut'
    BY <1>3, <2>1 DEF Promise!Next, Promise!Close
  <2>2. CASE ~Shut'
    BY <1>2, <1>3, <2>2 DEF Promise!vars
  <2> QED BY <2>1, <2>2
<1>4. CASE UplinkRecv
  BY <1>3, <1>4 DEF UplinkRecv, userVars
<1>5. CASE UplinkSend
  <2>1. /\ task["uplink"] = "send" /\ sent' = Append(sent, inflight)
        /\ accepted' = accepted /\ closer' = closer
    BY <1>5 DEF UplinkSend, closeVars
  <2>2. ~Shut
    BY <1>1, <2>1
  <2>3. Len(accepted) \in Nat /\ Len(sent) \in Nat /\ Len(uplink) \in Nat
    BY LenProperties DEF TypeOK
  <2>4. Len(sent) < Len(accepted) /\ accepted[Len(sent) + 1] = inflight
    BY <2>1, <2>3 DEF QueueInv, Ahead
  <2>5. Promise!HandOver
    BY <2>1, <2>2, <2>4 DEF Promise!HandOver
  <2> QED BY <2>5 DEF Promise!Next
<1>6. ASSUME NEW u \in Users, Request(u) PROVE [Promise!Next]_Promise!vars
  <2>1. CASE task["uplink"] = "done"
    BY <1>3, <1>6, <2>1 DEF Request
  <2>2. CASE task["uplink"] # "done"
    <3>1. /\ accepted' = Append(accepted, <<u, requests[u]>>)
          /\ sent' = sent /\ closer' = closer
      BY <1>6, <2>2 DEF Request, closeVars
    <3>2. <<u, requests[u]>> \in Packets
      BY <1>6, BoundsAssumption DEF Request, MayCall, Packets, TypeOK
    <3>3. ~Shut
      BY <1>1, <2>2
    <3>4. Promise!Accept(<<u, requests[u]>>)
      BY <3>1, <3>3 DEF Promise!Accept
    <3> QED BY <3>2, <3>4 DEF Promise!Next
  <2> QED BY <2>1, <2>2
<1> QED BY <1>3, <1>4, <1>5, <1>6, QueueSteps

\* Connection implements Session: packets are handed to the link in the order
\* they were accepted, and none is accepted or handed over once a call of
\* disconnect() has returned.
THEOREM SessionImplemented ==
    ASSUME MaxCancels = 0
    PROVE  Spec => SessionKept
<1>1. Init => Promise!Init
  BY DEF Init, Promise!Init
<1>2. Init => TypeOK /\ HandleInv /\ QueueInv
  BY InitTypeOK, InitHandleInv, InitQueueInv
<1>3. TypeOK /\ HandleInv /\ QueueInv /\ [Next]_vars
        => (TypeOK /\ HandleInv /\ QueueInv)'
  BY MaxCancels = 0, NextTypeOK, NextHandleInv, NextQueueInv
<1>4. TypeOK /\ HandleInv /\ HandleInv' /\ QueueInv /\ [Next]_vars
        => [Promise!Next]_Promise!vars
  BY StepKept
<1> QED BY <1>1, <1>2, <1>3, <1>4, PTL DEF Spec, SessionKept, Promise!Spec
=============================================================================
