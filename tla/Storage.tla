------------------------------- MODULE Storage -------------------------------
(***************************************************************************)
(* The queries of the parameter subsystem: extended type, default value    *)
(* and persistent storage.  Each is a round of a request and an answer on  *)
(* the misc channel; the calls about persistent storage have a round for   *)
(* the extended type first (is_persistent).  The misc loop passes the      *)
(* answers on; the updates it deals with are in Param.                     *)
(*                                                                         *)
(* A call that can be refused from the table of contents alone sends       *)
(* nothing and is left out.  Default values are all different: the one of  *)
(* parameter p is written p.                                               *)
(***************************************************************************)
EXTENDS Naturals, Sequences

CONSTANTS
    Users,          \* tasks of the program that share the Crazyflie object
    Params,         \* parameters with extended type information
    Persistent,     \* those the Crazyflie can store
    Writable,       \* those that have a default value
    Unknown,        \* default value not asked for yet
    Unsupported,    \* DefaultValueCache::Unsupported
    NoOne,          \* nobody holds the lock
    MaxCalls,       \* bound: calls made
    MaxMalformed,   \* bound: malformed updates from the Crazyflie
    MaxCancels      \* bound: calls whose future is dropped

ASSUME ParamAssumption ==
    /\ Params # {} /\ Persistent \subseteq Params /\ Writable \subseteq Params
    /\ Unknown \notin Params /\ Unsupported \notin Params
    /\ Unknown # Unsupported
ASSUME HolderAssumption == NoOne \notin Users
ASSUME BoundAssumption ==
    MaxCalls \in Nat /\ MaxMalformed \in Nat /\ MaxCancels \in Nat

VARIABLES
    pc,             \* where each user is
    rounds,         \* commands its call has still to go through
    param,          \* parameter of its call
    miscLock,       \* holder of the lock of misc_downlink
    defaults,       \* cache of default values
    loop,           \* where the misc loop is
    uplink,         \* requests on their way to the Crazyflie
    misc,           \* packets on their way to the misc loop
    miscCmd,        \* answers the loop has passed on
    stored,         \* parameters in the persistent storage of the Crazyflie
    uplinkUp,       \* the uplink task runs
    downlinkUp,     \* the dispatchers run
    done,           \* history: the last store or clear of a parameter that
                    \* returned Ok
    dropped,        \* history: rounds given up with the request sent
    calls, malformed, cancels   \* counters for the bounds

callVars == <<pc, rounds, param>>
wireVars == <<uplink, misc, miscCmd>>
linkVars == <<uplinkUp, downlinkUp>>
historyVars == <<done, dropped>>
boundVars == <<calls, malformed, cancels>>
vars == <<callVars, miscLock, defaults, loop, wireVars, stored, linkVars,
          historyVars, boundVars>>

Commands == {"extended", "default", "state", "store", "clear"}
Requests == [cmd : Commands, param : Params, by : Users]

\* status: 0, ENOENT, or another code; data: the PERSISTENT flag for the
\* extended type, whether a value is stored for the state.
Answers == [cmd : Commands, param : Params, by : Users,
            status : {"ok", "noEntry", "error"}, data : BOOLEAN]
Malformed == [cmd |-> "malformed"]

Rounds(c) == IF c \in {"state", "store", "clear"} THEN <<"extended", c>> ELSE <<c>>

NoParam == CHOOSE p \in Params : TRUE

TypeOK ==
    /\ pc \in [Users -> {"idle", "lock", "wait"}]
    /\ rounds \in [Users -> Seq(Commands)]
    /\ \A u \in Users : pc[u] = "idle" <=> rounds[u] = <<>>
    /\ param \in [Users -> Params]
    /\ miscLock \in Users \union {NoOne}
    /\ \A u \in Users : pc[u] = "wait" <=> miscLock = u
    /\ defaults \in [Params -> Params \union {Unknown, Unsupported}]
    /\ loop \in {"recv", "ended"}
    /\ uplink \in Seq(Requests)
    /\ misc \in Seq(Answers \union {Malformed}) /\ miscCmd \in Seq(Answers)
    /\ stored \subseteq Persistent
    /\ uplinkUp \in BOOLEAN /\ downlinkUp \in BOOLEAN
    /\ done \in [Params -> {"none", "store", "clear"}]
    /\ dropped \subseteq Commands \X Params
    /\ calls \in Nat /\ malformed \in Nat /\ cancels \in Nat

Init ==
    /\ pc = [u \in Users |-> "idle"]
    /\ rounds = [u \in Users |-> <<>>]
    /\ param = [u \in Users |-> NoParam]
    /\ miscLock = NoOne
    /\ defaults = [p \in Params |-> Unknown]
    /\ loop = "recv"
    /\ uplink = <<>> /\ misc = <<>> /\ miscCmd = <<>>
    /\ stored \in SUBSET Persistent
    /\ uplinkUp = TRUE /\ downlinkUp = TRUE
    /\ done = [p \in Params |-> "none"]
    /\ dropped = {}
    /\ calls = 0 /\ malformed = 0 /\ cancels = 0

-----------------------------------------------------------------------------
(* The calls. *)

\* get_default_value looks into the cache first, and is over if p is there.
Cached(c, p) == c = "default" /\ defaults[p] # Unknown

Call(u, c, p) ==
    /\ pc[u] = "idle"
    /\ calls < MaxCalls
    /\ calls' = calls + 1
    /\ ~Cached(c, p)
    /\ pc' = [pc EXCEPT ![u] = "lock"]
    /\ rounds' = [rounds EXCEPT ![u] = Rounds(c)]
    /\ param' = [param EXCEPT ![u] = p]
    /\ UNCHANGED <<miscLock, defaults, loop, wireVars, stored, linkVars,
                   historyVars, malformed, cancels>>

\* "Lock before sending to prevent race conditions with concurrent requests"
\* Mutant: the lock is taken for the time of the sending only.
HoldForSend(u) == UNCHANGED miscLock
HoldLock(u) == miscLock' = u

Send(u) ==
    /\ pc[u] = "lock"
    /\ miscLock = NoOne
    /\ uplinkUp
    /\ HoldLock(u)
    /\ uplink' = IF downlinkUp
                 THEN Append(uplink, [cmd |-> Head(rounds[u]), param |-> param[u], by |-> u])
                 ELSE uplink
    /\ pc' = [pc EXCEPT ![u] = "wait"]
    /\ UNCHANGED <<rounds, param, defaults, loop, misc, miscCmd, stored, linkVars,
                   historyVars, boundVars>>

\* wait_packet: the answer begins with the bytes of the request.
\* Mutants: only the command, or only the identifier, is looked at.
MatchesCommand(u, answer) == answer.cmd = Head(rounds[u])
MatchesParam(u, answer) == answer.param = param[u]
Matches(u, answer) == answer.cmd = Head(rounds[u]) /\ answer.param = param[u]

Discard(u) ==
    /\ pc[u] = "wait"
    /\ miscCmd # <<>>
    /\ ~Matches(u, Head(miscCmd))
    /\ miscCmd' = Tail(miscCmd)
    /\ UNCHANGED <<callVars, miscLock, defaults, loop, uplink, misc, stored,
                   linkVars, historyVars, boundVars>>

\* The lock is gone at the end of the round.
EndRound(u) ==
    /\ miscLock' = IF miscLock = u THEN NoOne ELSE miscLock
    /\ rounds' = [rounds EXCEPT ![u] = Tail(@)]
    /\ pc' = [pc EXCEPT ![u] = "lock"]
    /\ UNCHANGED param

EndCall(u) ==
    /\ miscLock' = IF miscLock = u THEN NoOne ELSE miscLock
    /\ rounds' = [rounds EXCEPT ![u] = <<>>]
    /\ pc' = [pc EXCEPT ![u] = "idle"]
    /\ param' = [param EXCEPT ![u] = NoParam]

Receive(u) ==
    /\ pc[u] = "wait"
    /\ miscCmd # <<>>
    /\ Matches(u, Head(miscCmd))
    /\ miscCmd' = Tail(miscCmd)

\* "Check if PERSISTENT flag (bit 0) is set": on to the second round.
IsPersistent(u) ==
    /\ Receive(u)
    /\ Len(rounds[u]) = 2
    /\ Head(miscCmd).status = "ok" /\ Head(miscCmd).data
    /\ EndRound(u)
    /\ UNCHANGED <<defaults, loop, uplink, misc, stored, linkVars, historyVars,
                   boundVars>>

NotPersistent(u) ==
    /\ Receive(u)
    /\ Len(rounds[u]) = 2
    /\ ~(Head(miscCmd).status = "ok" /\ Head(miscCmd).data)
    /\ EndCall(u)
    /\ UNCHANGED <<defaults, loop, uplink, misc, stored, linkVars, historyVars,
                   boundVars>>

\* "Cache the unsupported state so we don't query again", after ENOENT only.
Learnt(answer, old) ==
    CASE answer.status = "ok" -> answer.param
      [] answer.status = "noEntry" -> Unsupported
      [] OTHER -> old

DefaultAnswered(u) ==
    /\ Receive(u)
    /\ rounds[u] = <<"default">>
    /\ defaults' = [defaults EXCEPT ![param[u]] = Learnt(Head(miscCmd), @)]
    /\ EndCall(u)
    /\ UNCHANGED <<loop, uplink, misc, stored, linkVars, historyVars, boundVars>>

\* A store or a clear is Ok if the status is 0; the others change nothing.
Answered(u) ==
    /\ Receive(u)
    /\ Len(rounds[u]) = 1 /\ rounds[u] # <<"default">>
    /\ done' = IF Head(rounds[u]) \in {"store", "clear"} /\ Head(miscCmd).status = "ok"
               THEN [done EXCEPT ![param[u]] = Head(rounds[u])] ELSE done
    /\ EndCall(u)
    /\ UNCHANGED <<defaults, loop, uplink, misc, stored, linkVars, dropped, boundVars>>

SendError(u) ==
    /\ pc[u] = "lock"
    /\ miscLock = NoOne
    /\ ~uplinkUp
    /\ EndCall(u)
    /\ UNCHANGED <<defaults, loop, wireVars, stored, linkVars, historyVars, boundVars>>

\* The misc loop owns the only sender of the queue of answers.
\* Mutant: the Param object keeps one as well.
ClosedNever == FALSE
Closed == loop = "ended"

WaitError(u) ==
    /\ pc[u] = "wait"
    /\ miscCmd = <<>>
    /\ Closed
    /\ EndCall(u)
    /\ UNCHANGED <<defaults, loop, wireVars, stored, linkVars, historyVars, boundVars>>

\* The program drops the future of a call; its answer may still come.
Cancel(u) ==
    /\ pc[u] # "idle"
    /\ cancels < MaxCancels
    /\ cancels' = cancels + 1
    /\ dropped' = IF pc[u] = "wait"
                  THEN dropped \union {<<Head(rounds[u]), param[u]>>} ELSE dropped
    /\ EndCall(u)
    /\ UNCHANGED <<defaults, loop, wireVars, stored, linkVars, done, calls, malformed>>

-----------------------------------------------------------------------------
(* The misc loop. *)

LoopForward ==
    /\ loop = "recv"
    /\ misc # <<>>
    /\ Head(misc) # Malformed
    /\ misc' = Tail(misc)
    /\ miscCmd' = Append(miscCmd, Head(misc))
    /\ UNCHANGED <<callVars, miscLock, defaults, loop, uplink, stored, linkVars,
                   historyVars, boundVars>>

\* A malformed update or the end of the channel; the receiver goes as well.
LoopEnd ==
    /\ loop = "recv"
    /\ \/ misc # <<>> /\ Head(misc) = Malformed
       \/ misc = <<>> /\ ~downlinkUp
    /\ loop' = "ended"
    /\ misc' = <<>>
    /\ UNCHANGED <<callVars, miscLock, defaults, uplink, miscCmd, stored, linkVars,
                   historyVars, boundVars>>

-----------------------------------------------------------------------------
(* External: the Crazyflie and the connection. *)

FwDoes(r) ==
    stored' = CASE r.cmd = "store" -> stored \union {r.param}
                [] r.cmd = "clear" -> stored \ {r.param}
                [] OTHER -> stored

FwAnswer(r) ==
    [cmd |-> r.cmd, param |-> r.param, by |-> r.by,
     status |-> IF r.cmd = "default" /\ r.param \notin Writable THEN "noEntry" ELSE "ok",
     data |-> \/ r.cmd = "extended" /\ r.param \in Persistent
              \/ r.cmd = "state" /\ r.param \in stored]

\* A storage that cannot be written is ENOENT.
FwRefusal(r) ==
    [cmd |-> r.cmd, param |-> r.param, by |-> r.by, data |-> FALSE,
     status |-> IF r.cmd \in {"store", "clear"} THEN "noEntry" ELSE "error"]

\* What comes once the misc loop has ended is lost.
Arrives(packet) ==
    misc' = IF loop = "recv" THEN Append(misc, packet) ELSE misc

FwRequest ==
    /\ downlinkUp
    /\ uplink # <<>>
    /\ uplink' = Tail(uplink)
    /\ \/ FwDoes(Head(uplink)) /\ Arrives(FwAnswer(Head(uplink)))
       \/ UNCHANGED stored /\ Arrives(FwRefusal(Head(uplink)))
    /\ UNCHANGED <<callVars, miscLock, defaults, loop, miscCmd, linkVars,
                   historyVars, boundVars>>

FwMalformed ==
    /\ downlinkUp
    /\ malformed < MaxMalformed
    /\ malformed' = malformed + 1
    /\ Arrives(Malformed)
    /\ UNCHANGED <<callVars, miscLock, defaults, loop, uplink, miscCmd, stored,
                   linkVars, historyVars, calls, cancels>>

\* As in Param.
DownlinkEnds ==
    /\ downlinkUp
    /\ downlinkUp' = FALSE
    /\ uplink' = <<>>
    /\ \E n \in 0..Len(misc) : misc' = SubSeq(misc, 1, n)
    /\ UNCHANGED <<callVars, miscLock, defaults, loop, miscCmd, stored, uplinkUp,
                   historyVars, boundVars>>

UplinkEnds ==
    /\ uplinkUp
    /\ uplinkUp' = FALSE
    /\ \E n \in 0..Len(uplink) : uplink' = SubSeq(uplink, 1, n)
    /\ UNCHANGED <<callVars, miscLock, defaults, loop, misc, miscCmd, stored,
                   downlinkUp, historyVars, boundVars>>

-----------------------------------------------------------------------------
CallStep(u) ==
    \/ Send(u) \/ Discard(u) \/ IsPersistent(u) \/ NotPersistent(u)
    \/ DefaultAnswered(u) \/ Answered(u) \/ SendError(u) \/ WaitError(u)

LoopStep == LoopForward \/ LoopEnd

Next ==
    \/ \E u \in Users :
        \/ \E c \in Commands, p \in Params : Call(u, c, p)
        \/ CallStep(u)
        \/ Cancel(u)
    \/ LoopStep
    \/ FwRequest \/ FwMalformed \/ DownlinkEnds \/ UplinkEnds

Spec == Init /\ [][Next]_vars

(* As in Param.  That the misc loop goes on, whatever lock it waits for     *)
(* there, is part of what CallsReturn of Param shows.                       *)
Fairness ==
    /\ \A u \in Users : WF_vars(CallStep(u))
    /\ WF_vars(LoopStep)
    /\ WF_vars(FwRequest)
    /\ WF_vars(~uplinkUp /\ DownlinkEnds)

FairSpec == Spec /\ Fairness

-----------------------------------------------------------------------------
(* Properties *)

\* The answer the user is about to take, if there is one.
Takes(u) == pc[u] = "wait" /\ miscCmd # <<>> /\ Matches(u, Head(miscCmd))

\* Concurrent requests get each their own answer ("Lock before sending to
\* prevent race conditions with concurrent requests"), unless the same request
\* was made before by a call that has been dropped.
OwnAnswers ==
    \A u \in Users :
        Takes(u) /\ <<Head(rounds[u]), param[u]>> \notin dropped
            => Head(miscCmd).by = u

\* What persistent_get_state returns is still true when it returns: no other
\* call stores or clears the parameter meanwhile.
StateCurrent ==
    \A u \in Users :
        /\ Takes(u)
        /\ Head(rounds[u]) = "state" /\ Head(miscCmd).status = "ok"
        /\ \A c \in {"state", "store", "clear"} : <<c, param[u]>> \notin dropped
        => Head(miscCmd).data = (param[u] \in stored)

\* The cache of default values never holds the value of another parameter, and
\* never calls a parameter unsupported that has a default value, whatever late
\* answers of dropped calls come in.
DefaultsRight ==
    \A p \in Params :
        defaults[p] \in {Unknown, IF p \in Writable THEN p ELSE Unsupported}

\* "Store the current value of a persistent parameter to persistent storage":
\* when no call waits on a live connection, the last store or clear of a parameter that
\* returned Ok says whether it is stored.
LastAgrees ==
    /\ \A u \in Users : pc[u] # "wait"
    /\ uplinkUp /\ downlinkUp /\ loop = "recv"
    => \A p \in Params :
         {<<"store", p>>, <<"clear", p>>} \cap dropped = {}
            => /\ done[p] = "store" => p \in stored
               /\ done[p] = "clear" => p \notin stored

\* Every query returns, also when a malformed update or the loss of the link
\* ends the misc loop, and after a call that was dropped with its answer due.
CallsReturn == \A u \in Users : pc[u] # "idle" ~> pc[u] = "idle"
=============================================================================
