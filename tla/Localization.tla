---------------------------- MODULE Localization ----------------------------
(***************************************************************************)
(* Localization (localization.rs): a task sorts what comes in on the port  *)
(* into two broadcast channels, of lighthouse angles and of confirmations; *)
(* persist_lighthouse_data sends a request and waits for a confirmation.   *)
(* The senders of commands that are not answered are in Commands.          *)
(*                                                                         *)
(* The original receivers of the channels are never read: a clone of them  *)
(* gets what the channel holds, from the oldest on.                        *)
(***************************************************************************)
EXTENDS Broadcast, FiniteSets, SequencesExt

CONSTANTS
    Clients,        \* tasks of the program
    Stations,       \* the lists of base stations they persist
    AngleCapacity,  \* of the channel of angles (100)
    PersistCapacity,\* of the channel of confirmations (10)
    MaxPersists,    \* bound: calls of persist_lighthouse_data
    MaxAngles       \* bound: packets of the Crazyflie on its own

\* What the constants have to be.
ConstantsOK ==
    /\ AngleCapacity \in Nat \ {0}
    /\ PersistCapacity \in Nat \ {0}
    /\ \A l \in Stations : l \in Seq(Nat)

VARIABLES
    persist,        \* the call of each task
    requested,      \* requests on their way to the Crazyflie
    inbox,          \* packets that have come in on the port
    told,           \* confirmations, as they are broadcast
    angles,         \* angles, as they are broadcast
    angleReader,    \* a stream of angles
    live,           \* the connection is up
    ended,          \* the task has ended
    angleSent,      \* history: the readable angle packets that came in
    unasked, persists   \* counters for the bounds

callVars == <<persist, requested, persists>>
taskVars == <<inbox, told, angles, ended>>
vars == <<callVars, taskVars, angleReader, live, angleSent, unasked>>

\* A packet on the port: angles, a confirmation, or one that is skipped (of
\* another channel or type, without data, or too short for its angles).
Types == {"angle", "persist", "skipped"}

TypeOK ==
    /\ persist \in [Clients -> [stage : {"idle", "send", "wait"}, call : 0..MaxPersists,
                                list : Stations,
                                outcome : {"none", "true", "false", "protocol", "timeout",
                                           "disconnected"}]]
    /\ requested \in Seq([call : 1..MaxPersists, mask : SUBSET (0..15)])
    /\ \A i \in DOMAIN inbox : inbox[i].type \in Types
    /\ told \in Seq([call : 1..MaxPersists, ok : BOOLEAN])
    /\ angles \in Seq(1..MaxAngles)
    /\ angleReader \in [open : BOOLEAN, next : Nat, got : Seq(1..MaxAngles)]
    /\ live \in BOOLEAN /\ ended \in BOOLEAN
    /\ angleSent \in Seq(1..MaxAngles) /\ unasked \in 0..MaxAngles /\ persists \in 0..MaxPersists

Init ==
    /\ persist = [t \in Clients |-> [stage |-> "idle", call |-> 0,
                                     list |-> CHOOSE l \in Stations : TRUE, outcome |-> "none"]]
    /\ requested = <<>> /\ inbox = <<>> /\ told = <<>> /\ angles = <<>>
    /\ angleReader = [open |-> FALSE, next |-> 0, got |-> <<>>]
    /\ live = TRUE /\ ended = FALSE
    /\ angleSent = <<>> /\ unasked = 0 /\ persists = 0

-----------------------------------------------------------------------------
(* The task that sorts the packets. *)

\* A packet that is not understood is skipped.
\* Mutant: decode_lh_angle(data)? ends the task.
EndsTaskAtShort(pk) == pk.type = "skipped"
EndsTask(pk) == FALSE

Dispatch ==
    /\ ~ended
    /\ inbox # <<>>
    /\ LET pk == Head(inbox) IN
        /\ angles' = IF pk.type = "angle" THEN Append(angles, pk.n) ELSE angles
        /\ told' = IF pk.type = "persist" THEN Append(told, [call |-> pk.n, ok |-> pk.ok]) ELSE told
        /\ ended' = EndsTask(pk)
    /\ inbox' = Tail(inbox)
    /\ UNCHANGED <<callVars, angleReader, live, angleSent, unasked>>

TaskEnds ==
    /\ ~ended /\ ~live
    /\ inbox = <<>>
    /\ ended' = TRUE
    /\ UNCHANGED <<callVars, inbox, told, angles, angleReader, live, angleSent, unasked>>

-----------------------------------------------------------------------------
(* persist_lighthouse_data *)

MaxStation == 15

\* mask |= 1 << bs, with a u16: the shift is taken modulo 16.
Mask(list) == {list[i] % 16 : i \in DOMAIN list}

\* Mutant: the last of the stations is not looked at.
ValidButLast(list) == \A i \in DOMAIN list : i < Len(list) => list[i] <= MaxStation
Valid(list) == \A i \in DOMAIN list : list[i] <= MaxStation

Return(t, outcome) ==
    persist' = [persist EXCEPT ![t].stage = "idle", ![t].outcome = outcome]

\* One of the two lists stands for both.
Persist(t, list) ==
    /\ persist[t].stage = "idle"
    /\ persists < MaxPersists
    /\ persists' = persists + 1
    /\ persist' = [persist EXCEPT ![t] =
          [stage |-> IF Valid(list) THEN "send" ELSE "idle", call |-> persists + 1,
           list |-> list, outcome |-> IF Valid(list) THEN "none" ELSE "protocol"]]
    /\ UNCHANGED <<requested, taskVars, angleReader, live, angleSent, unasked>>

SendPersist(t) ==
    /\ persist[t].stage = "send"
    /\ \/ /\ persist' = [persist EXCEPT ![t].stage = "wait"]
          /\ requested' = IF ~live THEN requested
                          ELSE Append(requested, [call |-> persist[t].call,
                                                  mask |-> Mask(persist[t].list)])
       \/ ~live /\ Return(t, "disconnected") /\ UNCHANGED requested
    /\ UNCHANGED <<persists, taskVars, angleReader, live, angleSent, unasked>>

\* persist_receiver.clone(): the clone starts where the original stands.
Start == 0

\* recv() gives the first confirmation; an overflow is an error, which becomes
\* Error::Disconnected.
Confirmed(t) ==
    /\ persist[t].stage = "wait"
    /\ \/ /\ Ready(told, PersistCapacity, Start)
          /\ Return(t, IF Message(told, Start).ok THEN "true" ELSE "false")
       \/ Overflowed(told, PersistCapacity, Start) /\ Return(t, "disconnected")
       \/ ended /\ Start = Len(told) /\ Return(t, "disconnected")
    /\ UNCHANGED <<requested, persists, taskVars, angleReader, live, angleSent, unasked>>

\* Mutants: the receive has no timeout, or its timeout is the wrong error.
TimeoutErrorClosed == "disconnected"
TimeoutError == "timeout"
TimeoutNever(t) == FALSE /\ UNCHANGED vars

\* Five seconds, with nothing to receive.
Timeout(t) ==
    /\ persist[t].stage = "wait"
    /\ ~ended
    /\ Start = Len(told)
    /\ Return(t, TimeoutError)
    /\ UNCHANGED <<requested, persists, taskVars, angleReader, live, angleSent, unasked>>

-----------------------------------------------------------------------------
(* angle_stream *)

OpenAngles ==
    /\ ~angleReader.open
    /\ angleReader' = [open |-> TRUE, next |-> Start, got |-> <<>>]
    /\ UNCHANGED <<callVars, taskVars, live, angleSent, unasked>>

\* The stream skips what has overflowed.
ReadAngle ==
    LET n == angleReader.next IN
    /\ angleReader.open
    /\ \/ /\ Ready(angles, AngleCapacity, n)
          /\ angleReader' = [angleReader EXCEPT !.next = n + 1,
                                               !.got = Append(@, Message(angles, n))]
       \/ /\ Overflowed(angles, AngleCapacity, n)
          /\ angleReader' = [angleReader EXCEPT !.next = Dropped(angles, AngleCapacity)]
    /\ UNCHANGED <<callVars, taskVars, live, angleSent, unasked>>

-----------------------------------------------------------------------------
(* External: the Crazyflie and the link. *)

Report ==
    /\ live
    /\ unasked < MaxAngles
    /\ unasked' = unasked + 1
    /\ \/ /\ inbox' = Append(inbox, [type |-> "angle", n |-> unasked + 1])
          /\ angleSent' = Append(angleSent, unasked + 1)
       \/ inbox' = Append(inbox, [type |-> "skipped"])
          /\ UNCHANGED angleSent
    /\ UNCHANGED <<callVars, told, angles, ended, angleReader, live>>

\* It persists what it is asked to, or fails to, and says so; or says nothing.
Confirm ==
    /\ requested # <<>>
    /\ requested' = Tail(requested)
    /\ \/ \E ok \in BOOLEAN :
             inbox' = Append(inbox, [type |-> "persist", n |-> Head(requested).call, ok |-> ok])
       \/ UNCHANGED inbox
    /\ UNCHANGED <<persist, persists, told, angles, ended, angleReader, live, angleSent, unasked>>

Lose ==
    /\ live
    /\ live' = FALSE
    /\ requested' = <<>>
    /\ UNCHANGED <<persist, persists, taskVars, angleReader, angleSent, unasked>>

Task == Dispatch \/ TaskEnds
Step(t) == SendPersist(t) \/ Confirmed(t) \/ Timeout(t)

Next ==
    \/ Task \/ OpenAngles \/ ReadAngle
    \/ Report \/ Confirm \/ Lose
    \/ \E t \in Clients : \/ \E l \in Stations : Persist(t, l)
                          \/ Step(t)

Spec == Init /\ [][Next]_vars

\* The task and the calls go on when they can, by their timeout at the latest.
Fairness == WF_vars(Task) /\ \A t \in Clients : WF_vars(Step(t))

-----------------------------------------------------------------------------
(* Properties *)

\* A request that leaves names the stations of the list and no other: none
\* wraps around to another one (localization.rs:454).
MaskRight ==
    \A i \in DOMAIN requested, t \in Clients :
        requested[i].call = persist[t].call => requested[i].mask = Range(persist[t].list)

\* As long as the connection is up, a call that is not confirmed says so, and
\* not that the connection is lost, until more confirmations have come than
\* the channel holds (localization.rs:434).
NoFalseDisconnect ==
    \A t \in Clients : persist[t].outcome = "disconnected" /\ live =>
        Len(told) > PersistCapacity

\* A stream of angles gives the readable angles of the connection in order and
\* once; one it has not given is still to come, or has fallen out of the
\* channel, whatever else came in (localization.rs:149).
AnglesWhole ==
    LET got == angleReader.got
        toCome(i) == \/ angleReader.next < i /\ i <= Len(angles)
                     \/ ~ended /\ \E k \in DOMAIN inbox :
                           inbox[k].type = "angle" /\ inbox[k].n = angleSent[i]
    IN  /\ \A i, k \in DOMAIN got : i < k => got[i] < got[k]
        /\ angleReader.open => \A i \in DOMAIN angleSent :
              \/ angleSent[i] \in Range(got)
              \/ toCome(i)
              \/ i <= Dropped(angles, AngleCapacity)

\* What goes to the lighthouse and what comes from it.
LighthouseTold == MaskRight /\ NoFalseDisconnect /\ AnglesWhole

\* A true or false is the word of the Crazyflie on the data of this call:
\* "Ok(true) if data was successfully persisted", localization.rs:397.
PersistHonest ==
    \A t \in Clients : persist[t].outcome = "true" =>
        \E i \in DOMAIN told : told[i].call = persist[t].call /\ told[i].ok
=============================================================================
