------------------------------ MODULE Platform ------------------------------
(***************************************************************************)
(* Platform services (platform.rs): the version queries, which share one   *)
(* queue of answers behind a mutex and have no timeout, and the app        *)
(* channel, which is handed out once.  Commands is about what is sent and  *)
(* not answered.                                                           *)
(***************************************************************************)
EXTENDS Naturals, Sequences, SequencesExt

CONSTANTS
    Clients,        \* tasks of the program
    NoOne,          \* the holder of a mutex that is free, the owner of nothing
    MaxQueries,     \* bound: queries of all tasks
    MaxApp,         \* bound: app packets of the Crazyflie
    MaxGivenUp      \* bound: queries whose future is dropped

\* What the constants have to be.
ConstantsOK ==
    /\ NoOne \notin Clients
    /\ MaxQueries \in Nat
    /\ MaxApp \in Nat
    /\ MaxGivenUp \in Nat

VARIABLES
    query,          \* the query of each task
    commGuard,      \* who holds the mutex of version_comm
    asked,          \* packets on their way to the Crazyflie
    versions,       \* answers on the version channel
    appHome,        \* appchannel_comm still has its pair
    appOwner,       \* the task with the receiver of the app channel
    appQueue,       \* packets that have come in on the app channel
    appGot,         \* history: what each task received from it
    appSent,        \* history: number of app packets of the Crazyflie
    online,         \* the connection is up
    requests,       \* history: version requests sent
    behind,         \* history: answers left to come by queries given up
    queries, givenUp    \* counters for the bounds

appVars == <<appHome, appOwner, appQueue, appGot, appSent>>
queryVars == <<query, commGuard, asked, versions, requests, behind, queries, givenUp>>
vars == <<appVars, queryVars, online>>

\* VERSION_GET_PROTOCOL, VERSION_GET_FIRMWARE, VERSION_GET_DEVICE_TYPE
Versions == {0, 1, 2}

TypeOK ==
    /\ query \in [Clients -> [kind : Versions, stage : {"idle", "lock", "wait"},
                              request : Nat, answer : Nat, lag : Nat,
                              outcome : {"none", "ok", "protocol", "disconnected", "dropped"}]]
    /\ commGuard \in Clients \union {NoOne}
    /\ asked \in Seq([kind : Versions, request : Nat])
    /\ versions \in Seq([kind : Versions, request : Nat])
    /\ appHome \in BOOLEAN /\ appOwner \in Clients \union {NoOne}
    /\ appQueue \in Seq(Nat) /\ appGot \in [Clients -> Seq(Nat)] /\ appSent \in 0..MaxApp
    /\ online \in BOOLEAN /\ behind \in Nat /\ requests \in Nat
    /\ queries \in 0..MaxQueries /\ givenUp \in 0..MaxGivenUp

Init ==
    /\ query = [t \in Clients |-> [kind |-> 0, stage |-> "idle", request |-> 0,
                                   answer |-> 0, lag |-> 0, outcome |-> "none"]]
    /\ commGuard = NoOne
    /\ asked = <<>> /\ versions = <<>>
    /\ appHome = TRUE /\ appOwner = NoOne
    /\ appQueue = <<>> /\ appGot = [t \in Clients |-> <<>>] /\ appSent = 0
    /\ online = TRUE /\ behind = 0 /\ requests = 0
    /\ queries = 0 /\ givenUp = 0

-----------------------------------------------------------------------------
(* The version queries. *)

At(t, s) == query[t].stage = s

End(t, outcome) ==
    /\ query' = [query EXCEPT ![t].stage = "idle", ![t].outcome = outcome]
    /\ commGuard' = IF commGuard = t THEN NoOne ELSE commGuard

Query(t, k) ==
    /\ At(t, "idle")
    /\ queries < MaxQueries
    /\ queries' = queries + 1
    /\ query' = [query EXCEPT ![t] = [kind |-> k, stage |-> "lock", request |-> 0,
                                      answer |-> 0, lag |-> 0, outcome |-> "none"]]
    /\ UNCHANGED <<commGuard, asked, versions, appVars, online, requests, behind, givenUp>>

\* Mutant: each task has its own clone of the receiver, and no mutex.
CommFreeAlways == TRUE
CommFree == commGuard = NoOne

\* The mutex is taken and the request is in the uplink queue: there is no
\* wait in between.  A request for a lost connection may still be accepted.
Request(t) ==
    /\ At(t, "lock")
    /\ CommFree
    /\ \/ /\ commGuard' = t
          /\ requests' = requests + 1
          /\ query' = [query EXCEPT ![t].stage = "wait", ![t].request = requests + 1]
          /\ asked' = IF online THEN Append(asked, [kind |-> query[t].kind,
                                                    request |-> requests + 1])
                      ELSE asked
       \/ ~online /\ End(t, "disconnected") /\ UNCHANGED <<asked, requests>>
    /\ UNCHANGED <<versions, appVars, online, behind, queries, givenUp>>

\* The first packet, whatever it answers, decides.
Answered(t) ==
    /\ At(t, "wait")
    /\ versions # <<>>
    /\ query' = [query EXCEPT ![t].stage = "idle",
                    ![t].answer = Head(versions).request, ![t].lag = behind,
                    ![t].outcome = IF Head(versions).kind = query[t].kind
                                   THEN "ok" ELSE "protocol"]
    /\ commGuard' = IF commGuard = t THEN NoOne ELSE commGuard
    /\ versions' = Tail(versions)
    /\ UNCHANGED <<asked, appVars, online, requests, behind, queries, givenUp>>

Closed(t) ==
    /\ At(t, "wait")
    /\ versions = <<>>
    /\ ~online
    /\ End(t, "disconnected")
    /\ UNCHANGED <<asked, versions, appVars, online, requests, behind, queries, givenUp>>

\* The program drops the future; an answer it waited for stays to come.
GiveUp(t) ==
    /\ ~At(t, "idle")
    /\ givenUp < MaxGivenUp
    /\ givenUp' = givenUp + 1
    /\ End(t, "dropped")
    /\ behind' = IF At(t, "wait") THEN behind + 1 ELSE behind
    /\ UNCHANGED <<asked, versions, appVars, online, requests, queries>>

-----------------------------------------------------------------------------
(* The app channel. *)

\* appchannel_comm.lock().await.take()
\* Mutant: the pair is cloned, not taken.
TakePairClone == UNCHANGED appHome
TakePair == appHome' = FALSE

GetAppChannel(t) ==
    /\ appHome
    /\ TakePair
    /\ appOwner' = t
    /\ UNCHANGED <<queryVars, appQueue, appGot, appSent, online>>

\* get_app_channel() returns None from then on, also when the pair is gone.
AppReceive(t) ==
    /\ appOwner = t
    /\ appQueue # <<>>
    /\ appGot' = [appGot EXCEPT ![t] = Append(@, Head(appQueue))]
    /\ appQueue' = Tail(appQueue)
    /\ UNCHANGED <<queryVars, appHome, appOwner, appSent, online>>

-----------------------------------------------------------------------------
(* External: the Crazyflie and the link. *)

\* It answers the queries in order.
Serve ==
    /\ asked # <<>>
    /\ asked' = Tail(asked)
    /\ versions' = Append(versions, Head(asked))
    /\ UNCHANGED <<query, commGuard, appVars, online, requests, behind, queries, givenUp>>

AppArrive ==
    /\ online
    /\ appSent < MaxApp
    /\ appSent' = appSent + 1
    /\ appQueue' = Append(appQueue, appSent + 1)
    /\ UNCHANGED <<queryVars, appHome, appOwner, appGot, online>>

Lose ==
    /\ online
    /\ online' = FALSE
    /\ asked' = <<>>
    /\ UNCHANGED <<query, commGuard, versions, appVars, requests, behind, queries, givenUp>>

Step(t) == Request(t) \/ Answered(t) \/ Closed(t)

Next ==
    \/ \E t \in Clients : \/ \E k \in Versions : Query(t, k)
                          \/ Step(t) \/ GiveUp(t)
                          \/ GetAppChannel(t) \/ AppReceive(t)
    \/ Serve \/ AppArrive \/ Lose

Spec == Init /\ [][Next]_vars

\* Each query goes on when it can, and the Crazyflie answers.
Fairness == WF_vars(Serve) /\ \A t \in Clients : WF_vars(Step(t))

-----------------------------------------------------------------------------
(* Properties *)

\* A query gets the answer to the request sent as many version requests
\* before its own as queries were given up with an answer to come: its own
\* answer if there was none, and never again its own after one
\* (platform.rs:64).
AnswersLag ==
    \A t \in Clients : query[t].outcome \in {"ok", "protocol"} =>
        query[t].answer = query[t].request - query[t].lag

\* Without a query given up there is no protocol error, whoever else asks.
NoProtocolError ==
    behind = 0 => \A t \in Clients : query[t].outcome # "protocol"

\* The stream of the app channel has every packet since the connection, in
\* order, whenever it was taken and whoever asked for it at the same time
\* (platform.rs:133).
AppStreamWhole ==
    \A t \in Clients : appOwner = t =>
        appGot[t] \o appQueue = [i \in 1..appSent |-> i]

\* What comes in for a query or an app is kept for it.
AnswersKept == AnswersLag /\ NoProtocolError /\ AppStreamWhole
=============================================================================
