---------------------------- MODULE LinkService -----------------------------
(***************************************************************************)
(* The link service (link_service.rs): ping and the three bandwidth tests, *)
(* made by several tasks on one object.                                    *)
(*                                                                         *)
(* Each queue of answers, echo and source, is behind a mutex that a test   *)
(* holds from its first request to its last answer.  A receive is given up *)
(* after one second (ten for the uplink test), and then what was asked for *)
(* still comes: the queue belongs to the object and nobody empties it.     *)
(***************************************************************************)
EXTENDS Naturals, Sequences

CONSTANTS
    Clients,        \* tasks of the program
    NoOne,          \* the holder of a mutex that is free
    Sizes,          \* numbers of packets of a bandwidth test
    MaxTests,       \* bound: calls made by all tasks
    MaxDrops        \* bound: calls whose future is dropped

\* What the constants have to be.
ConstantsOK ==
    /\ NoOne \notin Clients
    /\ Sizes \subseteq Nat
    /\ MaxTests \in Nat
    /\ MaxDrops \in Nat

VARIABLES
    test,           \* the call of each task
    guard,          \* who holds the mutex of each queue
    outgoing,       \* packets on their way to the Crazyflie
    incoming,       \* answers that have come in, by queue
    linked,         \* the connection is up
    foreign,        \* history: a call took the answer to another one
    abandoned,      \* history: a call ended with an answer still to come
    tests, drops    \* counters for the bounds

vars == <<test, guard, outgoing, incoming, linked, foreign, abandoned, tests, drops>>

Kinds == {"ping", "uplink", "downlink", "echo"}
Queues == {"echo", "source"}
Outcomes == {"none", "ok", "timeout", "protocol", "disconnected", "dropped"}

\* The queue a test reads.
Queue(k) == IF k = "downlink" THEN "source" ELSE "echo"

\* What it sends there, and gets back: PING_PAYLOAD, ECHO_PAYLOAD, the fill
\* pattern, and the identification of the Crazyflie.
Payload(k) == CASE k = "ping" -> 1 [] k = "uplink" -> 0 [] k = "echo" -> 170
                [] k = "downlink" -> 32

\* How many it sends there, for a test of n packets.
Asked(k, n) == IF k \in {"ping", "uplink"} THEN 1 ELSE n

SizesOf(k) == IF k = "ping" THEN {1} ELSE Sizes

\* A packet names its call, which is not on the wire.
Packet == [queue : Queues \union {"sink"}, data : {0, 1, 32, 170}, call : Nat]
PacketOf(t, q) == [queue |-> q, call |-> test[t].call,
                   data |-> IF q = "sink" THEN 170 ELSE Payload(test[t].kind)]

TypeOK ==
    /\ test \in [Clients -> [call : 0..MaxTests, kind : Kinds,
                             stage : {"idle", "sink", "lock", "send", "wait"},
                             n : Nat, left : Nat, due : Nat,
                             outcome : Outcomes]]
    /\ guard \in [Queues -> Clients \union {NoOne}]
    /\ outgoing \in Seq(Packet)
    /\ incoming \in [Queues -> Seq(Packet)]
    /\ linked \in BOOLEAN /\ foreign \in BOOLEAN /\ abandoned \in BOOLEAN
    /\ tests \in 0..MaxTests /\ drops \in 0..MaxDrops

Init ==
    /\ test = [t \in Clients |-> [call |-> 0, kind |-> "ping", stage |-> "idle", n |-> 0,
                                  left |-> 0, due |-> 0, outcome |-> "none"]]
    /\ guard = [q \in Queues |-> NoOne]
    /\ outgoing = <<>>
    /\ incoming = [q \in Queues |-> <<>>]
    /\ linked = TRUE
    /\ foreign = FALSE /\ abandoned = FALSE
    /\ tests = 0 /\ drops = 0

-----------------------------------------------------------------------------
At(t, s) == test[t].stage = s

\* The call ends, and the mutex it may hold is free.
End(t, outcome) ==
    /\ test' = [test EXCEPT ![t].stage = "idle", ![t].outcome = outcome,
                            ![t].left = 0, ![t].due = 0]
    /\ guard' = [q \in Queues |-> IF guard[q] = t THEN NoOne ELSE guard[q]]

\* The answers to what it has sent and not received are left behind.
Abandons(t) == abandoned' = (abandoned \/ test[t].left # test[t].due)

\* send_async: an error once the uplink task is gone; until then a packet for
\* a connection that is lost is accepted and goes nowhere.
Accepted(p) ==
    /\ outgoing' = IF linked THEN Append(outgoing, p) ELSE outgoing
    /\ UNCHANGED <<incoming, linked, foreign, abandoned, tests, drops>>
SendFails(t) ==
    /\ ~linked
    /\ End(t, "disconnected")
    /\ Abandons(t)
    /\ UNCHANGED <<outgoing, incoming, linked, foreign, tests, drops>>

\* The uplink test floods the sink before it takes the mutex.
Start(t, k, n) ==
    /\ At(t, "idle")
    /\ tests < MaxTests
    /\ tests' = tests + 1
    /\ test' = [test EXCEPT ![t] =
          [call |-> tests + 1, kind |-> k,
           stage |-> IF k = "uplink" /\ n > 0 THEN "sink" ELSE "lock",
           n |-> n, left |-> 0, due |-> 0, outcome |-> "none"]]
    /\ UNCHANGED <<guard, outgoing, incoming, linked, foreign, abandoned, drops>>

Sink(t) ==
    /\ At(t, "sink")
    /\ \/ /\ test' = [test EXCEPT ![t].n = @ - 1,
                                  ![t].stage = IF test[t].n = 1 THEN "lock" ELSE "sink"]
          /\ UNCHANGED guard
          /\ Accepted(PacketOf(t, "sink"))
       \/ SendFails(t)

\* Mutant: the mutex is taken for the sending only.
FreeAlways(t, q) == TRUE
Free(t, q) == guard[q] = NoOne

\* The mutex is taken; a test of no packets is then over.
Lock(t) ==
    LET k == test[t].kind
        a == Asked(k, test[t].n)
    IN  /\ At(t, "lock")
        /\ Free(t, Queue(k))
        /\ \/ /\ a > 0
              /\ guard' = [guard EXCEPT ![Queue(k)] = t]
              /\ test' = [test EXCEPT ![t].stage = "send", ![t].left = a, ![t].due = a]
           \/ a = 0 /\ End(t, "ok")
        /\ UNCHANGED <<outgoing, incoming, linked, foreign, abandoned, tests, drops>>

Send(t) ==
    /\ At(t, "send")
    /\ \/ /\ test' = [test EXCEPT ![t].left = @ - 1,
                                  ![t].stage = IF test[t].left = 1 THEN "wait" ELSE "send"]
          /\ UNCHANGED guard
          /\ Accepted(PacketOf(t, Queue(test[t].kind)))
       \/ SendFails(t)

\* answer.get_data() is the payload; the downlink test only counts bytes.
Matches(k, p) == k = "downlink" \/ p.data = Payload(k)

\* recv_async().await gives the first packet of the queue, whosever it is.
Receive(t) ==
    LET k == test[t].kind
        q == Queue(k)
        p == Head(incoming[q])
    IN  /\ At(t, "wait")
        /\ incoming[q] # <<>>
        /\ incoming' = [incoming EXCEPT ![q] = Tail(@)]
        /\ foreign' = (foreign \/ p.call # test[t].call)
        /\ \/ /\ Matches(k, p) /\ test[t].due > 1
              /\ test' = [test EXCEPT ![t].due = @ - 1]
              /\ UNCHANGED <<guard, abandoned>>
           \/ /\ Matches(k, p) /\ test[t].due = 1
              /\ End(t, "ok")
              /\ UNCHANGED abandoned
           \/ /\ ~Matches(k, p)
              /\ End(t, "protocol")
              /\ Abandons(t)
        /\ UNCHANGED <<outgoing, linked, tests, drops>>

\* Nothing came for one second, or for ten; or the queue is closed.
GiveUp(t, outcome) ==
    /\ At(t, "wait")
    /\ incoming[Queue(test[t].kind)] = <<>>
    /\ End(t, outcome)
    /\ Abandons(t)
    /\ UNCHANGED <<outgoing, incoming, linked, foreign, tests, drops>>
\* Mutant: a receive without a timeout.
TimeoutNever(t) == FALSE /\ UNCHANGED vars
Timeout(t) == GiveUp(t, "timeout")
Closed(t) == ~linked /\ GiveUp(t, "disconnected")

\* The program drops the future of the call.
Drop(t) ==
    /\ ~At(t, "idle")
    /\ drops < MaxDrops
    /\ drops' = drops + 1
    /\ End(t, "dropped")
    /\ Abandons(t)
    /\ UNCHANGED <<outgoing, incoming, linked, foreign, tests>>

\* External: the Crazyflie echoes, identifies itself, or drops, in order.
Answer ==
    /\ outgoing # <<>>
    /\ outgoing' = Tail(outgoing)
    /\ LET p == Head(outgoing)
       IN  incoming' = IF p.queue = "sink" THEN incoming
                       ELSE [incoming EXCEPT ![p.queue] = Append(@, p)]
    /\ UNCHANGED <<test, guard, linked, foreign, abandoned, tests, drops>>

\* The link is lost with what was on its way.
Lose ==
    /\ linked
    /\ linked' = FALSE
    /\ outgoing' = <<>>
    /\ UNCHANGED <<test, guard, incoming, foreign, abandoned, tests, drops>>

Step(t) == Sink(t) \/ Lock(t) \/ Send(t) \/ Receive(t) \/ Timeout(t) \/ Closed(t)

Next ==
    \/ \E t \in Clients, k \in Kinds : \E n \in SizesOf(k) : Start(t, k, n)
    \/ \E t \in Clients : Step(t) \/ Drop(t)
    \/ Answer \/ Lose

Spec == Init /\ [][Next]_vars

\* Each call goes on when it can: at the latest its timeouts come.
Fairness == \A t \in Clients : WF_vars(Step(t))

-----------------------------------------------------------------------------
(* Properties *)

\* Two tasks may ping and test at the same time: until some call is given up
\* with an answer still to come, every call takes its own answers and none
\* fails with a protocol error (link_service.rs:95 is about other packets).
OwnEchoes ==
    ~abandoned => ~foreign /\ \A t \in Clients : test[t].outcome # "protocol"

\* "will only happen when all previous packets have been sent and ACKed": an
\* uplink test that succeeds has had all its sink packets taken, or its figure
\* would be too high (link_service.rs:142).
SinksDelivered ==
    ~abandoned => \A t \in Clients :
        test[t].kind = "uplink" /\ test[t].outcome = "ok" =>
            \A i \in DOMAIN outgoing : outgoing[i].call # test[t].call

\* Tests of several tasks at the same time do not spoil each other.
TestsApart == OwnEchoes /\ SinksDelivered
=============================================================================
