--------------------------------- MODULE Toc ---------------------------------
(***************************************************************************)
(* fetch_toc: the tables of contents of the log and the parameter port are *)
(* fetched side by side when the program connects, through a TocCache that *)
(* both ports share and that outlives the connection.                      *)
(*                                                                         *)
(* A table of the Crazyflie is the sequence of its items; what fetch_toc   *)
(* makes of it is a map from the name of an item to its identifier.  The   *)
(* checksum of a table stands for the table: two tables with the same CRC  *)
(* are the same, and the names of a table differ (see README).             *)
(***************************************************************************)
EXTENDS Naturals, Sequences

CONSTANTS
    Ports,          \* the ports with a table of contents
    Items,          \* names of items
    Firmwares,      \* what the Crazyflie may run: tables for the ports
    MaxItems,       \* length of the longest table
    MaxSessions     \* bound: connections made

ASSUME FirmwareAssumption ==
    /\ MaxItems \in Nat \ {0} /\ MaxSessions \in Nat
    /\ Items # {}
    /\ \A f \in Firmwares : \A p \in Ports :
           /\ f[p] \in Seq(Items) /\ Len(f[p]) <= MaxItems
           /\ \A i, j \in 1..Len(f[p]) : f[p][i] = f[p][j] => i = j

VARIABLES
    fw,             \* the tables of the Crazyflie
    connected,      \* the connection is up
    sessions,       \* number of connections made
    pc,             \* where fetch_toc is on each port
    crc,            \* toc_crc32, once known
    index,          \* i, the next item to ask for
    toc,            \* the map that is being built
    uplink,         \* requests on their way to the Crazyflie
    answers,        \* answers that have come in, for each port
    cache           \* the TocCache: a map for each key stored

linkVars == <<fw, connected, sessions>>
fetchVars == <<pc, crc, index, toc>>
vars == <<linkVars, fetchVars, uplink, answers, cache>>

Tables == UNION {[1..n -> Items] : n \in 0..MaxItems}
Requests == [port : Ports, cmd : {"info", "item"}, index : 0..(MaxItems - 1)]
Answers == [cmd : {"info", "item"}, index : 0..(MaxItems - 1), name : Items, crc : Tables]

TypeOK ==
    /\ fw \in Firmwares
    /\ connected \in BOOLEAN /\ sessions \in Nat
    /\ pc \in [Ports -> {"idle", "info", "infoWait", "item", "itemWait", "done", "failed"}]
    /\ crc \in [Ports -> Tables]
    /\ index \in [Ports -> Nat]
    /\ toc \in [Ports -> SUBSET (Items \X Nat)]
    /\ uplink \in Seq(Requests)
    /\ answers \in [Ports -> Seq(Answers)]
    /\ DOMAIN cache \subseteq Tables

Init ==
    /\ fw \in Firmwares
    /\ connected = FALSE /\ sessions = 0
    /\ pc = [p \in Ports |-> "idle"]
    /\ crc = [p \in Ports |-> <<>>]
    /\ index = [p \in Ports |-> 0]
    /\ toc = [p \in Ports |-> {}]
    /\ uplink = <<>>
    /\ answers = [p \in Ports |-> <<>>]
    /\ cache = <<>>

-----------------------------------------------------------------------------
(* Connections *)

Over(p) == pc[p] \in {"idle", "done", "failed"}

\* A new Crazyflie object: new channels, and perhaps another firmware.
Connect ==
    /\ ~connected /\ \A p \in Ports : Over(p)
    /\ sessions < MaxSessions
    /\ sessions' = sessions + 1
    /\ connected' = TRUE
    /\ fw' \in Firmwares
    /\ pc' = [p \in Ports |-> "info"]
    /\ crc' = [p \in Ports |-> <<>>]
    /\ index' = [p \in Ports |-> 0]
    /\ toc' = [p \in Ports |-> {}]
    /\ uplink' = <<>>
    /\ answers' = [p \in Ports |-> <<>>]
    /\ UNCHANGED cache

\* The link is lost, or the program is done: requests are lost, and so are the
\* answers that have not come in (a port has one request out at a time).
Lost ==
    /\ connected
    /\ connected' = FALSE
    /\ uplink' = <<>>
    /\ \E n \in [Ports -> 0..1] :
        /\ \A p \in Ports : n[p] <= Len(answers[p])
        /\ answers' = [p \in Ports |-> SubSeq(answers[p], 1, n[p])]
    /\ UNCHANGED <<fw, sessions, fetchVars, cache>>

-----------------------------------------------------------------------------
(* fetch_toc *)

Goto(p, l) == pc' = [pc EXCEPT ![p] = l]

\* uplink.send_async: the uplink task may still be there when contact is lost.
Send(p, c, i) ==
    uplink' = IF connected
              THEN Append(uplink, [port |-> p, cmd |-> c, index |-> i]) ELSE uplink

\* Receives the answer to c
Receive(p, c) ==
    /\ answers[p] # <<>>
    /\ Head(answers[p]).cmd = c
    /\ answers' = [answers EXCEPT ![p] = Tail(@)]

SendInfo(p) ==
    /\ pc[p] = "info"
    /\ Send(p, "info", 0)
    /\ Goto(p, "infoWait")
    /\ UNCHANGED <<linkVars, crc, index, toc, answers, cache>>

\* The checksum is looked up in the cache; a table that is found is taken.
InfoAnswered(p) ==
    /\ pc[p] = "infoWait"
    /\ Receive(p, "info")
    /\ LET key == Head(answers[p]).crc IN
        /\ crc' = [crc EXCEPT ![p] = key]
        /\ \/ /\ key \in DOMAIN cache
              /\ toc' = [toc EXCEPT ![p] = cache[key]]
              /\ Goto(p, "done")
           \/ key \notin DOMAIN cache /\ Goto(p, "item") /\ UNCHANGED toc
    /\ UNCHANGED <<linkVars, index, uplink, cache>>

\* for i in 0..toc_len
\* Mutant: one item too many.
MoreInclusive(p) == index[p] <= Len(crc[p])
More(p) == index[p] < Len(crc[p])

SendItem(p) ==
    /\ pc[p] = "item"
    /\ More(p)
    /\ Send(p, "item", index[p])
    /\ Goto(p, "itemWait")
    /\ UNCHANGED <<linkVars, crc, index, toc, answers, cache>>

\* Mutant: every item is stored as it comes in.
CacheItem(p, t) == cache' = [k \in DOMAIN cache \union {crc[p]} |->
                                IF k = crc[p] THEN t ELSE cache[k]]
CacheLater(p, t) == UNCHANGED cache

\* The name and the identifier are those of the answer.
ItemAnswered(p) ==
    /\ pc[p] = "itemWait"
    /\ Receive(p, "item")
    /\ LET item == Head(answers[p])
           t == {e \in toc[p] : e[1] # item.name} \union {<<item.name, item.index>>} IN
        /\ toc' = [toc EXCEPT ![p] = t]
        /\ CacheLater(p, t)
    /\ index' = [index EXCEPT ![p] = @ + 1]
    /\ Goto(p, "item")
    /\ UNCHANGED <<linkVars, crc, uplink>>

\* Mutant: the key is the version alone.
KeyConstant(p) == <<>>
Key(p) == crc[p]

Store(p) ==
    /\ pc[p] = "item"
    /\ ~More(p)
    /\ cache' = [k \in DOMAIN cache \union {Key(p)} |->
                    IF k = Key(p) THEN toc[p] ELSE cache[k]]
    /\ Goto(p, "done")
    /\ UNCHANGED <<linkVars, crc, index, toc, uplink, answers>>

\* Sending or waiting fails: Error::Disconnected, and the connect call fails.
\* Mutant: the wait does not end with the channel.
FailSending(p) == pc[p] \in {"info", "item"}
Failing(p) ==
    \/ pc[p] = "info"
    \/ pc[p] = "item" /\ More(p)
    \/ pc[p] \in {"infoWait", "itemWait"} /\ answers[p] = <<>>

Fail(p) ==
    /\ ~connected
    /\ Failing(p)
    /\ Goto(p, "failed")
    /\ UNCHANGED <<linkVars, crc, index, toc, uplink, answers, cache>>

-----------------------------------------------------------------------------
(* External: the Crazyflie. *)

FwAnswer ==
    /\ connected
    /\ uplink # <<>>
    /\ uplink' = Tail(uplink)
    /\ LET r == Head(uplink)
           table == fw[r.port] IN
        answers' = [answers EXCEPT ![r.port] = Append(@,
            [cmd |-> r.cmd, index |-> r.index, crc |-> table,
             name |-> IF r.index < Len(table) THEN table[r.index + 1]
                      ELSE CHOOSE n \in Items : TRUE])]
    /\ UNCHANGED <<linkVars, fetchVars, cache>>

-----------------------------------------------------------------------------
FetchStep(p) ==
    \/ SendInfo(p) \/ InfoAnswered(p) \/ SendItem(p) \/ ItemAnswered(p)
    \/ Store(p) \/ Fail(p)

Next == Connect \/ Lost \/ FwAnswer \/ \E p \in Ports : FetchStep(p)

Spec == Init /\ [][Next]_vars

\* Each fetch goes on when it can and the Crazyflie answers.
Fairness == (\A p \in Ports : WF_vars(FetchStep(p))) /\ WF_vars(FwAnswer)

FairSpec == Spec /\ Fairness

-----------------------------------------------------------------------------
(* Properties *)

\* What the table says: the name and the identifier of every item.
TableOf(t) == {<<t[k], k - 1>> : k \in 1..Len(t)}

\* A fetch that succeeds has the table of the firmware that runs now, whether it
\* comes from the Crazyflie or from the cache, and whatever was fetched, updated
\* or cut short in earlier connections (fetch_toc).
TocRight == \A p \in Ports : pc[p] = "done" => toc[p] = TableOf(fw[p])

\* The cache, which outlives connections and is shared by the ports, holds only
\* whole tables, each under the checksum of its own (fetch_toc, TocCache).
CacheSound == \A key \in DOMAIN cache : cache[key] = TableOf(key)

\* Tables and cache together: what a connection goes by, and what outlives it.
TablesRight == TocRight /\ CacheSound
=============================================================================
