--------------------------- MODULE SubsystemProofs ---------------------------
(***************************************************************************)
(* What three parts of the library guarantee for any value of their        *)
(* constants.                                                              *)
(*                                                                         *)
(* Toc: the types, that a fetch that succeeds has the table of the         *)
(* firmware that runs, and that the cache holds whole tables only.         *)
(*                                                                         *)
(* Console: that a stream has no gap between the history and what is       *)
(* broadcast, and that the buffer and the lines are the text.  A buffer is *)
(* the concatenation of all the packets of a connection, so that what is   *)
(* proved of it goes by induction: over sets of numbers (SetInduction),    *)
(* which the provers can instantiate.                                      *)
(*                                                                         *)
(* Commands: that what the Crazyflie makes of a packet is what was called. *)
(***************************************************************************)
EXTENDS Toc, Parts, Integers, Sequences, SequenceTheorems, WellFoundedInduction,
        QueueProofs, TLAPS

-----------------------------------------------------------------------------
(* Tables *)

\* The items of a table with an identifier below n.
Below(t, n) == {<<t[k], k - 1>> : k \in 1..n}

\* The names of a table differ.
Distinct(t) == \A i, j \in 1..Len(t) : t[i] = t[j] => i = j

\* A table of the Crazyflie is one, with names that differ.
LEMMA FirmwareTables ==
    ASSUME NEW f \in Firmwares, NEW p \in Ports
    PROVE  f[p] \in Tables /\ Distinct(f[p])
<1>1. f[p] \in Seq(Items) /\ Len(f[p]) <= MaxItems /\ Distinct(f[p])
  BY FirmwareAssumption DEF Distinct
<1>2. Len(f[p]) \in 0..MaxItems /\ f[p] \in [1..Len(f[p]) -> Items]
  BY <1>1, FirmwareAssumption
<1> QED BY <1>1, <1>2 DEF Tables

\* A table is a sequence of items, no longer than the longest.
LEMMA TableFacts ==
    ASSUME NEW t \in Tables
    PROVE  /\ t \in Seq(Items) /\ Len(t) \in 0..MaxItems
           /\ \A k \in 1..Len(t) : t[k] \in Items
  BY FirmwareAssumption DEF Tables

\* The map of a table, or of its first items, has the type of a map.
LEMMA BelowType ==
    ASSUME NEW t \in Tables, NEW n \in Nat, n <= Len(t)
    PROVE  Below(t, n) \in SUBSET (Items \X Nat)
<1> SUFFICES ASSUME NEW k \in 1..n PROVE <<t[k], k - 1>> \in Items \X Nat
  BY DEF Below
<1>1. k \in 1..Len(t) /\ k - 1 \in Nat
  BY TableFacts
<1> QED BY <1>1, TableFacts

LEMMA WholeTable == ASSUME NEW t PROVE TableOf(t) = Below(t, Len(t))
  BY DEF TableOf, Below

LEMMA BelowNone == ASSUME NEW t PROVE Below(t, 0) = {}
  BY DEF Below

\* An item whose name is new is added to the map, and replaces nothing.
LEMMA BelowNext ==
    ASSUME NEW t \in Tables, Distinct(t), NEW n \in Nat, n < Len(t)
    PROVE  {e \in Below(t, n) : e[1] # t[n + 1]} \union {<<t[n + 1], n>>} = Below(t, n + 1)
<1>1. \A k \in 1..n : t[k] # t[n + 1]
  BY TableFacts DEF Distinct
<1>2. {e \in Below(t, n) : e[1] # t[n + 1]} = Below(t, n)
  BY <1>1 DEF Below
<1>3. 1..(n + 1) = 1..n \union {n + 1} /\ (n + 1) - 1 = n
  OBVIOUS
<1>4. Below(t, n + 1) = Below(t, n) \union {<<t[n + 1], n>>}
  BY <1>3 DEF Below
<1> QED BY <1>2, <1>4

-----------------------------------------------------------------------------
(* The invariant *)

\* The map grows item by item, out of the table of the firmware that runs.
FetchInv ==
    \A p \in Ports :
        /\ pc[p] \in {"info", "infoWait"} => index[p] = 0 /\ toc[p] = {}
        /\ pc[p] \in {"item", "itemWait", "done"} => crc[p] = fw[p]
        /\ pc[p] \in {"item", "itemWait"} =>
              index[p] <= Len(fw[p]) /\ toc[p] = Below(fw[p], index[p])
        /\ pc[p] = "itemWait" => index[p] < Len(fw[p])
        /\ pc[p] = "done" => toc[p] = TableOf(fw[p])

\* A port has one request or answer under way, the one it waits for.
Expected(p, cmd, i) ==
    \/ pc[p] = "infoWait" /\ cmd = "info"
    \/ pc[p] = "itemWait" /\ cmd = "item" /\ i = index[p]

RequestInv ==
    /\ ~connected => uplink = <<>>
    /\ \A i \in 1..Len(uplink) :
          /\ Expected(uplink[i].port, uplink[i].cmd, uplink[i].index)
          /\ answers[uplink[i].port] = <<>>
    /\ \A i, j \in 1..Len(uplink) : uplink[i].port = uplink[j].port => i = j

AnswerInv ==
    \A p \in Ports :
        /\ Len(answers[p]) <= 1
        /\ answers[p] # <<>> =>
              /\ Expected(p, answers[p][1].cmd, answers[p][1].index)
              /\ answers[p][1].crc = fw[p]
              /\ answers[p][1].cmd = "item" => answers[p][1].name = fw[p][index[p] + 1]

TocInv == TypeOK /\ FetchInv /\ RequestInv /\ AnswerInv /\ CacheSound

LEMMA EmptyTable == <<>> \in Tables
<1>1. <<>> \in [1..0 -> Items] /\ 0 \in 0..MaxItems
  BY FirmwareAssumption
<1> QED BY <1>1 DEF Tables

LEMMA InitInv == Init => TocInv
<1> SUFFICES ASSUME Init PROVE TocInv
  OBVIOUS
<1>1. <<>> \in Tables
  BY EmptyTable
<1>2. TypeOK
  <2>1. DOMAIN cache = {} /\ uplink \in Seq(Requests) /\ answers \in [Ports -> Seq(Answers)]
    BY DEF Init
  <2> QED BY <1>1, <2>1 DEF Init, TypeOK
<1>3. FetchInv /\ CacheSound
  BY DEF Init, FetchInv, CacheSound
<1>4. RequestInv /\ AnswerInv
  BY DEF Init, RequestInv, AnswerInv
<1> QED BY <1>2, <1>3, <1>4 DEF TocInv

-----------------------------------------------------------------------------
(* The steps *)

\* What one waits for on a port: nothing is under way, or just that.
LEMMA Waits ==
    ASSUME TocInv, NEW p \in Ports, pc[p] \notin {"infoWait", "itemWait"}
    PROVE  answers[p] = <<>> /\ \A i \in 1..Len(uplink) : uplink[i].port # p
<1>1. answers[p] = <<>>
  BY DEF TocInv, AnswerInv, Expected
<1>2. \A i \in 1..Len(uplink) : uplink[i].port # p
  BY DEF TocInv, RequestInv, Expected
<1> QED BY <1>1, <1>2

\* The answer that a fetch takes is the only one, and the last thing under way.
LEMMA Received ==
    ASSUME TocInv, NEW p \in Ports, NEW c, Receive(p, c)
    PROVE  /\ Head(answers[p]) = answers[p][1] /\ answers[p][1] \in Answers
           /\ answers' = [answers EXCEPT ![p] = <<>>]
           /\ \A i \in 1..Len(uplink) : uplink[i].port # p
<1>1. answers[p] \in Seq(Answers) /\ answers[p] # <<>> /\ Len(answers[p]) <= 1
  BY DEF TocInv, TypeOK, AnswerInv, Receive
<1> DEFINE q == answers[p]
<1> HIDE DEF q
<1>2. q \in Seq(Answers) /\ q # <<>> /\ Len(q) <= 1
  BY <1>1 DEF q
<1>3. Len(q) = 1 /\ Head(q) = q[1] /\ q[1] \in Answers
  <2>1. Len(q) \in Nat \ {0}
    BY <1>2, EmptySeq
  <2>2. Len(q) = 1
    <3>1. \A n \in Nat \ {0} : n <= 1 => n = 1
      OBVIOUS
    <3> QED BY <1>2, <2>1, <3>1
  <2>3. q[1] \in Answers
    BY <1>2, <2>2, ElementOfSeq
  <2> QED BY <1>2, <2>2, <2>3
<1>5. Tail(q) = <<>>
  <2>1. Tail(q) \in Seq(Answers) /\ Len(Tail(q)) = 0
    BY <1>2, <1>3, HeadTailProperties
  <2> QED BY <2>1, EmptySeq
<1>4. \A i \in 1..Len(uplink) : uplink[i].port # p
  BY <1>1 DEF TocInv, RequestInv
<1> QED BY <1>3, <1>4, <1>5 DEF Receive, q

\* A request put in an uplink where the port has none, before the wait for it.
LEMMA Sent ==
    ASSUME TocInv, NEW p \in Ports, pc[p] \notin {"infoWait", "itemWait"},
           NEW c \in {"info", "item"}, NEW i \in 0..(MaxItems - 1), Send(p, c, i),
           c = "item" => i = index[p],
           pc' = [pc EXCEPT ![p] = IF c = "info" THEN "infoWait" ELSE "itemWait"],
           UNCHANGED <<connected, index, answers>>
    PROVE  RequestInv' /\ uplink' \in Seq(Requests)
<1> DEFINE r == [port |-> p, cmd |-> c, index |-> i]
<1>1. /\ uplink \in Seq(Requests) /\ r \in Requests /\ answers[p] = <<>>
      /\ \A k \in 1..Len(uplink) : uplink[k].port # p
  BY Waits DEF TocInv, TypeOK, Requests
<1>2. pc'[p] = (IF c = "info" THEN "infoWait" ELSE "itemWait")
      /\ \A q \in Ports \ {p} : pc'[q] = pc[q]
  BY DEF TocInv, TypeOK
<1>3. CASE ~connected
  <2>1. uplink' = <<>>
    BY <1>3 DEF Send, TocInv, RequestInv
  <2> QED BY <2>1 DEF RequestInv
<1>4. CASE connected
  <2>1. uplink' = Append(uplink, r)
    BY <1>4 DEF Send
  <2> HIDE DEF r
  <2>2. /\ uplink' \in Seq(Requests) /\ Len(uplink') = Len(uplink) + 1 /\ Len(uplink) \in Nat
        /\ uplink'[Len(uplink) + 1] = r
        /\ \A k \in 1..Len(uplink) : uplink'[k] = uplink[k] /\ uplink[k] \in Requests
    BY <1>1, <2>1
  <2> USE DEF r
  <2>3. \A k \in 1..Len(uplink') : k \in 1..Len(uplink) \/ k = Len(uplink) + 1
    BY <2>2
  <2>4. ASSUME NEW k \in 1..Len(uplink')
        PROVE  /\ Expected(uplink[k].port, uplink[k].cmd, uplink[k].index)'
               /\ answers'[uplink'[k].port] = <<>>
    <3>1. CASE k = Len(uplink) + 1
      BY <1>1, <1>2, <2>2, <3>1 DEF Expected
    <3>2. CASE k \in 1..Len(uplink)
      <4>1. uplink[k].port \in Ports \ {p}
        BY <1>1, <2>2, <3>2 DEF Requests
      <4> QED BY <1>2, <2>2, <3>2, <4>1 DEF Expected, TocInv, RequestInv
    <3> QED BY <2>3, <3>1, <3>2
  <2>5. ASSUME NEW k \in 1..Len(uplink'), NEW l \in 1..Len(uplink'),
               uplink'[k].port = uplink'[l].port
        PROVE  k = l
    BY <1>1, <2>2, <2>3, <2>5 DEF TocInv, RequestInv
  <2> QED BY <1>4, <2>2, <2>4, <2>5 DEF RequestInv
<1> QED BY <1>3, <1>4, <1>1

\* A port that is left with nothing under way does not disturb the others.
LEMMA Quiet ==
    ASSUME TocInv, NEW p \in Ports, NEW l,
           \A i \in 1..Len(uplink) : uplink[i].port # p,
           answers' = [answers EXCEPT ![p] = <<>>],
           pc' = [pc EXCEPT ![p] = l],
           \A q \in Ports \ {p} : index'[q] = index[q],
           UNCHANGED <<fw, connected, uplink>>
    PROVE  RequestInv' /\ AnswerInv' /\ answers' \in [Ports -> Seq(Answers)]
<1>1. /\ pc \in [Ports -> {"idle", "info", "infoWait", "item", "itemWait", "done", "failed"}]
      /\ answers \in [Ports -> Seq(Answers)] /\ uplink \in Seq(Requests)
  BY DEF TocInv, TypeOK
<1>2. \A q \in Ports \ {p} : pc'[q] = pc[q] /\ answers'[q] = answers[q]
  BY <1>1
<1>3. answers'[p] = <<>> /\ answers' \in [Ports -> Seq(Answers)]
  BY <1>1
<1>4. \A i \in 1..Len(uplink) : uplink[i].port \in Ports \ {p}
  <2> SUFFICES ASSUME NEW i \in 1..Len(uplink) PROVE uplink[i] \in Requests
    BY DEF Requests
  <2> QED BY <1>1, ElementOfSeq
<1>5. RequestInv'
  <2>1. ASSUME NEW i \in 1..Len(uplink)
        PROVE  /\ Expected(uplink[i].port, uplink[i].cmd, uplink[i].index)'
               /\ answers'[uplink[i].port] = <<>>
    BY <1>2, <1>4 DEF TocInv, RequestInv, Expected
  <2> QED BY <2>1 DEF TocInv, RequestInv
<1>6. AnswerInv'
  <2> SUFFICES ASSUME NEW q \in Ports
               PROVE  /\ Len(answers'[q]) <= 1
                      /\ answers'[q] # <<>> =>
                            /\ Expected(q, answers[q][1].cmd, answers[q][1].index)'
                            /\ answers'[q][1].crc = fw'[q]
                            /\ answers'[q][1].cmd = "item" =>
                                  answers'[q][1].name = fw'[q][index'[q] + 1]
    BY DEF AnswerInv
  <2>1. CASE q = p
    BY <1>3, <2>1
  <2>2. CASE q # p
    BY <1>2, <2>2 DEF TocInv, AnswerInv, Expected
  <2> QED BY <2>1, <2>2
<1> QED BY <1>3, <1>5, <1>6

LEMMA ConnectInv == ASSUME TocInv, Connect PROVE TocInv'
<1>1. TypeOK'
  <2>1. <<>> \in Tables
    BY EmptyTable
  <2> QED BY <2>1 DEF TocInv, TypeOK, Connect
<1>2. FetchInv'
  BY DEF Connect, FetchInv
<1>3. RequestInv' /\ AnswerInv'
  BY DEF Connect, RequestInv, AnswerInv
<1>4. CacheSound'
  BY DEF TocInv, CacheSound, Connect
<1> QED BY <1>1, <1>2, <1>3, <1>4 DEF TocInv

LEMMA LostInv == ASSUME TocInv, Lost PROVE TocInv'
<1>1. PICK n \in [Ports -> 0..1] :
          /\ \A p \in Ports : n[p] <= Len(answers[p])
          /\ answers' = [p \in Ports |-> SubSeq(answers[p], 1, n[p])]
  BY DEF Lost
<1>2. \A p \in Ports : answers'[p] = <<>> \/ answers'[p] = answers[p]
  <2> TAKE p \in Ports
  <2> DEFINE q == answers[p]
  <2>1. q \in Seq(Answers) /\ Len(q) <= 1 /\ n[p] \in 0..1 /\ n[p] <= Len(q)
    BY <1>1 DEF TocInv, TypeOK, AnswerInv
  <2>2. answers'[p] = SubSeq(q, 1, n[p])
    BY <1>1
  <2> HIDE DEF q
  <2>3. Len(q) \in Nat
    BY <2>1, LenProperties
  <2>4. n[p] = 0 \/ (n[p] = 1 /\ Len(q) = 1)
    <3>1. \A i \in 0..1, k \in Nat : i <= k /\ k <= 1 => i = 0 \/ (i = 1 /\ k = 1)
      OBVIOUS
    <3> QED BY <2>1, <2>3, <3>1
  <2>5. n[p] = 0 => SubSeq(q, 1, n[p]) = <<>>
    BY <2>1
  <2>6. n[p] = 1 /\ Len(q) = 1 => SubSeq(q, 1, n[p]) = q
    BY <2>1, LenProperties
  <2> QED BY <2>2, <2>4, <2>5, <2>6 DEF q
<1>3. answers' \in [Ports -> Seq(Answers)]
  <2>1. \A p \in Ports : answers[p] \in Seq(Answers)
    BY DEF TocInv, TypeOK
  <2>2. \A p \in Ports : answers'[p] \in Seq(Answers)
    BY <1>2, <2>1, EmptySeq
  <2> QED BY <1>1, <2>2
<1>4. TypeOK'
  <2>1. uplink' \in Seq(Requests)
    BY EmptySeq DEF Lost
  <2> QED BY <1>3, <2>1 DEF TocInv, TypeOK, Lost, fetchVars
<1>5. FetchInv' /\ CacheSound' /\ RequestInv'
  BY DEF TocInv, FetchInv, CacheSound, RequestInv, Lost, linkVars, fetchVars
<1>6. AnswerInv'
  <2>1. UNCHANGED <<fw, pc, index>>
    BY DEF Lost, fetchVars
  <2> SUFFICES ASSUME NEW p \in Ports, answers'[p] # <<>>
               PROVE  /\ Len(answers'[p]) <= 1
                      /\ Expected(p, answers[p][1].cmd, answers[p][1].index)'
                      /\ answers'[p][1].crc = fw[p]
                      /\ answers'[p][1].cmd = "item" =>
                            answers'[p][1].name = fw[p][index[p] + 1]
    BY <2>1, EmptySeq DEF AnswerInv
  <2>2. answers'[p] = answers[p]
    BY <1>2
  <2> QED BY <2>1, <2>2 DEF TocInv, AnswerInv, Expected
<1> QED BY <1>4, <1>5, <1>6 DEF TocInv

LEMMA SendInfoInv == ASSUME TocInv, NEW p \in Ports, SendInfo(p) PROVE TocInv'
<1>1. pc[p] = "info" /\ Send(p, "info", 0) /\ pc' = [pc EXCEPT ![p] = "infoWait"]
      /\ UNCHANGED <<linkVars, crc, index, toc, answers, cache>>
  BY DEF SendInfo, Goto
<1>2. RequestInv' /\ uplink' \in Seq(Requests)
  <2>1. 0 \in 0..(MaxItems - 1)
    BY FirmwareAssumption
  <2>2. UNCHANGED <<connected, index, answers>>
    BY <1>1 DEF linkVars
  <2>3. pc' = [pc EXCEPT ![p] = IF "info" = "info" THEN "infoWait" ELSE "itemWait"]
    BY <1>1
  <2> QED BY <1>1, <2>1, <2>2, <2>3, Sent
<1>3. TypeOK'
  BY <1>1, <1>2 DEF TocInv, TypeOK, linkVars
<1>4. FetchInv' /\ CacheSound'
  BY <1>1 DEF TocInv, TypeOK, FetchInv, CacheSound, linkVars
<1>5. AnswerInv'
  BY <1>1, Waits DEF TocInv, TypeOK, AnswerInv, Expected, linkVars
<1> QED BY <1>2, <1>3, <1>4, <1>5 DEF TocInv

LEMMA SendItemInv == ASSUME TocInv, NEW p \in Ports, SendItem(p) PROVE TocInv'
<1>1. pc[p] = "item" /\ Send(p, "item", index[p]) /\ pc' = [pc EXCEPT ![p] = "itemWait"]
      /\ UNCHANGED <<linkVars, crc, index, toc, answers, cache>>
  BY DEF SendItem, Goto
<1>2. index[p] < Len(fw[p]) /\ index[p] \in 0..(MaxItems - 1)
  <2>1. index[p] < Len(crc[p]) /\ crc[p] = fw[p] /\ crc[p] \in Tables /\ index[p] \in Nat
    BY <1>1 DEF TocInv, TypeOK, FetchInv, SendItem, More
  <2>2. Len(crc[p]) \in 0..MaxItems
    BY <2>1, TableFacts
  <2> QED BY <2>1, <2>2, FirmwareAssumption
<1>3. RequestInv' /\ uplink' \in Seq(Requests)
  <2>1. UNCHANGED <<connected, index, answers>>
    BY <1>1 DEF linkVars
  <2>2. pc' = [pc EXCEPT ![p] = IF "item" = "info" THEN "infoWait" ELSE "itemWait"]
    BY <1>1
  <2> QED BY <1>1, <1>2, <2>1, <2>2, Sent
<1>4. TypeOK'
  BY <1>1, <1>3 DEF TocInv, TypeOK, linkVars
<1>5. FetchInv' /\ CacheSound'
  BY <1>1, <1>2 DEF TocInv, TypeOK, FetchInv, CacheSound, linkVars
<1>6. AnswerInv'
  BY <1>1, Waits DEF TocInv, TypeOK, AnswerInv, Expected, linkVars
<1> QED BY <1>3, <1>4, <1>5, <1>6 DEF TocInv

\* The table is that of the firmware, and so is what the cache has for it.
LEMMA InfoAnsweredInv == ASSUME TocInv, NEW p \in Ports, InfoAnswered(p) PROVE TocInv'
<1> DEFINE key == fw[p]
<1>1. /\ pc[p] = "infoWait" /\ Receive(p, "info")
      /\ UNCHANGED <<linkVars, index, uplink, cache>>
  BY DEF InfoAnswered
<1>2. /\ answers' = [answers EXCEPT ![p] = <<>>] /\ Head(answers[p]) = answers[p][1]
      /\ \A i \in 1..Len(uplink) : uplink[i].port # p
  BY <1>1, Received
<1>3. Head(answers[p]).crc = key /\ key \in Tables
  <2>1. answers[p] # <<>> /\ fw \in Firmwares
    BY <1>1 DEF Receive, TocInv, TypeOK
  <2> QED BY <1>2, <2>1, FirmwareTables DEF TocInv, AnswerInv
<1>4. /\ crc' = [crc EXCEPT ![p] = key]
      /\ \/ /\ key \in DOMAIN cache
            /\ toc' = [toc EXCEPT ![p] = TableOf(key)]
            /\ pc' = [pc EXCEPT ![p] = "done"]
         \/ pc' = [pc EXCEPT ![p] = "item"] /\ UNCHANGED toc
  BY <1>3 DEF InfoAnswered, Goto, TocInv, CacheSound
<1>5. TableOf(key) \in SUBSET (Items \X Nat)
  <2>1. Len(key) \in Nat
    BY <1>3, TableFacts
  <2> QED BY <1>3, <2>1, BelowType, WholeTable
<1>6. RequestInv' /\ AnswerInv' /\ answers' \in [Ports -> Seq(Answers)]
  <2>1. UNCHANGED <<fw, connected, uplink, index>>
    BY <1>1 DEF linkVars
  <2> QED BY <1>2, <1>4, <2>1, Quiet
<1> HIDE DEF key
<1>7. TypeOK'
  BY <1>1, <1>3, <1>4, <1>5, <1>6 DEF TocInv, TypeOK, linkVars
<1>8. CacheSound'
  BY <1>1 DEF TocInv, CacheSound
<1>9. FetchInv'
  <2>1. /\ toc \in [Ports -> SUBSET (Items \X Nat)] /\ crc \in [Ports -> Tables]
        /\ pc \in [Ports -> {"idle", "info", "infoWait", "item", "itemWait", "done", "failed"}]
        /\ index' = index /\ fw' = fw
    BY <1>1 DEF TocInv, TypeOK, linkVars
  <2>2. ASSUME NEW q \in Ports, q # p
        PROVE  pc'[q] = pc[q] /\ crc'[q] = crc[q] /\ toc'[q] = toc[q]
    BY <1>4, <2>1, <2>2
  <2>3. index[p] = 0 /\ toc[p] = {} /\ 0 <= Len(key) /\ Below(key, 0) = {}
    BY <1>1, <1>3, TableFacts, BelowNone DEF TocInv, FetchInv
  <2>4. /\ crc'[p] = key
        /\ \/ pc'[p] = "done" /\ toc'[p] = TableOf(key)
           \/ pc'[p] = "item" /\ toc'[p] = Below(key, 0)
    BY <1>4, <2>1, <2>3
  <2> QED BY <2>1, <2>2, <2>3, <2>4 DEF TocInv, FetchInv, key
<1> QED BY <1>6, <1>7, <1>8, <1>9 DEF TocInv

\* The item is the next one, and its name a new one.
LEMMA ItemAnsweredInv == ASSUME TocInv, NEW p \in Ports, ItemAnswered(p) PROVE TocInv'
<1> DEFINE t == fw[p]
           n == index[p]
<1>1. /\ pc[p] = "itemWait" /\ Receive(p, "item")
      /\ index' = [index EXCEPT ![p] = n + 1] /\ pc' = [pc EXCEPT ![p] = "item"]
      /\ UNCHANGED <<linkVars, crc, uplink, cache>>
  BY DEF ItemAnswered, Goto, CacheLater
<1>2. /\ answers' = [answers EXCEPT ![p] = <<>>] /\ Head(answers[p]) = answers[p][1]
      /\ \A i \in 1..Len(uplink) : uplink[i].port # p
  BY <1>1, Received
<1>3. /\ t \in Tables /\ Distinct(t) /\ Len(t) \in Nat
      /\ n \in Nat /\ n < Len(t) /\ toc[p] = Below(t, n)
  <2>1. fw \in Firmwares /\ n \in Nat
    BY DEF TocInv, TypeOK
  <2> QED BY <1>1, <2>1, FirmwareTables, TableFacts DEF TocInv, FetchInv
<1>4. Head(answers[p]).name = t[n + 1] /\ Head(answers[p]).index = n
  <2>1. answers[p] # <<>> /\ answers[p][1].cmd = "item"
    BY <1>1, <1>2 DEF Receive
  <2> QED BY <1>1, <1>2, <2>1 DEF TocInv, AnswerInv, Expected
<1>5. toc' = [toc EXCEPT ![p] = Below(t, n + 1)]
  <2>1. {e \in toc[p] : e[1] # t[n + 1]} \union {<<t[n + 1], n>>} = Below(t, n + 1)
    BY <1>3, BelowNext
  <2> QED BY <1>4, <2>1 DEF ItemAnswered
<1>6. RequestInv' /\ AnswerInv' /\ answers' \in [Ports -> Seq(Answers)]
  <2>1. UNCHANGED <<fw, connected, uplink>> /\ \A q \in Ports \ {p} : index'[q] = index[q]
    BY <1>1 DEF linkVars, TocInv, TypeOK
  <2> QED BY <1>1, <1>2, <2>1, Quiet
<1>7. Below(t, n + 1) \in SUBSET (Items \X Nat)
  BY <1>3, BelowType
<1>8. TypeOK'
  <2>1. index' \in [Ports -> Nat] /\ toc' \in [Ports -> SUBSET (Items \X Nat)]
    BY <1>1, <1>3, <1>5, <1>7 DEF TocInv, TypeOK
  <2> QED BY <1>1, <1>6, <2>1 DEF TocInv, TypeOK, linkVars
<1>9. CacheSound'
  BY <1>1 DEF TocInv, CacheSound
<1>10. FetchInv'
  <2>1. /\ toc \in [Ports -> SUBSET (Items \X Nat)] /\ index \in [Ports -> Nat]
        /\ pc \in [Ports -> {"idle", "info", "infoWait", "item", "itemWait", "done", "failed"}]
        /\ crc' = crc /\ fw' = fw
    BY <1>1 DEF TocInv, TypeOK, linkVars
  <2>2. ASSUME NEW q \in Ports, q # p
        PROVE  pc'[q] = pc[q] /\ index'[q] = index[q] /\ toc'[q] = toc[q]
    BY <1>1, <1>5, <2>1, <2>2
  <2>3. /\ pc'[p] = "item" /\ index'[p] = n + 1 /\ toc'[p] = Below(t, n + 1)
        /\ crc[p] = t /\ n + 1 <= Len(t)
    BY <1>1, <1>3, <1>5, <2>1 DEF TocInv, FetchInv
  <2> QED BY <2>1, <2>2, <2>3 DEF TocInv, FetchInv
<1> QED BY <1>6, <1>8, <1>9, <1>10 DEF TocInv

\* Nothing is asked for any more: the map is the whole table, under its key.
LEMMA StoreInv == ASSUME TocInv, NEW p \in Ports, Store(p) PROVE TocInv'
<1>1. /\ pc[p] = "item" /\ pc' = [pc EXCEPT ![p] = "done"]
      /\ cache' = [k \in DOMAIN cache \union {crc[p]} |-> IF k = crc[p] THEN toc[p] ELSE cache[k]]
      /\ UNCHANGED <<linkVars, crc, index, toc, uplink, answers>>
  BY DEF Store, Goto, Key
<1>2. crc[p] = fw[p] /\ toc[p] = TableOf(fw[p]) /\ crc[p] \in Tables
  <2>1. /\ crc[p] \in Tables /\ crc[p] = fw[p] /\ index[p] \in Nat /\ index[p] <= Len(fw[p])
        /\ toc[p] = Below(fw[p], index[p]) /\ ~(index[p] < Len(crc[p]))
    BY <1>1 DEF Store, More, TocInv, TypeOK, FetchInv
  <2>2. index[p] = Len(fw[p])
    <3>1. \A i, k \in Nat : i <= k /\ ~(i < k) => i = k
      OBVIOUS
    <3> QED BY <2>1, <3>1, TableFacts
  <2> QED BY <2>1, <2>2, WholeTable
<1>3. RequestInv' /\ AnswerInv'
  <2>1. UNCHANGED <<fw, connected, uplink, index>>
    BY <1>1 DEF linkVars
  <2>2. /\ \A i \in 1..Len(uplink) : uplink[i].port # p
        /\ answers' = [answers EXCEPT ![p] = <<>>]
    BY <1>1, Waits DEF TocInv, TypeOK
  <2> QED BY <1>1, <2>1, <2>2, Quiet
<1>4. TypeOK'
  BY <1>1, <1>2 DEF TocInv, TypeOK, linkVars
<1>5. CacheSound'
  BY <1>1, <1>2 DEF TocInv, CacheSound
<1>6. FetchInv'
  BY <1>1, <1>2 DEF TocInv, TypeOK, FetchInv, linkVars
<1> QED BY <1>3, <1>4, <1>5, <1>6 DEF TocInv

LEMMA FailInv == ASSUME TocInv, NEW p \in Ports, Fail(p) PROVE TocInv'
<1>1. /\ ~connected /\ Failing(p) /\ pc' = [pc EXCEPT ![p] = "failed"]
      /\ UNCHANGED <<linkVars, crc, index, toc, uplink, answers, cache>>
  BY DEF Fail, Goto
<1>2. answers[p] = <<>>
  BY <1>1, Waits DEF Failing
<1>3. RequestInv' /\ AnswerInv'
  <2>1. UNCHANGED <<fw, connected, uplink, index>>
    BY <1>1 DEF linkVars
  <2>2. uplink = <<>> /\ answers' = [answers EXCEPT ![p] = <<>>]
    BY <1>1, <1>2 DEF TocInv, TypeOK, RequestInv
  <2>3. \A i \in 1..Len(uplink) : uplink[i].port # p
    BY <2>2
  <2> QED BY <1>1, <2>1, <2>2, <2>3, Quiet
<1>4. TypeOK'
  BY <1>1 DEF TocInv, TypeOK, linkVars
<1>5. FetchInv' /\ CacheSound'
  BY <1>1 DEF TocInv, TypeOK, FetchInv, CacheSound, linkVars
<1> QED BY <1>3, <1>4, <1>5 DEF TocInv

\* The request at the head is what its port waits for, and so is its answer.
LEMMA FwAnswerInv == ASSUME TocInv, FwAnswer PROVE TocInv'
<1> DEFINE r == Head(uplink)
           p == r.port
           table == fw[p]
           a == [cmd |-> r.cmd, index |-> r.index, crc |-> table,
                 name |-> IF r.index < Len(table) THEN table[r.index + 1]
                          ELSE CHOOSE n \in Items : TRUE]
<1>1. /\ connected /\ uplink # <<>> /\ uplink' = Tail(uplink)
      /\ answers' = [answers EXCEPT ![p] = Append(@, a)]
      /\ UNCHANGED <<fw, connected, sessions, pc, crc, index, toc, cache>>
  BY DEF FwAnswer, linkVars, fetchVars
<1>2. uplink \in Seq(Requests) /\ answers \in [Ports -> Seq(Answers)] /\ fw \in Firmwares
  BY DEF TocInv, TypeOK
<1>3. /\ r = uplink[1] /\ Len(uplink) \in Nat \ {0} /\ r \in Requests
      /\ Tail(uplink) \in Seq(Requests) /\ Len(Tail(uplink)) = Len(uplink) - 1
      /\ \A i \in 1..Len(Tail(uplink)) : Tail(uplink)[i] = uplink[i + 1]
  <2>1. Len(uplink) \in Nat \ {0}
    BY <1>1, <1>2, EmptySeq
  <2> QED BY <1>1, <1>2, <2>1, HeadTailProperties
<1>4. /\ p \in Ports /\ r.cmd \in {"info", "item"} /\ r.index \in 0..(MaxItems - 1)
  BY <1>3 DEF Requests
<1>5. Expected(p, r.cmd, r.index) /\ answers[p] = <<>>
  BY <1>3 DEF TocInv, RequestInv
<1>6. table \in Tables /\ Len(table) \in Nat /\ \A k \in 1..Len(table) : table[k] \in Items
  BY <1>2, <1>4, FirmwareTables, TableFacts
<1>7. a \in Answers
  <2>1. CASE r.index < Len(table)
    <3>1. r.index + 1 \in 1..Len(table)
      BY <1>4, <1>6, <2>1
    <3> QED BY <1>4, <1>6, <2>1, <3>1 DEF Answers
  <2>2. CASE ~(r.index < Len(table))
    <3>1. (CHOOSE n \in Items : TRUE) \in Items
      BY FirmwareAssumption
    <3> QED BY <1>4, <1>6, <2>2, <3>1 DEF Answers
  <2> QED BY <2>1, <2>2
<1>8. r.cmd = "item" => a.name = fw[p][index[p] + 1]
  <2>1. r.cmd = "item" => r.index = index[p] /\ index[p] < Len(table)
    BY <1>4, <1>5 DEF Expected, TocInv, FetchInv
  <2> QED BY <2>1
<1>9. a.cmd = r.cmd /\ a.index = r.index /\ a.crc = fw[p]
  OBVIOUS
<1> HIDE DEF a, table
<1>10. /\ answers' = [answers EXCEPT ![p] = <<a>>]
       /\ answers' \in [Ports -> Seq(Answers)]
  <2>1. Append(<<>>, a) = <<a>> /\ <<a>> \in Seq(Answers)
    BY <1>7
  <2> QED BY <1>1, <1>2, <1>5, <2>1
<1>11. TypeOK'
  BY <1>1, <1>3, <1>10 DEF TocInv, TypeOK
<1>12. FetchInv' /\ CacheSound'
  BY <1>1 DEF TocInv, FetchInv, CacheSound
<1>13. RequestInv'
  <2>1. ASSUME NEW i \in 1..Len(Tail(uplink))
        PROVE  /\ i + 1 \in 1..Len(uplink) /\ Tail(uplink)[i] = uplink[i + 1]
               /\ uplink[i + 1].port \in Ports \ {p}
    <3>1. i + 1 \in 1..Len(uplink) /\ 1 \in 1..Len(uplink) /\ i + 1 # 1
      BY <1>3
    <3>2. uplink[i + 1] \in Requests
      BY <1>2, <3>1, ElementOfSeq
    <3>3. uplink[i + 1].port # p
      BY <1>3, <3>1 DEF TocInv, RequestInv
    <3> QED BY <1>3, <3>1, <3>2, <3>3 DEF Requests
  <2>2. ASSUME NEW i \in 1..Len(uplink')
        PROVE  /\ Expected(uplink[i].port, uplink[i].cmd, uplink[i].index)'
               /\ answers'[uplink'[i].port] = <<>>
    <3>1. /\ uplink'[i] = uplink[i + 1] /\ i + 1 \in 1..Len(uplink)
          /\ uplink'[i].port \in Ports \ {p}
      BY <1>1, <2>1
    <3>2. answers'[uplink'[i].port] = answers[uplink'[i].port]
      BY <1>2, <1>10, <3>1
    <3> QED BY <1>1, <3>1, <3>2 DEF TocInv, RequestInv, Expected
  <2>3. ASSUME NEW i \in 1..Len(uplink'), NEW j \in 1..Len(uplink'),
               uplink'[i].port = uplink'[j].port
        PROVE  i = j
    <3>1. /\ uplink'[i] = uplink[i + 1] /\ uplink'[j] = uplink[j + 1]
          /\ i + 1 \in 1..Len(uplink) /\ j + 1 \in 1..Len(uplink)
      BY <1>1, <2>1
    <3>2. i + 1 = j + 1
      BY <2>3, <3>1 DEF TocInv, RequestInv
    <3> QED BY <3>2
  <2> QED BY <1>1, <2>2, <2>3 DEF RequestInv
<1>14. AnswerInv'
  <2> SUFFICES ASSUME NEW q \in Ports
               PROVE  /\ Len(answers'[q]) <= 1
                      /\ answers'[q] # <<>> =>
                            /\ Expected(q, answers[q][1].cmd, answers[q][1].index)'
                            /\ answers'[q][1].crc = fw[q]
                            /\ answers'[q][1].cmd = "item" =>
                                  answers'[q][1].name = fw[q][index[q] + 1]
    BY <1>1 DEF AnswerInv
  <2>1. CASE q = p
    <3>1. answers'[q] = <<a>> /\ <<a>>[1] = a /\ Len(<<a>>) = 1
      BY <1>2, <1>4, <1>10, <2>1
    <3> QED BY <1>1, <1>5, <1>8, <1>9, <2>1, <3>1 DEF Expected
  <2>2. CASE q # p
    <3>1. answers'[q] = answers[q]
      BY <1>2, <1>10, <2>2
    <3> QED BY <1>1, <3>1 DEF TocInv, AnswerInv, Expected
  <2> QED BY <2>1, <2>2
<1> QED BY <1>11, <1>12, <1>13, <1>14 DEF TocInv

LEMMA StepInv == TocInv /\ [Next]_vars => TocInv'
<1> SUFFICES ASSUME TocInv, [Next]_vars PROVE TocInv'
  OBVIOUS
<1>1. CASE Connect
  BY <1>1, ConnectInv
<1>2. CASE Lost
  BY <1>2, LostInv
<1>3. CASE FwAnswer
  BY <1>3, FwAnswerInv
<1>4. ASSUME NEW p \in Ports, FetchStep(p) PROVE TocInv'
  BY <1>4, SendInfoInv, InfoAnsweredInv, SendItemInv, ItemAnsweredInv, StoreInv, FailInv
     DEF FetchStep
<1>5. CASE UNCHANGED vars
  BY <1>5 DEF vars, linkVars, fetchVars, TocInv, TypeOK, FetchInv, RequestInv, AnswerInv,
     Expected, CacheSound
<1> QED BY <1>1, <1>2, <1>3, <1>4, <1>5 DEF Next

-----------------------------------------------------------------------------
(* The theorems *)

\* Every variable of Toc has its type, whatever the Crazyflie runs.
THEOREM TypeCorrect == Spec => []TypeOK
<1>1. TocInv => TypeOK
  BY DEF TocInv
<1> QED BY <1>1, InitInv, StepInv, PTL DEF Spec

\* A fetch that succeeds has the table of the firmware that runs now, and the
\* cache has whole tables only (fetch_toc, TocCache).
THEOREM TablesCorrect == Spec => []TablesRight
<1>1. TocInv => TablesRight
  BY DEF TocInv, FetchInv, TablesRight, TocRight
<1> QED BY <1>1, InitInv, StepInv, PTL DEF Spec

-----------------------------------------------------------------------------
(* Console: concatenation *)

\* A set of numbers that has zero, and the next of each number it has, has all
\* numbers: induction, over sets.
LEMMA SetInduction ==
    ASSUME NEW S, 0 \in S, \A n \in Nat : n \in S => n + 1 \in S
    PROVE  Nat \subseteq S
<1> DEFINE Others == Nat \ S
           Less == OpToRel(<, Nat)
<1> SUFFICES ASSUME Others # {} PROVE FALSE
  OBVIOUS
<1>1. Others \subseteq Nat
  OBVIOUS
<1>2. IsWellFoundedOn(Less, Nat)
  BY NatLessThanWellFounded
<1> HIDE DEF Less
<1>3. PICK n \in Others : \A m \in Others : <<m, n>> \notin Less
  BY <1>1, <1>2, WFMin
<1>4. n # 0 /\ n \in Nat
  OBVIOUS
<1>5. n - 1 \in Nat /\ n - 1 + 1 = n /\ n - 1 < n
  BY <1>4
<1>6. <<n - 1, n>> \in Less
  BY <1>4, <1>5 DEF Less, OpToRel
<1>7. n - 1 \in S
  BY <1>3, <1>5, <1>6
<1> QED BY <1>5, <1>7

\* One text after the other; by name, for the provers.
Join(x, y) == x \o y

\* A flattening of the first n elements of s, by each element of s in turn.
Flattens(f, s, n) ==
    /\ f = [i \in 1..n |-> f[i]]
    /\ n >= 1 => f[1] = s[1]
    /\ \A i \in 2..n : f[i] = Join(f[i - 1], s[i])

LEMMA FlattensIff ==
    ASSUME NEW f, NEW s, NEW n \in Nat
    PROVE  Flattens(f, s, n) <=>
              f = [i \in 1..n |-> IF i = 1 THEN s[i] ELSE Join(f[i - 1], s[i])]
<1> DEFINE V(i) == IF i = 1 THEN s[i] ELSE Join(f[i - 1], s[i])
<1>1. \A i \in 1..n : V(i) = IF i = 1 THEN s[1] ELSE Join(f[i - 1], s[i])
  OBVIOUS
<1>2. (n >= 1 => 1 \in 1..n) /\ \A i \in 1..n : i # 1 <=> i \in 2..n
  OBVIOUS
<1> HIDE DEF V
<1>3. f = [i \in 1..n |-> V(i)] <=> f = [i \in 1..n |-> f[i]] /\ \A i \in 1..n : f[i] = V(i)
  BY Zenon
<1>4. (\A i \in 1..n : f[i] = V(i)) <=>
         /\ n >= 1 => f[1] = s[1]
         /\ \A i \in 2..n : f[i] = Join(f[i - 1], s[i])
  BY <1>1, <1>2
<1>5. Flattens(f, s, n) <=> f = [i \in 1..n |-> V(i)]
  BY <1>3, <1>4 DEF Flattens
<1> QED BY <1>5 DEF V

LEMMA FlattensExists ==
    ASSUME NEW s
    PROVE  \A n \in Nat : \E f : Flattens(f, s, n)
<1> DEFINE S == {n \in Nat : \E f : Flattens(f, s, n)}
<1>1. 0 \in S
  <2> DEFINE f == [i \in 1..0 |-> s[i]]
  <2>1. Flattens(f, s, 0)
    BY DEF Flattens
  <2> QED BY <2>1
<1>2. ASSUME NEW n \in Nat, n \in S PROVE n + 1 \in S
  <2>1. PICK f : Flattens(f, s, n)
    BY <1>2
  <2> DEFINE g == [i \in 1..(n + 1) |-> IF i <= n THEN f[i]
                                       ELSE IF i = 1 THEN s[1] ELSE Join(f[n], s[n + 1])]
  <2>2. g = [i \in 1..(n + 1) |-> g[i]] /\ g[1] = s[1]
    BY <2>1 DEF Flattens
  <2>3. ASSUME NEW i \in 2..(n + 1) PROVE g[i] = Join(g[i - 1], s[i])
    <3>1. CASE i <= n
      <4>1. g[i] = f[i] /\ g[i - 1] = f[i - 1] /\ i \in 2..n
        BY <3>1
      <4>2. f[i] = Join(f[i - 1], s[i])
        BY <2>1, <4>1 DEF Flattens
      <4> QED BY <4>1, <4>2
    <3>2. CASE i = n + 1
      <4>1. g[i] = Join(f[n], s[n + 1]) /\ g[i - 1] = f[n] /\ i - 1 = n
        BY <3>2
      <4> QED BY <4>1, <3>2
    <3> QED BY <3>1, <3>2
  <2>4. Flattens(g, s, n + 1)
    BY <2>2, <2>3 DEF Flattens
  <2> QED BY <2>4
<1> HIDE DEF S
<1>3. Nat \subseteq S
  BY <1>1, <1>2, SetInduction
<1> QED BY <1>3 DEF S

\* What FlattenSeq takes is such a flattening.
LEMMA FlattenIs ==
    ASSUME NEW s, Len(s) \in Nat \ {0}
    PROVE  \E f : Flattens(f, s, Len(s)) /\ Cons!FlattenSeq(s) = f[Len(s)]
<1> DEFINE f == CHOOSE g : g = [i \in 1..Len(s) |-> IF i = 1 THEN s[i] ELSE Join(g[i - 1], s[i])]
<1>1. Cons!FlattenSeq(s) = f[Len(s)]
  BY DEF Cons!FlattenSeq, Join
<1>2. \E g : g = [i \in 1..Len(s) |-> IF i = 1 THEN s[i] ELSE Join(g[i - 1], s[i])]
  <2>1. PICK g : Flattens(g, s, Len(s))
    BY FlattensExists
  <2> QED BY <2>1, FlattensIff
<1>3. f = [i \in 1..Len(s) |-> IF i = 1 THEN s[i] ELSE Join(f[i - 1], s[i])]
  BY <1>2
<1> HIDE DEF f
<1>4. Flattens(f, s, Len(s))
  BY <1>3, FlattensIff
<1> QED BY <1>1, <1>4

\* Two flattenings are the same as far as the sequences are.
LEMMA FlattensSame ==
    ASSUME NEW f, NEW g, NEW s, NEW t, NEW m \in Nat, NEW n \in Nat, m <= n,
           Flattens(f, s, m), Flattens(g, t, n), \A i \in 1..m : s[i] = t[i]
    PROVE  \A i \in 1..m : f[i] = g[i]
<1> DEFINE S == {i \in Nat : i \in 1..m => f[i] = g[i]}
<1>1. 0 \in S
  OBVIOUS
<1>2. ASSUME NEW i \in Nat, i \in S PROVE i + 1 \in S
  <2>1. CASE i + 1 = 1
    BY <2>1 DEF Flattens
  <2>2. CASE i + 1 \in 2..m
    <3> DEFINE j == i + 1
    <3>1. j \in 2..m /\ j \in 2..n /\ j \in 1..m /\ j - 1 = i /\ i \in 1..m
      BY <2>2
    <3> HIDE DEF j
    <3>2. f[j] = Join(f[j - 1], s[j]) /\ g[j] = Join(g[j - 1], t[j]) /\ s[j] = t[j]
      BY <3>1 DEF Flattens
    <3>3. f[i] = g[i]
      BY <1>2, <3>1
    <3>4. f[j] = g[j]
      BY <3>1, <3>2, <3>3
    <3> QED BY <3>4 DEF j
  <2>3. CASE i + 1 \notin 1..m
    BY <2>3
  <2> QED BY <2>1, <2>2, <2>3
<1> HIDE DEF S
<1>3. Nat \subseteq S
  BY <1>1, <1>2, SetInduction
<1> QED BY <1>3 DEF S

\* What all flattenings of the elements of s are.
LEMMA FlattensSeq ==
    ASSUME NEW C, NEW f, NEW n \in Nat, NEW s, Flattens(f, s, n),
           \A i \in 1..n : s[i] \in Seq(C)
    PROVE  \A i \in 1..n : f[i] \in Seq(C)
<1> DEFINE S == {i \in Nat : i \in 1..n => f[i] \in Seq(C)}
<1>1. 0 \in S
  OBVIOUS
<1>2. ASSUME NEW i \in Nat, i \in S PROVE i + 1 \in S
  <2>1. CASE i + 1 = 1
    BY <2>1 DEF Flattens
  <2>2. CASE i + 1 \in 2..n
    <3> DEFINE j == i + 1
    <3>1. j \in 2..n /\ j \in 1..n /\ j - 1 = i /\ i \in 1..n
      BY <2>2
    <3> HIDE DEF j
    <3>2. f[j] = Join(f[j - 1], s[j]) /\ s[j] \in Seq(C)
      BY <3>1 DEF Flattens
    <3>3. f[i] \in Seq(C)
      BY <1>2, <3>1
    <3>4. f[j] \in Seq(C)
      BY <3>1, <3>2, <3>3, ConcatProperties DEF Join
    <3> QED BY <3>4 DEF j
  <2>3. CASE i + 1 \notin 1..n
    BY <2>3
  <2> QED BY <2>1, <2>2, <2>3
<1> HIDE DEF S
<1>3. Nat \subseteq S
  BY <1>1, <1>2, SetInduction
<1> QED BY <1>3 DEF S

\* No element at all.
LEMMA FlattenEmpty == Cons!FlattenSeq(<<>>) = <<>>
  BY DEF Cons!FlattenSeq

\* All characters are those of the elements.
LEMMA FlattenType ==
    ASSUME NEW C, NEW s \in Seq(Seq(C))
    PROVE  Cons!FlattenSeq(s) \in Seq(C)
<1>1. Len(s) \in Nat /\ \A i \in 1..Len(s) : s[i] \in Seq(C)
  BY QueueFacts
<1>2. CASE s = <<>>
  BY <1>2, FlattenEmpty, EmptyFacts
<1>3. CASE s # <<>>
  <2>1. Len(s) \in Nat \ {0}
    BY <1>3, QueueFacts
  <2>2. PICK f : Flattens(f, s, Len(s)) /\ Cons!FlattenSeq(s) = f[Len(s)]
    BY <2>1, FlattenIs
  <2>3. f[Len(s)] \in Seq(C)
    BY <1>1, <2>1, <2>2, FlattensSeq
  <2> QED BY <2>2, <2>3
<1> QED BY <1>2, <1>3

\* An element more is its characters more.
LEMMA FlattenAppend ==
    ASSUME NEW C, NEW s \in Seq(Seq(C)), NEW x \in Seq(C)
    PROVE  Cons!FlattenSeq(Append(s, x)) = Cons!FlattenSeq(s) \o x
<1> DEFINE t == Append(s, x)
<1>1. /\ Len(s) \in Nat /\ t \in Seq(Seq(C)) /\ Len(t) = Len(s) + 1 /\ t[Len(s) + 1] = x
      /\ \A i \in 1..Len(s) : s[i] = t[i]
  BY AppendFacts, QueueFacts
<1> HIDE DEF t
<1>2. PICK g : Flattens(g, t, Len(t)) /\ Cons!FlattenSeq(t) = g[Len(t)]
  <2>1. Len(t) \in Nat \ {0}
    BY <1>1
  <2> QED BY <2>1, FlattenIs
<1>3. CASE s = <<>>
  <2>1. Len(s) = 0 /\ Cons!FlattenSeq(s) = <<>>
    BY <1>3, FlattenEmpty
  <2>2. g[1] = t[1] /\ t[1] = x
    BY <1>1, <1>2, <2>1 DEF Flattens
  <2> QED BY <1>1, <1>2, <2>1, <2>2, ConcatEmptySeq DEF t
<1>4. CASE s # <<>>
  <2>1. Len(s) \in Nat \ {0}
    BY <1>4, QueueFacts
  <2>2. PICK f : Flattens(f, s, Len(s)) /\ Cons!FlattenSeq(s) = f[Len(s)]
    BY <2>1, FlattenIs
  <2>3. f[Len(s)] = g[Len(s)]
    <3>1. Len(t) \in Nat /\ Len(s) <= Len(t) /\ Len(s) \in 1..Len(s)
      BY <1>1, <2>1
    <3>2. \A i \in 1..Len(s) : f[i] = g[i]
      BY <1>1, <1>2, <2>2, <3>1, FlattensSame
    <3> QED BY <3>1, <3>2
  <2>4. g[Len(t)] = Join(g[Len(t) - 1], t[Len(t)]) /\ Len(t) - 1 = Len(s)
    <3>1. Len(t) \in 2..Len(t) /\ Len(t) - 1 = Len(s)
      BY <1>1, <2>1
    <3> QED BY <1>2, <3>1 DEF Flattens
  <2> QED BY <1>1, <1>2, <2>2, <2>3, <2>4 DEF t, Join
<1> QED BY <1>3, <1>4

-----------------------------------------------------------------------------
(* Console: the invariant *)

\* The characters.
ConsWords == UNION {Cons!Range(x) : x \in Texts}
ConsChars == ConsWords \union {NewLine}

\* The packets whose text is in the lines or in the buffer.
ConsCut == IF step \in {"text", "line"} THEN taken - 1 ELSE taken

\* The text, its task, and what the lines are made of.
ConsText ==
    /\ arrived \in Seq(Seq(ConsChars)) /\ taken \in 0..Len(arrived)
    /\ step \in {"recv", "text", "line", "cast", "ended"}
    /\ step \in {"text", "line"} => taken >= 1
    /\ line_buffer \in Seq(ConsChars) /\ console_lines \in Seq(Seq(ConsChars))
    /\ Cons!LinesExact

\* What has been broadcast on a channel, and is in its history: 1, 2, ...
ConsShown(c) ==
    IF c = "text" THEN IF step = "text" THEN taken - 1 ELSE taken
    ELSE IF step = "cast" THEN Len(console_lines) - 1 ELSE Len(console_lines)
ConsCasts ==
    /\ console_buffer = taken
    /\ step = "cast" => Len(console_lines) >= 1
    /\ cast \in [Cons!Channels -> Seq(Nat)]
    /\ \A c \in Cons!Channels :
          /\ Len(cast[c]) = ConsShown(c)
          /\ \A i \in 1..Len(cast[c]) : cast[c][i] = i

ConsReader == [channel : Cons!Channels \union {"none"}, history : BOOLEAN, first : Nat \ {0},
               next : Nat, got : Seq(Nat), lagged : BOOLEAN]

\* What a stream that was never too late has given: from, from + 1, ..., next,
\* or that with k, which the history has, once more.
ConsGot(got, from, next, h) ==
    \/ /\ Len(got) = next - from + 1
       /\ \A i \in 1..Len(got) : got[i] = from + i - 1
    \/ \E k \in from..h :
          /\ k <= next + 1
          /\ Len(got) = next - from + 2
          /\ \A i \in 1..Len(got) :
                got[i] = IF i <= k - from + 1 THEN from + i - 1 ELSE from + i - 2
ConsStream(s, n, h) ==
    /\ s.next <= n
    /\ s.first <= s.next + 1
    /\ ~s.lagged => ConsGot(s.got, s.first, s.next, h)
ConsReaders ==
    /\ reader \in [Readers -> ConsReader]
    /\ \A r \in Readers, c \in Cons!Channels :
          reader[r].channel = c => ConsStream(reader[r], Len(cast[c]), Cons!History(c))

ConsInv == ConsText /\ ConsCasts /\ ConsReaders

\* What is assumed of the constants, of the provers' kind.
LEMMA ConsConstants ==
    ASSUME Cons!ConstantsOK
    PROVE  /\ Capacity \in Nat \ {0} /\ MaxPackets \in Nat
           /\ \A x \in Texts : x \in Seq(ConsChars)
           /\ NewLine \in ConsChars
<1>1. ASSUME NEW x \in Texts PROVE x \in Seq(ConsChars)
  <2>1. x \in Seq(Cons!Range(x))
    BY DEF Cons!ConstantsOK
  <2>2. Cons!Range(x) \subseteq ConsChars
    BY DEF ConsChars, ConsWords
  <2> QED BY <2>1, <2>2, SeqMonotonic
<1>2. NewLine \in ConsChars
  BY DEF ConsChars
<1>3. Capacity \in Nat \ {0} /\ MaxPackets \in Nat
  BY DEF Cons!ConstantsOK
<1> QED BY <1>1, <1>2, <1>3

-----------------------------------------------------------------------------
(* Console: lines and text *)

\* The lines, each with its end.
ConsEnded(lines) == [i \in DOMAIN lines |-> Append(lines[i], NewLine)]

LEMMA ConsEndedFacts ==
    ASSUME NEW C, NewLine \in C, NEW lines \in Seq(Seq(C))
    PROVE  /\ ConsEnded(lines) \in Seq(Seq(C))
           /\ \A x \in Seq(C) :
                ConsEnded(Append(lines, x)) = Append(ConsEnded(lines), Append(x, NewLine))
<1>1. Len(lines) \in Nat /\ DOMAIN lines = 1..Len(lines)
      /\ \A i \in 1..Len(lines) : lines[i] \in Seq(C)
  BY LenProperties, QueueFacts
<1>2. \A i \in 1..Len(lines) : Append(lines[i], NewLine) \in Seq(C)
  BY <1>1, AppendFacts
<1>3. /\ ConsEnded(lines) \in Seq(Seq(C)) /\ Len(ConsEnded(lines)) = Len(lines)
      /\ \A i \in 1..Len(lines) : ConsEnded(lines)[i] = Append(lines[i], NewLine)
  BY <1>1, <1>2, IsASeq DEF ConsEnded
<1>4. ASSUME NEW x \in Seq(C)
      PROVE  ConsEnded(Append(lines, x)) = Append(ConsEnded(lines), Append(x, NewLine))
  <2> DEFINE more == Append(lines, x)
             y == Append(x, NewLine)
  <2>1. /\ more \in Seq(Seq(C)) /\ Len(more) = Len(lines) + 1 /\ more[Len(lines) + 1] = x
        /\ \A i \in 1..Len(lines) : more[i] = lines[i]
    BY AppendFacts
  <2>2. DOMAIN more = 1..Len(more)
    BY <2>1, LenProperties
  <2>3. y \in Seq(C)
    BY AppendFacts
  <2> HIDE DEF y
  <2> DEFINE a == Append(ConsEnded(lines), y)
  <2>4. /\ a \in Seq(Seq(C)) /\ Len(a) = Len(lines) + 1 /\ a[Len(lines) + 1] = y
        /\ \A i \in 1..Len(lines) : a[i] = ConsEnded(lines)[i]
    BY <1>3, <2>3, AppendFacts
  <2>5. DOMAIN a = 1..Len(a) /\ a = [i \in 1..Len(a) |-> a[i]]
    BY <2>4, LenProperties
  <2> HIDE DEF a, more
  <2>6. ASSUME NEW i \in 1..(Len(lines) + 1) PROVE Append(more[i], NewLine) = a[i]
    <3>1. CASE i = Len(lines) + 1
      BY <3>1, <2>1, <2>4 DEF y
    <3>2. CASE i \in 1..Len(lines)
      BY <3>2, <2>1, <2>4, <1>3
    <3> QED BY <1>1, <3>1, <3>2
  <2>7. ConsEnded(more) = [i \in 1..(Len(lines) + 1) |-> Append(more[i], NewLine)]
    BY <2>1, <2>2 DEF ConsEnded
  <2>8. ConsEnded(more) = a
    BY <2>4, <2>5, <2>6, <2>7
  <2> QED BY <2>8 DEF a, more, y
<1> QED BY <1>3, <1>4

LEMMA ConsLines ==
    Cons!LinesExact <=>
        Cons!FlattenSeq(ConsEnded(console_lines)) \o line_buffer
            = Cons!FlattenSeq(SubSeq(arrived, 1, ConsCut))
  BY DEF Cons!LinesExact, ConsEnded, ConsCut

LEMMA ConsLinesNext ==
    Cons!LinesExact' <=>
        Cons!FlattenSeq(ConsEnded(console_lines')) \o line_buffer'
            = Cons!FlattenSeq(SubSeq(arrived', 1, ConsCut'))
  BY DEF Cons!LinesExact, ConsEnded, ConsCut

\* One packet more.
LEMMA ConsTextMore ==
    ASSUME NEW C, NEW s \in Seq(Seq(C)), NEW n \in Nat, n + 1 <= Len(s)
    PROVE  Cons!FlattenSeq(SubSeq(s, 1, n + 1)) = Cons!FlattenSeq(SubSeq(s, 1, n)) \o s[n + 1]
<1>1. Len(s) \in Nat /\ n + 1 \in 1..Len(s) /\ s[n + 1] \in Seq(C) /\ n \in 0..Len(s)
  BY QueueFacts
<1> DEFINE p == SubSeq(s, 1, n)
           q == SubSeq(s, 1, n + 1)
           a == Append(p, s[n + 1])
<1>2. p \in Seq(Seq(C)) /\ Len(p) = n /\ \A i \in 1..n : p[i] = s[i]
  BY <1>1, PrefixFacts
<1>3. q \in Seq(Seq(C)) /\ Len(q) = n + 1 /\ \A i \in 1..(n + 1) : q[i] = s[i]
  BY <1>1, PrefixFacts
<1>4. /\ a \in Seq(Seq(C)) /\ Len(a) = n + 1 /\ a[n + 1] = s[n + 1]
      /\ \A i \in 1..n : a[i] = p[i]
  BY <1>1, <1>2, AppendFacts
<1>5. Cons!FlattenSeq(a) = Cons!FlattenSeq(p) \o s[n + 1]
  BY <1>1, <1>2, FlattenAppend
<1> HIDE DEF a, p, q
<1>6. ASSUME NEW i \in 1..Len(q) PROVE q[i] = a[i]
  <2>1. CASE i = n + 1
    BY <2>1, <1>3, <1>4
  <2>2. CASE i \in 1..n
    BY <2>2, <1>2, <1>3, <1>4
  <2> QED BY <1>3, <2>1, <2>2
<1>7. q = a
  BY <1>3, <1>4, <1>6, SeqEqual
<1> QED BY <1>5, <1>7 DEF p, q

\* A text is what comes before one of its characters, that one and the rest.
LEMMA ConsSplit ==
    ASSUME NEW C, NEW b \in Seq(C), NEW i \in 1..Len(b)
    PROVE  /\ SubSeq(b, 1, i - 1) \in Seq(C) /\ SubSeq(b, i + 1, Len(b)) \in Seq(C)
           /\ b = Append(SubSeq(b, 1, i - 1), b[i]) \o SubSeq(b, i + 1, Len(b))
<1> DEFINE l == SubSeq(b, 1, i - 1)
           r == SubSeq(b, i + 1, Len(b))
           a == Append(l, b[i])
           c == a \o r
<1>1. Len(b) \in Nat /\ b[i] \in C /\ i - 1 \in 0..Len(b) /\ Len(b) - i \in Nat /\ i \in Nat
  BY QueueFacts
<1>2. l \in Seq(C) /\ Len(l) = i - 1 /\ \A k \in 1..(i - 1) : l[k] = b[k]
  BY <1>1, PrefixFacts
<1> DEFINE m == Len(b) - i
<1>3. m \in Nat /\ i + m = Len(b) /\ i + m <= Len(b) /\ r = SubSeq(b, i + 1, i + m)
  BY <1>1
<1> HIDE DEF m
<1>4. r \in Seq(C) /\ Len(r) = m /\ \A k \in 1..m : r[k] = b[i + k]
  BY <1>1, <1>3, PartFacts
<1> HIDE DEF l, r
<1>5. a \in Seq(C) /\ Len(a) = i /\ a[i] = b[i] /\ \A k \in 1..(i - 1) : a[k] = l[k]
  BY <1>1, <1>2, AppendFacts
<1> HIDE DEF a
<1>6. /\ c \in Seq(C) /\ Len(c) = Len(b)
      /\ \A k \in 1..Len(b) : c[k] = IF k <= i THEN a[k] ELSE r[k - i]
  <2>1. /\ c \in Seq(C) /\ Len(c) = Len(a) + Len(r)
        /\ \A k \in 1..(Len(a) + Len(r)) : c[k] = IF k <= Len(a) THEN a[k] ELSE r[k - Len(a)]
    BY <1>4, <1>5, ConcatProperties
  <2> QED BY <2>1, <1>3, <1>4, <1>5
<1> HIDE DEF c
<1>7. ASSUME NEW k \in 1..Len(b) PROVE b[k] = c[k]
  <2>1. CASE k = i
    BY <2>1, <1>5, <1>6
  <2>2. CASE k \in 1..(i - 1)
    BY <2>2, <1>1, <1>2, <1>5, <1>6
  <2>3. CASE k > i
    <3>1. k - i \in 1..m /\ i + (k - i) = k /\ ~(k <= i)
      BY <1>1, <2>3 DEF m
    <3> QED BY <3>1, <1>4, <1>6
  <2> QED BY <1>1, <2>1, <2>2, <2>3
<1>8. b = c
  BY <1>6, <1>7, SeqEqual
<1> QED BY <1>2, <1>4, <1>8 DEF a, c, l, r

\* The text is the same, and so is what has been made lines of.
LEMMA ConsTextSame ==
    ASSUME ConsText, arrived' = arrived, taken' \in 0..Len(arrived),
           line_buffer' = line_buffer, console_lines' = console_lines, ConsCut' = ConsCut,
           step' \in {"recv", "text", "line", "cast", "ended"},
           step' \in {"text", "line"} => taken' >= 1
    PROVE  ConsText'
  BY ConsLines, ConsLinesNext DEF ConsText

LEMMA ConsTextInit == ASSUME Cons!ConstantsOK, Cons!Init PROVE ConsText
<1>1. /\ arrived = <<>> /\ taken = 0 /\ step = "recv" /\ line_buffer = <<>>
      /\ console_lines = <<>>
  BY DEF Cons!Init
<1>2. /\ <<>> \in Seq(ConsChars) /\ <<>> \in Seq(Seq(ConsChars)) /\ Len(<<>>) = 0
      /\ taken \in 0..Len(arrived) /\ ~(step \in {"text", "line"}) /\ ConsCut = 0
  BY <1>1, EmptyFacts DEF ConsCut
<1>3. SubSeq(arrived, 1, ConsCut) = <<>>
  BY <1>1, <1>2, SubSeqEmpty
<1>4. ConsEnded(<<>>) = <<>>
  BY DEF ConsEnded
<1>5. <<>> \o <<>> = <<>>
  BY <1>2, ConcatEmptySeq
<1>6. Cons!LinesExact
  BY <1>1, <1>3, <1>4, <1>5, FlattenEmpty, ConsLines
<1> QED BY <1>1, <1>2, <1>6 DEF ConsText

LEMMA ConsArriveText ==
    ASSUME Cons!ConstantsOK, ConsText, NEW x \in Texts, Cons!Arrive(x)
    PROVE  ConsText'
<1>1. /\ arrived' = Append(arrived, x) /\ ConsCut' = ConsCut /\ taken' = taken /\ step' = step
      /\ line_buffer' = line_buffer /\ console_lines' = console_lines
  BY DEF Cons!Arrive, Cons!taskVars, ConsCut
<1> DEFINE a == arrived'
<1>2. /\ a \in Seq(Seq(ConsChars)) /\ Len(a) = Len(arrived) + 1 /\ Len(arrived) \in Nat
      /\ \A i \in 1..Len(arrived) : a[i] = arrived[i]
  BY <1>1, ConsConstants, AppendFacts, QueueFacts DEF ConsText
<1> HIDE DEF a
<1>3. ConsCut \in 0..Len(arrived) /\ ConsCut \in 0..Len(a)
  BY <1>2 DEF ConsText, ConsCut
<1> DEFINE p == SubSeq(arrived, 1, ConsCut)
           q == SubSeq(a, 1, ConsCut)
<1>4. p \in Seq(Seq(ConsChars)) /\ Len(p) = ConsCut /\ \A i \in 1..ConsCut : p[i] = arrived[i]
  BY <1>3, PrefixFacts DEF ConsText
<1>5. q \in Seq(Seq(ConsChars)) /\ Len(q) = ConsCut /\ \A i \in 1..ConsCut : q[i] = a[i]
  BY <1>2, <1>3, PrefixFacts
<1> HIDE DEF p, q
<1>6. ASSUME NEW i \in 1..Len(p) PROVE p[i] = q[i]
  <2>1. i \in 1..ConsCut /\ i \in 1..Len(arrived)
    BY <1>2, <1>3, <1>4
  <2> QED BY <2>1, <1>2, <1>4, <1>5
<1>7. p = q
  BY <1>4, <1>5, <1>6, SeqEqual
<1>8. Cons!LinesExact'
  BY <1>1, <1>7, ConsLines, ConsLinesNext DEF ConsText, a, p, q
<1>9. taken' \in 0..Len(a)
  BY <1>1, <1>2 DEF ConsText
<1> QED BY <1>1, <1>2, <1>8, <1>9 DEF ConsText, a

LEMMA ConsCutText ==
    ASSUME Cons!ConstantsOK, ConsText, Cons!CutLine
    PROVE  ConsText'
<1> DEFINE C == ConsChars
           b == line_buffer \o arrived[taken]
           lines == ConsEnded(console_lines)
<1>1. /\ step = "line" /\ taken \in Nat /\ taken - 1 \in Nat /\ taken \in 1..Len(arrived)
      /\ taken - 1 + 1 = taken /\ ConsCut = taken - 1
  BY QueueFacts DEF ConsText, Cons!CutLine, ConsCut
<1>2. /\ arrived' = arrived /\ taken' = taken /\ ConsCut' = taken
      /\ step' \in {"recv", "cast"}
  BY DEF Cons!CutLine, ConsCut
<1>3. /\ arrived[taken] \in Seq(C) /\ line_buffer \in Seq(C) /\ NewLine \in C
      /\ arrived \in Seq(Seq(C)) /\ console_lines \in Seq(Seq(C))
  BY <1>1, ConsConstants, QueueFacts DEF ConsText
<1>4. b \in Seq(C)
  BY <1>3, ConcatProperties
<1>5. lines \in Seq(Seq(C))
  BY <1>3, ConsEndedFacts
<1>6. Cons!FlattenSeq(lines) \in Seq(C)
  BY <1>5, FlattenType
<1> DEFINE l == Cons!FlattenSeq(lines)
           pieces == SubSeq(arrived, 1, taken)
<1>7. Cons!FlattenSeq(pieces) = Cons!FlattenSeq(SubSeq(arrived, 1, ConsCut)) \o arrived[taken]
  <2>1. taken - 1 + 1 <= Len(arrived)
    BY <1>1, <1>3, QueueFacts
  <2> QED BY <1>1, <1>3, <2>1, ConsTextMore
<1>8. Cons!FlattenSeq(SubSeq(arrived, 1, ConsCut)) = l \o line_buffer
  BY ConsLines DEF ConsText
<1>9. (l \o line_buffer) \o arrived[taken] = l \o b
  <2>1. l \in Seq(C)
    BY <1>6
  <2> DEFINE p == arrived[taken]
  <2>2. p \in Seq(C) /\ line_buffer \in Seq(C)
    BY <1>3
  <2> HIDE DEF l, C, p
  <2>3. (l \o line_buffer) \o p = l \o (line_buffer \o p)
    BY <2>1, <2>2, ConcatAssociative
  <2> QED BY <2>3 DEF p
<1>10. Cons!FlattenSeq(pieces) = l \o b
  BY <1>7, <1>8, <1>9
<1> HIDE DEF pieces
<1>11. CASE line_buffer' = b /\ UNCHANGED console_lines
  <2>1. Cons!LinesExact'
    BY <1>2, <1>10, <1>11, ConsLinesNext DEF pieces
  <2> QED BY <1>1, <1>2, <1>3, <1>4, <1>11, <2>1 DEF ConsText
<1>12. ASSUME NEW i \in DOMAIN b, b[i] = NewLine, line_buffer' = Cons!Rest(b, i),
              console_lines' = Append(console_lines, SubSeq(b, 1, i - 1))
       PROVE  ConsText'
  <2> HIDE DEF b
  <2>1. i \in 1..Len(b)
    BY <1>4, <1>12, LenProperties
  <2> DEFINE x == SubSeq(b, 1, i - 1)
             y == SubSeq(b, i + 1, Len(b))
             z == Append(x, NewLine)
  <2>2. x \in Seq(C) /\ y \in Seq(C) /\ b = z \o y
    BY <1>4, <1>12, <2>1, ConsSplit
  <2>3. z \in Seq(C)
    BY <1>3, <2>2, AppendFacts
  <2>4. console_lines' = Append(console_lines, x) /\ line_buffer' = y
    BY <1>12 DEF Cons!Rest
  <2> HIDE DEF x, y
  <2>5. ConsEnded(console_lines') = Append(lines, z)
    BY <1>3, <2>2, <2>4, ConsEndedFacts
  <2>6. Cons!FlattenSeq(ConsEnded(console_lines')) = l \o z
    BY <1>5, <2>3, <2>5, FlattenAppend
  <2>7. (l \o z) \o y = l \o (z \o y)
    <3>1. l \in Seq(C)
      BY <1>6
    <3> HIDE DEF l, C, z
    <3> QED BY <2>2, <2>3, <3>1, ConcatAssociative
  <2>8. Cons!LinesExact'
    BY <1>2, <1>10, <2>2, <2>4, <2>6, <2>7, ConsLinesNext DEF pieces
  <2>9. console_lines' \in Seq(Seq(C))
    BY <1>3, <2>2, <2>4, AppendFacts
  <2> QED BY <1>1, <1>2, <1>3, <2>2, <2>4, <2>8, <2>9 DEF ConsText
<1> QED BY <1>11, <1>12 DEF Cons!CutLine

LEMMA ConsTextNext ==
    ASSUME Cons!ConstantsOK, ConsText, [Cons!Next]_Cons!vars
    PROVE  ConsText'
<1>0. Len(arrived) \in Nat
  BY QueueFacts DEF ConsText
<1>1. CASE Cons!Keep
  <2>1. taken' \in 0..Len(arrived) /\ ConsCut' = ConsCut /\ taken' >= 1
    BY <1>0, <1>1 DEF Cons!Keep, ConsText, ConsCut
  <2> QED BY <1>1, <2>1, ConsTextSame DEF Cons!Keep
<1>2. CASE Cons!CastText
  <2>1. ConsCut' = ConsCut /\ taken' >= 1
    BY <1>2 DEF Cons!CastText, ConsText, ConsCut
  <2> QED BY <1>2, <2>1, ConsTextSame DEF Cons!CastText, ConsText
<1>3. CASE Cons!CutLine
  BY <1>3, ConsCutText
<1>4. CASE Cons!CastLine
  <2>1. ConsCut' = ConsCut
    BY <1>4 DEF Cons!CastLine, ConsText, ConsCut
  <2> QED BY <1>4, <2>1, ConsTextSame DEF Cons!CastLine, ConsText
<1>5. CASE Cons!TaskEnds
  <2>1. ConsCut' = ConsCut
    BY <1>5 DEF Cons!TaskEnds, ConsText, ConsCut
  <2> QED BY <1>5, <2>1, ConsTextSame DEF Cons!TaskEnds, ConsText
<1>6. ASSUME NEW x \in Texts, Cons!Arrive(x) PROVE ConsText'
  BY <1>6, ConsArriveText
<1>7. CASE UNCHANGED <<arrived, Cons!taskVars>>
  <2>1. ConsCut' = ConsCut
    BY <1>7 DEF Cons!taskVars, ConsCut
  <2> QED BY <1>7, <2>1, ConsTextSame DEF Cons!taskVars, ConsText
<1>8. CASE Cons!Lose
  BY <1>7, <1>8 DEF Cons!Lose
<1>9. ASSUME NEW r \in Readers, NEW c \in Cons!Channels, NEW h \in BOOLEAN, Cons!Open(r, c, h)
      PROVE  ConsText'
  BY <1>7, <1>9 DEF Cons!Open
<1>10. ASSUME NEW r \in Readers, Cons!ReadNext(r) PROVE ConsText'
  BY <1>7, <1>10 DEF Cons!ReadNext
<1>11. CASE UNCHANGED Cons!vars
  BY <1>7, <1>11 DEF Cons!vars
<1> QED BY <1>1, <1>2, <1>3, <1>4, <1>5, <1>6, <1>8, <1>9, <1>10, <1>11
        DEF Cons!Next, Cons!Task

-----------------------------------------------------------------------------
(* Console: what is broadcast *)

LEMMA ConsCastsInit == ASSUME Cons!ConstantsOK, Cons!Init PROVE ConsCasts
  BY EmptyFacts DEF Cons!Init, ConsCasts, ConsShown, Cons!Channels

\* One more on a channel.
LEMMA ConsCastMore ==
    ASSUME NEW q \in Seq(Nat), NEW n \in Nat, Len(q) = n - 1, \A i \in 1..Len(q) : q[i] = i
    PROVE  /\ Append(q, n) \in Seq(Nat) /\ Len(Append(q, n)) = n
           /\ \A i \in 1..Len(Append(q, n)) : Append(q, n)[i] = i
<1>1. Len(q) \in Nat
  BY QueueFacts
<1> QED BY <1>1, AppendFacts

LEMMA ConsCastsNext ==
    ASSUME Cons!ConstantsOK, ConsText, ConsCasts, [Cons!Next]_Cons!vars
    PROVE  /\ ConsCasts'
           /\ \A c \in Cons!Channels : /\ Cons!History(c) <= Cons!History(c)'
                                       /\ Len(cast[c]) <= Len(cast'[c])
<1>0. /\ taken \in Nat /\ Len(console_lines) \in Nat /\ Len(arrived) \in Nat
      /\ \A c \in Cons!Channels : cast[c] \in Seq(Nat) /\ Len(cast[c]) \in Nat
      /\ \A c \in Cons!Channels : ConsShown(c) \in Nat
  BY QueueFacts DEF ConsText, ConsCasts, Cons!Channels
<1>1. CASE Cons!Keep
  BY <1>0, <1>1 DEF Cons!Keep, ConsCasts, ConsText, ConsShown, Cons!Channels, Cons!History
<1>2. CASE Cons!CastText
  <2> DEFINE q == cast["text"]
  <2>1. /\ q \in Seq(Nat) /\ Len(q) = taken - 1 /\ \A i \in 1..Len(q) : q[i] = i
        /\ taken >= 1 /\ "text" \in Cons!Channels /\ cast \in [Cons!Channels -> Seq(Nat)]
    BY <1>2 DEF Cons!CastText, ConsCasts, ConsText, ConsShown, Cons!Channels
  <2>2. cast' = [cast EXCEPT !["text"] = Append(q, taken)]
    BY <1>2 DEF Cons!CastText
  <2> HIDE DEF q
  <2>3. /\ Append(q, taken) \in Seq(Nat) /\ Len(Append(q, taken)) = taken
        /\ \A i \in 1..Len(Append(q, taken)) : Append(q, taken)[i] = i
    BY <1>0, <2>1, ConsCastMore
  <2> DEFINE a == Append(q, taken)
  <2>4. /\ cast'["text"] = a /\ cast'["line"] = cast["line"]
        /\ cast' \in [Cons!Channels -> Seq(Nat)]
    BY <2>1, <2>2, <2>3 DEF Cons!Channels
  <2>5. /\ console_buffer' = console_buffer /\ step' = "line" /\ taken' = taken /\ step = "text"
        /\ console_lines' = console_lines
    BY <1>2 DEF Cons!CastText
  <2> HIDE DEF a
  <2>6. /\ Len(cast'["text"]) = taken /\ Len(cast["text"]) = taken - 1
        /\ \A i \in 1..Len(cast'["text"]) : cast'["text"][i] = i
    BY <2>1, <2>3, <2>4 DEF a, q
  <2> QED BY <1>0, <2>4, <2>5, <2>6
          DEF ConsCasts, ConsShown, Cons!Channels, Cons!History
<1>3. CASE Cons!CutLine
  <2>1. CASE step' = "recv" /\ UNCHANGED console_lines
    BY <1>0, <1>3, <2>1 DEF Cons!CutLine, ConsCasts, ConsShown, Cons!Channels, Cons!History
  <2>2. ASSUME NEW x, console_lines' = Append(console_lines, x), step' = "cast",
               x \in Seq(ConsChars)
        PROVE  /\ ConsCasts'
               /\ \A c \in Cons!Channels : /\ Cons!History(c) <= Cons!History(c)'
                                           /\ Len(cast[c]) <= Len(cast'[c])
    <3>1. Len(console_lines') = Len(console_lines) + 1
      BY <2>2, AppendFacts DEF ConsText
    <3> QED BY <1>0, <1>3, <2>2, <3>1
            DEF Cons!CutLine, ConsCasts, ConsShown, Cons!Channels, Cons!History
  <2>3. CASE \E i \in DOMAIN (line_buffer \o arrived[taken]) :
                /\ console_lines' = Append(console_lines,
                                           SubSeq(line_buffer \o arrived[taken], 1, i - 1))
                /\ step' = "cast"
    <3> DEFINE b == line_buffer \o arrived[taken]
    <3>1. PICK i \in DOMAIN b : /\ console_lines' = Append(console_lines, SubSeq(b, 1, i - 1))
                                /\ step' = "cast"
      BY <2>3
    <3>2. taken \in 1..Len(arrived)
      BY <1>0, <1>3 DEF Cons!CutLine, ConsText
    <3>3. arrived[taken] \in Seq(ConsChars) /\ line_buffer \in Seq(ConsChars)
      BY <3>2, QueueFacts DEF ConsText
    <3>4. b \in Seq(ConsChars)
      BY <3>3, ConcatProperties
    <3> HIDE DEF b
    <3>5. SubSeq(b, 1, i - 1) \in Seq(ConsChars)
      BY <3>1, <3>4, ConsSplit, LenProperties
    <3> QED BY <2>2, <3>1, <3>5
  <2> QED BY <1>3, <2>1, <2>3 DEF Cons!CutLine
<1>4. CASE Cons!CastLine
  <2> DEFINE q == cast["line"]
             n == Len(console_lines)
  <2>1. /\ q \in Seq(Nat) /\ Len(q) = n - 1 /\ \A i \in 1..Len(q) : q[i] = i
        /\ "line" \in Cons!Channels /\ cast \in [Cons!Channels -> Seq(Nat)] /\ n \in Nat
    BY <1>0, <1>4 DEF Cons!CastLine, ConsCasts, ConsText, ConsShown, Cons!Channels
  <2>2. cast' = [cast EXCEPT !["line"] = Append(q, n)]
    BY <1>4 DEF Cons!CastLine
  <2> HIDE DEF q, n
  <2> DEFINE a == Append(q, n)
  <2>3. a \in Seq(Nat) /\ Len(a) = n /\ \A i \in 1..Len(a) : a[i] = i
    BY <2>1, ConsCastMore
  <2> HIDE DEF a
  <2>4. /\ cast'["line"] = a /\ cast'["text"] = cast["text"]
        /\ cast' \in [Cons!Channels -> Seq(Nat)]
    BY <2>1, <2>2, <2>3 DEF Cons!Channels, a
  <2>5. /\ console_buffer' = console_buffer /\ step' = "recv" /\ taken' = taken /\ step = "cast"
        /\ console_lines' = console_lines
    BY <1>4 DEF Cons!CastLine
  <2>6. /\ Len(cast'["line"]) = Len(console_lines) /\ Len(cast["line"]) = Len(console_lines) - 1
        /\ \A i \in 1..Len(cast'["line"]) : cast'["line"][i] = i
    BY <2>1, <2>3, <2>4 DEF n, q
  <2> QED BY <1>0, <2>4, <2>5, <2>6
          DEF ConsCasts, ConsShown, Cons!Channels, Cons!History
<1>5. CASE Cons!TaskEnds
  BY <1>0, <1>5 DEF Cons!TaskEnds, ConsCasts, ConsShown, Cons!Channels, Cons!History
<1>6. CASE UNCHANGED Cons!taskVars
  BY <1>0, <1>6 DEF Cons!taskVars, ConsCasts, ConsShown, Cons!Channels, Cons!History
<1>7. CASE UNCHANGED Cons!vars
  BY <1>6, <1>7 DEF Cons!vars
<1>8. ASSUME NEW x \in Texts, Cons!Arrive(x) PROVE UNCHANGED Cons!taskVars
  BY <1>8 DEF Cons!Arrive
<1>9. ASSUME NEW r \in Readers, NEW c \in Cons!Channels, NEW h \in BOOLEAN, Cons!Open(r, c, h)
      PROVE  UNCHANGED Cons!taskVars
  BY <1>9 DEF Cons!Open
<1>10. ASSUME NEW r \in Readers, Cons!ReadNext(r) PROVE UNCHANGED Cons!taskVars
  BY <1>10 DEF Cons!ReadNext
<1>11. CASE Cons!Lose
  BY <1>6, <1>11 DEF Cons!Lose
<1> QED BY <1>1, <1>2, <1>3, <1>4, <1>5, <1>6, <1>7, <1>8, <1>9, <1>10, <1>11
        DEF Cons!Next, Cons!Task

-----------------------------------------------------------------------------
(* Console: the streams *)

LEMMA ConsReadersInit == ASSUME Cons!ConstantsOK, Cons!Init PROVE ConsReaders
<1>1. /\ reader = [r \in Readers |-> [channel |-> "none", history |-> FALSE, first |-> 1,
                                       next |-> 0, got |-> <<>>, lagged |-> FALSE]]
  BY DEF Cons!Init
<1>2. reader \in [Readers -> ConsReader]
  BY <1>1, EmptyFacts DEF ConsReader
<1>3. \A r \in Readers : reader[r].channel = "none"
  BY <1>1
<1> QED BY <1>2, <1>3 DEF ConsReaders, Cons!Channels

\* What a channel and its history hold.
LEMMA ConsHistory ==
    ASSUME ConsText, ConsCasts, NEW c \in Cons!Channels
    PROVE  /\ Cons!History(c) \in Nat /\ Len(cast[c]) \in Nat /\ cast[c] \in Seq(Nat)
           /\ Cons!History(c) \in {Len(cast[c]), Len(cast[c]) + 1}
           /\ \A i \in 1..Len(cast[c]) : cast[c][i] = i
<1>1. Len(console_lines) \in Nat /\ taken \in Nat /\ cast[c] \in Seq(Nat)
  BY QueueFacts DEF ConsText, ConsCasts
<1> QED BY <1>1, QueueFacts DEF ConsCasts, ConsShown, Cons!History, Cons!Channels

\* A stream that has given nothing more keeps its place.
LEMMA ConsStreamKept ==
    ASSUME NEW s \in ConsReader, NEW n \in Nat, NEW h \in Nat, NEW m \in Nat, NEW k \in Nat,
           n <= m, h <= k, ConsStream(s, n, h)
    PROVE  ConsStream(s, m, k)
<1>1. s.next \in Nat /\ s.first \in Nat \ {0}
  BY DEF ConsReader
<1>2. \A i \in s.first..h : i \in s.first..k
  BY <1>1
<1>3. ~s.lagged => ConsGot(s.got, s.first, s.next, k)
  BY <1>2 DEF ConsGot, ConsStream
<1> QED BY <1>1, <1>3 DEF ConsStream

LEMMA ConsReadersKept ==
    ASSUME Cons!ConstantsOK, ConsText, ConsCasts, ConsReaders, [Cons!Next]_Cons!vars,
           NEW p \in Readers, NEW c \in Cons!Channels,
           reader[p].channel = c, reader'[p] = reader[p]
    PROVE  ConsStream(reader'[p], Len(cast'[c]), Cons!History(c)')
<1>1. ConsText' /\ ConsCasts'
  BY ConsTextNext, ConsCastsNext
<1> DEFINE h == Cons!History(c)
           k == Cons!History(c)'
           n == Len(cast[c])
           m == Len(cast'[c])
           s == reader[p]
<1>2. h \in Nat /\ n \in Nat
  BY ConsHistory
<1>3. k \in Nat /\ m \in Nat
  BY <1>1, ConsHistory, QueueFacts DEF ConsText, ConsCasts, Cons!History, Cons!Channels
<1>4. h <= k /\ n <= m
  BY ConsCastsNext
<1>5. s \in ConsReader /\ ConsStream(s, n, h)
  BY DEF ConsReaders
<1> HIDE DEF h, k, n, m, s
<1>6. ConsStream(s, m, k)
  BY <1>2, <1>3, <1>4, <1>5, ConsStreamKept
<1> QED BY <1>6 DEF s, m, k

\* One stream gets another state.
LEMMA ConsReaderSet ==
    ASSUME Cons!ConstantsOK, ConsText, ConsCasts, ConsReaders, [Cons!Next]_Cons!vars,
           NEW r \in Readers, NEW c \in Cons!Channels, NEW new \in ConsReader,
           reader' = [reader EXCEPT ![r] = new], new.channel = c,
           ConsStream(new, Len(cast'[c]), Cons!History(c)')
    PROVE  ConsReaders'
<1>1. reader' \in [Readers -> ConsReader] /\ reader'[r] = new
      /\ \A p \in Readers \ {r} : reader'[p] = reader[p]
  BY DEF ConsReaders
<1>2. ASSUME NEW p \in Readers, NEW d \in Cons!Channels, reader'[p].channel = d
      PROVE  ConsStream(reader'[p], Len(cast'[d]), Cons!History(d)')
  <2>1. CASE p = r
    BY <1>1, <1>2, <2>1
  <2>2. CASE p # r
    BY <1>1, <1>2, <2>2, ConsReadersKept
  <2> QED BY <2>1, <2>2
<1> QED BY <1>1, <1>2 DEF ConsReaders

LEMMA ConsOpens ==
    ASSUME Cons!ConstantsOK, ConsText, ConsCasts, ConsReaders,
           NEW r \in Readers, NEW c \in Cons!Channels, NEW h \in BOOLEAN, Cons!Open(r, c, h)
    PROVE  ConsReaders'
<1> DEFINE n == Len(cast[c])
           m == Cons!History(c)
           all == [i \in 1..m |-> i]
           f == IF h THEN 1 ELSE n + 1
           g == IF h THEN all ELSE <<>>
           new == [channel |-> c, history |-> h, next |-> n, lagged |-> FALSE,
                   first |-> f, got |-> g]
<1>1. n \in Nat /\ m \in {n, n + 1} /\ m \in Nat
  BY ConsHistory
<1>2. reader' = [reader EXCEPT ![r] = new]
  BY DEF Cons!Open, Cons!Position, Cons!NewReceiver
<1>3. UNCHANGED Cons!taskVars
  BY DEF Cons!Open
<1>4. Len(cast'[c]) = n /\ Cons!History(c)' = m
  BY <1>3 DEF Cons!taskVars, Cons!History
<1> HIDE DEF m
<1>5. all \in Seq(Nat) /\ Len(all) = m /\ \A i \in 1..m : all[i] = i
  BY <1>1, IsASeq
<1> HIDE DEF n, all
<1>7. g \in Seq(Nat) /\ f \in Nat \ {0} /\ f <= n + 1
  BY <1>1, <1>5, EmptyFacts
<1>8. ConsGot(g, f, n, m)
  <2>1. CASE ~h
    <3>1. g = <<>> /\ Len(g) = 0 /\ f = n + 1
      BY <2>1, EmptyFacts
    <3>2. Len(g) = n - f + 1 /\ \A i \in 1..Len(g) : g[i] = f + i - 1
      BY <3>1, <1>1
    <3> QED BY <3>2 DEF ConsGot
  <2>2. CASE h /\ m = n
    <3>1. g = all /\ f = 1 /\ Len(g) = n
      BY <2>2, <1>5
    <3>2. Len(g) = n - f + 1 /\ \A i \in 1..Len(g) : g[i] = f + i - 1
      BY <3>1, <1>1, <1>5, <2>2
    <3> QED BY <3>2 DEF ConsGot
  <2>3. CASE h /\ m = n + 1
    <3>1. g = all /\ f = 1 /\ Len(g) = m
      BY <2>3, <1>5
    <3>2. m \in f..m /\ m <= n + 1 /\ Len(g) = n - f + 2
      BY <2>3, <1>1, <3>1
    <3>3. ASSUME NEW i \in 1..Len(g)
          PROVE  g[i] = IF i <= m - f + 1 THEN f + i - 1 ELSE f + i - 2
      <4>1. g[i] = i /\ i \in Nat /\ i <= m
        BY <3>1, <1>1, <1>5
      <4> QED BY <4>1, <3>1, <1>1
    <3> QED BY <3>2, <3>3 DEF ConsGot
  <2> QED BY <1>1, <2>1, <2>2, <2>3
<1> HIDE DEF f, g
<1>10. new \in ConsReader
  BY <1>1, <1>7 DEF ConsReader
<1>11. ConsStream(new, n, m) /\ new.channel = c
  BY <1>1, <1>7, <1>8 DEF ConsStream
<1> HIDE DEF new
<1>12. Cons!Next
  BY DEF Cons!Next
<1> QED BY <1>2, <1>4, <1>10, <1>11, <1>12, ConsReaderSet

\* A stream gets one more.
LEMMA ConsGotMore ==
    ASSUME NEW got \in Seq(Nat), NEW from \in Nat \ {0}, NEW next \in Nat, NEW h \in Nat,
           from <= next + 1, ConsGot(got, from, next, h)
    PROVE  /\ Append(got, next + 1) \in Seq(Nat)
           /\ ConsGot(Append(got, next + 1), from, next + 1, h)
<1> DEFINE a == Append(got, next + 1)
           g == Len(got)
<1>1. /\ a \in Seq(Nat) /\ Len(a) = g + 1 /\ a[g + 1] = next + 1
      /\ g \in Nat /\ \A i \in 1..g : a[i] = got[i]
  BY AppendFacts, QueueFacts
<1> HIDE DEF a, g
<1>2. CASE g = next - from + 1 /\ \A i \in 1..g : got[i] = from + i - 1
  <2>1. Len(a) = next + 1 - from + 1
    BY <1>1, <1>2
  <2>2. ASSUME NEW i \in 1..Len(a) PROVE a[i] = from + i - 1
    <3>1. CASE i = g + 1
      BY <3>1, <1>1, <1>2
    <3>2. CASE i \in 1..g
      BY <3>2, <1>1, <1>2
    <3> QED BY <1>1, <3>1, <3>2
  <2> QED BY <1>1, <2>1, <2>2 DEF ConsGot, a
<1>3. ASSUME NEW k \in from..h, k <= next + 1, g = next - from + 2,
             \A i \in 1..g :
                got[i] = IF i <= k - from + 1 THEN from + i - 1 ELSE from + i - 2
      PROVE  ConsGot(a, from, next + 1, h)
  <2>1. k <= (next + 1) + 1 /\ Len(a) = (next + 1) - from + 2
    BY <1>1, <1>3
  <2>2. ASSUME NEW i \in 1..Len(a)
        PROVE  a[i] = IF i <= k - from + 1 THEN from + i - 1 ELSE from + i - 2
    <3>1. CASE i = g + 1
      <4>1. a[i] = next + 1 /\ i = next - from + 3
        BY <3>1, <1>1, <1>3
      <4> QED BY <4>1, <1>3
    <3>2. CASE i \in 1..g
      <4>1. a[i] = got[i]
        BY <3>2, <1>1
      <4> QED BY <4>1, <3>2, <1>3
    <3> QED BY <1>1, <3>1, <3>2
  <2>3. \E j \in from..h :
           /\ j <= (next + 1) + 1
           /\ Len(a) = (next + 1) - from + 2
           /\ \A i \in 1..Len(a) : a[i] = IF i <= j - from + 1 THEN from + i - 1 ELSE from + i - 2
    BY <2>1, <2>2
  <2> QED BY <2>3, Zenon DEF ConsGot
<1> QED BY <1>1, <1>2, <1>3 DEF ConsGot, a, g

LEMMA ConsReads ==
    ASSUME Cons!ConstantsOK, ConsText, ConsCasts, ConsReaders,
           NEW r \in Readers, Cons!ReadNext(r)
    PROVE  ConsReaders'
<1>0. PICK s \in ConsReader : s = reader[r]
  BY DEF ConsReaders
<1>1. PICK c \in Cons!Channels : s.channel = c
  BY <1>0 DEF Cons!ReadNext, ConsReader
<1>2. PICK n \in Nat : s.next = n
  BY DEF ConsReader
<1>3. PICK got \in Seq(Nat) : s.got = got
  BY DEF ConsReader
<1>4. PICK from \in Nat \ {0} : s.first = from
  BY DEF ConsReader
<1>5. Cons!Next /\ UNCHANGED Cons!taskVars
  BY DEF Cons!Next, Cons!ReadNext
<1>6. cast' = cast /\ Cons!History(c)' = Cons!History(c)
  BY <1>5 DEF Cons!taskVars, Cons!History
<1> DEFINE h == Cons!History(c)
           m == Len(cast[c])
<1>7. h \in Nat /\ m \in Nat /\ \A i \in 1..m : cast[c][i] = i
  BY ConsHistory
<1>8. /\ n <= m /\ from <= n + 1
      /\ ~s.lagged => ConsGot(got, from, n, h)
  BY <1>0, <1>1, <1>2, <1>3, <1>4 DEF ConsStream, ConsReaders
<1>9. Len(cast'[c]) = m /\ Cons!History(c)' = h
  BY <1>6
<1>10. \/ /\ Cons!Ready(cast[c], Capacity, n)
          /\ reader' = [reader EXCEPT ![r].next = n + 1,
                                      ![r].got = Append(@, Cons!Message(cast[c], n))]
       \/ /\ Cons!Overflowed(cast[c], Capacity, n)
          /\ reader' = [reader EXCEPT ![r].next = Cons!Dropped(cast[c], Capacity),
                                      ![r].lagged = TRUE]
  BY <1>0, <1>1, <1>2 DEF Cons!ReadNext
<1> HIDE DEF h
<1>11. CASE Cons!Ready(cast[c], Capacity, n) /\
           reader' = [reader EXCEPT ![r].next = n + 1,
                                    ![r].got = Append(@, Cons!Message(cast[c], n))]
  <2>1. n + 1 \in 1..m /\ n + 1 <= m
    BY <1>7, <1>11 DEF Cons!Ready
  <2>2. Cons!Message(cast[c], n) = n + 1
    BY <1>7, <2>1 DEF Cons!Message
  <2> HIDE DEF m
  <2> DEFINE more == Append(got, n + 1)
  <2>3. more \in Seq(Nat) /\ (~s.lagged => ConsGot(more, from, n + 1, h))
    BY <1>7, <1>8, ConsGotMore, AppendFacts
  <2>4. reader' = [reader EXCEPT ![r] = [s EXCEPT !.next = n + 1, !.got = more]]
    BY <1>0, <1>3, <1>11, <2>2 DEF ConsReaders
  <2> HIDE DEF more
  <2> DEFINE new == [s EXCEPT !.next = n + 1, !.got = more]
  <2>5. new \in ConsReader
    BY <2>3, n + 1 \in Nat DEF ConsReader
  <2>6. /\ new.channel = c /\ new.next = n + 1 /\ new.first = from
        /\ new.lagged = s.lagged /\ new.got = more
    BY <1>1, <1>4 DEF ConsReader
  <2> HIDE DEF new
  <2>7. from <= n + 1 + 1
    BY <1>8
  <2>8. ConsStream(new, m, h)
    BY <2>1, <2>3, <2>6, <2>7 DEF ConsStream
  <2> QED BY <1>5, <1>9, <2>4, <2>5, <2>6, <2>8, ConsReaderSet DEF new
<1>12. CASE Cons!Overflowed(cast[c], Capacity, n) /\
           reader' = [reader EXCEPT ![r].next = Cons!Dropped(cast[c], Capacity),
                                    ![r].lagged = TRUE]
  <2> DEFINE d == Cons!Dropped(cast[c], Capacity)
  <2>1. d \in Nat /\ n < d /\ d <= m
    BY <1>7, <1>12, ConsConstants DEF Cons!Overflowed, Cons!Dropped
  <2> HIDE DEF d, m
  <2>4. reader' = [reader EXCEPT ![r] = [s EXCEPT !.next = d, !.lagged = TRUE]]
    BY <1>0, <1>12 DEF ConsReaders, d
  <2> DEFINE new == [s EXCEPT !.next = d, !.lagged = TRUE]
  <2>5. new \in ConsReader
    BY <2>1 DEF ConsReader
  <2>6. new.channel = c /\ new.next = d /\ new.first = from /\ new.lagged = TRUE
    BY <1>1, <1>4 DEF ConsReader
  <2> HIDE DEF new
  <2>7. from <= d + 1
    BY <1>8, <2>1
  <2>8. ConsStream(new, m, h)
    BY <2>1, <2>6, <2>7 DEF ConsStream
  <2> QED BY <1>5, <1>9, <2>4, <2>5, <2>6, <2>8, ConsReaderSet DEF new
<1> QED BY <1>10, <1>11, <1>12

LEMMA ConsReadersNext ==
    ASSUME Cons!ConstantsOK, ConsText, ConsCasts, ConsReaders, [Cons!Next]_Cons!vars
    PROVE  ConsReaders'
<1>1. CASE UNCHANGED reader
  BY <1>1, ConsReadersKept DEF ConsReaders
<1>2. ASSUME NEW r \in Readers, NEW c \in Cons!Channels, NEW h \in BOOLEAN, Cons!Open(r, c, h)
      PROVE  ConsReaders'
  BY <1>2, ConsOpens
<1>3. ASSUME NEW r \in Readers, Cons!ReadNext(r) PROVE ConsReaders'
  BY <1>3, ConsReads
<1>4. ASSUME Cons!Task \/ Cons!Lose \/ (\E x \in Texts : Cons!Arrive(x)) \/ UNCHANGED Cons!vars
      PROVE  UNCHANGED reader
  BY <1>4 DEF Cons!Task, Cons!Lose, Cons!Arrive, Cons!vars, Cons!Keep, Cons!CastText,
              Cons!CutLine, Cons!CastLine, Cons!TaskEnds
<1> QED BY <1>1, <1>2, <1>3, <1>4 DEF Cons!Next
-----------------------------------------------------------------------------
(* Console: what the streams give *)

\* What was given, with what is still in the channel and what is not yet.
ConsAll(got, log, next, n, h) ==
    got \o SubSeq(log, next + 1, n) \o [i \in 1..(h - n) |-> n + i]
LEMMA ConsRest ==
    ASSUME NEW got \in Seq(Nat), NEW log \in Seq(Nat), NEW next \in Nat, NEW n \in Nat,
           NEW h \in Nat, NEW all, Len(log) = n, next <= n, n <= h,
           \A i \in 1..n : log[i] = i,
           all = ConsAll(got, log, next, n, h)
    PROVE  /\ all \in Seq(Nat) /\ Len(all) = Len(got) + (h - next)
           /\ \A i \in 1..Len(all) :
                 all[i] = IF i <= Len(got) THEN got[i] ELSE next + (i - Len(got))
<1> DEFINE g == Len(got)
           d == n - next
           b == SubSeq(log, next + 1, n)
           c == [i \in 1..(h - n) |-> n + i]
<1>1. g \in Nat /\ d \in Nat /\ next + d = n /\ h - n \in Nat
  BY QueueFacts
<1>2. b \in Seq(Nat) /\ Len(b) = d /\ \A i \in 1..d : b[i] = next + i
  <2>1. SubSeq(log, next + 1, next + d) = b
    BY <1>1
  <2> HIDE DEF d, b
  <2>2. /\ SubSeq(log, next + 1, next + d) \in Seq(Nat)
        /\ Len(SubSeq(log, next + 1, next + d)) = d
        /\ \A i \in 1..d : /\ SubSeq(log, next + 1, next + d)[i] = log[next + i]
                           /\ next + i \in 1..Len(log)
    BY <1>1, PartFacts
  <2>3. \A i \in 1..d : next + i \in 1..n /\ log[next + i] = next + i
    BY <2>2
  <2> QED BY <2>1, <2>2, <2>3
<1>3. c \in Seq(Nat) /\ Len(c) = h - n /\ \A i \in 1..(h - n) : c[i] = n + i
  BY <1>1, IsASeq
<1> HIDE DEF b, c
<1> DEFINE a == got \o b
<1>4. /\ a \in Seq(Nat) /\ Len(a) = g + d
      /\ \A i \in 1..(g + d) : a[i] = IF i <= g THEN got[i] ELSE next + (i - g)
  <2>1. /\ a \in Seq(Nat) /\ Len(a) = g + Len(b)
        /\ \A i \in 1..(g + Len(b)) : a[i] = IF i <= g THEN got[i] ELSE b[i - g]
    BY <1>2, ConcatProperties
  <2> HIDE DEF a, g, d
  <2>2. ASSUME NEW i \in 1..(g + d), ~(i <= g) PROVE b[i - g] = next + (i - g)
    <3>1. i - g \in 1..d
      BY <1>1, <2>2
    <3> QED BY <3>1, <1>2
  <2> QED BY <2>1, <2>2, <1>2
<1> HIDE DEF a
<1> DEFINE s == a \o c
<1>5. /\ s \in Seq(Nat) /\ Len(s) = Len(a) + Len(c)
      /\ \A i \in 1..(Len(a) + Len(c)) : s[i] = IF i <= Len(a) THEN a[i] ELSE c[i - Len(a)]
  <2>1. a \in Seq(Nat) /\ c \in Seq(Nat)
    BY <1>3, <1>4
  <2> QED BY <2>1, ConcatProperties
<1> HIDE DEF s, g, d
<1>6. Len(s) = g + (h - next)
  BY <1>1, <1>3, <1>4, <1>5
<1>7. ASSUME NEW i \in 1..Len(s)
      PROVE  s[i] = IF i <= g THEN got[i] ELSE next + (i - g)
  <2>1. CASE i <= g + d
    <3>1. s[i] = a[i] /\ i \in 1..(g + d)
      <4>1. Len(a) = g + d /\ Len(c) = h - n /\ i <= Len(a)
        BY <2>1, <1>3, <1>4
      <4>2. i \in 1..(Len(a) + Len(c)) /\ i \in 1..(g + d)
        BY <4>1, <1>1, <1>5
      <4> QED BY <4>1, <4>2, <1>5
    <3> QED BY <3>1, <1>4
  <2>2. CASE ~(i <= g + d)
    <3> DEFINE j == i - (g + d)
    <3>1. j \in 1..(h - n) /\ n + j = next + (i - g) /\ ~(i <= g)
      BY <2>2, <1>1, <1>6
    <3>2. s[i] = c[j]
      BY <2>2, <1>3, <1>4, <1>5
    <3> HIDE DEF j
    <3>3. c[j] = n + j
      BY <3>1, <1>3
    <3> QED BY <3>1, <3>2, <3>3
  <2> QED BY <2>1, <2>2
<1>8. s = all
  BY DEF s, a, b, c, ConsAll
<1> QED BY <1>5, <1>6, <1>7, <1>8 DEF g

\* All of it once is a sequence without a gap, and so is it with one of it
\* twice.
LEMMA ConsSeamed ==
    ASSUME NEW s \in Seq(Nat), NEW from \in Nat \ {0}, NEW h \in Nat, from <= h + 1,
           \/ /\ Len(s) = h - from + 1
              /\ \A i \in 1..Len(s) : s[i] = from + i - 1
           \/ \E k \in from..h :
                 /\ Len(s) = h - from + 2
                 /\ \A i \in 1..Len(s) :
                       s[i] = IF i <= k - from + 1 THEN from + i - 1 ELSE from + i - 2
    PROVE  Cons!Seamed(s, from, h)
<1> DEFINE l == h - from + 1
           w == [i \in 1..(h - from + 1) |-> from + i - 1]
<1>1. l \in Nat
  OBVIOUS
<1>2. w \in Seq(Nat) /\ Len(w) = l /\ \A i \in 1..l : w[i] = from + i - 1
  <2>1. \A i \in 1..l : from + i - 1 \in Nat
    OBVIOUS
  <2> QED BY <1>1, <2>1, IsASeq
<1>3. CASE Len(s) = l /\ \A i \in 1..Len(s) : s[i] = from + i - 1
  <2> HIDE DEF w, l
  <2>1. w \in Seq(Nat) /\ Len(s) = Len(w) /\ \A i \in 1..Len(s) : s[i] = w[i]
    BY <1>2, <1>3
  <2>2. s = w
    BY <2>1, SeqEqual
  <2> QED BY <2>2, Zenon DEF Cons!Seamed, w
<1>4. ASSUME NEW k \in from..h, Len(s) = h - from + 2,
             \A i \in 1..Len(s) :
                s[i] = IF i <= k - from + 1 THEN from + i - 1 ELSE from + i - 2
      PROVE  Cons!Seamed(s, from, h)
  <2> DEFINE p == k - from + 1
             e == k - from
             x == SubSeq(w, 1, p)
             y == SubSeq(w, p, l)
             t == x \o y
  <2>1. p \in 1..l /\ p \in 0..Len(w) /\ e \in Nat /\ p = e + 1 /\ l - e \in Nat
        /\ e + (l - e) = l
    BY <1>1, <1>2
  <2> HIDE DEF w
  <2>2. x \in Seq(Nat) /\ Len(x) = p /\ \A i \in 1..p : x[i] = w[i]
    BY <1>2, <2>1, PrefixFacts
  <2>3. y \in Seq(Nat) /\ Len(y) = l - e /\ \A i \in 1..(l - e) : y[i] = w[e + i]
    <3> DEFINE u == l - e
    <3>1. y = SubSeq(w, e + 1, e + u) /\ u \in Nat /\ e + u <= Len(w)
      BY <1>2, <2>1
    <3> HIDE DEF u, e, y
    <3>2. /\ SubSeq(w, e + 1, e + u) \in Seq(Nat) /\ Len(SubSeq(w, e + 1, e + u)) = u
          /\ \A i \in 1..u : SubSeq(w, e + 1, e + u)[i] = w[e + i]
      <4>1. w \in Seq(Nat) /\ e \in Nat /\ u \in Nat /\ e + u <= Len(w)
        BY <1>2, <2>1, <3>1
      <4>2. PICK v \in Seq(Nat), d \in Nat, n \in Nat : v = w /\ d = e /\ n = u
        BY <4>1
      <4>3. d + n <= Len(v)
        BY <4>1, <4>2
      <4>4. /\ SubSeq(v, d + 1, d + n) \in Seq(Nat) /\ Len(SubSeq(v, d + 1, d + n)) = n
            /\ \A i \in 1..n : SubSeq(v, d + 1, d + n)[i] = v[d + i]
        BY <4>3, PartFacts
      <4> QED BY <4>2, <4>4
    <3> QED BY <3>1, <3>2 DEF u
  <2> HIDE DEF x, y
  <2>4. /\ t \in Seq(Nat) /\ Len(t) = p + (l - e)
        /\ \A i \in 1..Len(t) : t[i] = IF i <= p THEN x[i] ELSE y[i - p]
    <3>1. x \in Seq(Nat) /\ y \in Seq(Nat)
      BY <2>2, <2>3
    <3>2. /\ t \in Seq(Nat) /\ Len(t) = Len(x) + Len(y)
          /\ \A i \in 1..(Len(x) + Len(y)) : t[i] = IF i <= Len(x) THEN x[i] ELSE y[i - Len(x)]
      BY <3>1, ConcatProperties
    <3> HIDE DEF t, l, e, p
    <3> QED BY <3>2, <2>2, <2>3
  <2> HIDE DEF t
  <2>5. Len(t) = Len(s)
    BY <2>1, <2>4, <1>4
  <2>6. ASSUME NEW i \in 1..Len(s) PROVE s[i] = t[i]
    <3>1. CASE i <= p
      <4>1. i \in 1..p /\ i \in 1..l /\ t[i] = x[i]
        BY <3>1, <2>1, <2>4, <2>5
      <4>2. t[i] = from + i - 1
        BY <4>1, <2>2, <1>2
      <4> QED BY <3>1, <4>2, <1>4
    <3>2. CASE ~(i <= p)
      <4> DEFINE j == i - p
      <4>1. j \in 1..(l - e) /\ e + j = i - 1 /\ i - 1 \in 1..l /\ t[i] = y[j]
        BY <3>2, <2>1, <2>4, <2>5
      <4> HIDE DEF j
      <4>2. y[j] = w[i - 1]
        BY <4>1, <2>3
      <4> DEFINE m == i - 1
      <4>3. m \in 1..l /\ from + m - 1 = from + i - 2
        BY <4>1
      <4> HIDE DEF m
      <4>4. w[m] = from + m - 1
        BY <4>3, <1>2
      <4>5. t[i] = from + i - 2
        BY <4>1, <4>2, <4>3, <4>4 DEF m
      <4> QED BY <3>2, <4>5, <1>4
    <3> QED BY <3>1, <3>2
  <2>7. s = t
    BY <2>4, <2>5, <2>6, SeqEqual
  <2>8. s = SubSeq(w, 1, k - from + 1) \o SubSeq(w, k - from + 1, Len(w))
    BY <2>7, <1>2 DEF t, x, y
  <2> QED BY <2>8, Zenon DEF Cons!Seamed, w
<1> HIDE DEF w
<1> QED BY <1>3, <1>4

LEMMA ConsGapless == ASSUME Cons!ConstantsOK, ConsInv PROVE Cons!Gapless
<1> SUFFICES ASSUME NEW r \in Readers, reader[r].channel # "none", ~reader[r].lagged
             PROVE  Cons!Seamed(Cons!Given(r), reader[r].first,
                                Cons!History(reader[r].channel))
  BY DEF Cons!Gapless
<1>0. PICK s \in ConsReader : s = reader[r]
  BY DEF ConsInv, ConsReaders
<1>1. PICK c \in Cons!Channels : s.channel = c
  BY <1>0 DEF ConsReader
<1>2. PICK next \in Nat : s.next = next
  BY DEF ConsReader
<1>3. PICK got \in Seq(Nat) : s.got = got
  BY DEF ConsReader
<1>4. PICK from \in Nat \ {0} : s.first = from
  BY DEF ConsReader
<1>5. PICK h \in Nat : h = Cons!History(c)
  BY ConsHistory DEF ConsInv
<1>6. PICK log \in Seq(Nat) : log = cast[c]
  BY ConsHistory DEF ConsInv
<1>7. PICK n \in Nat : n = Len(log)
  BY QueueFacts
<1>8. h \in {n, n + 1} /\ \A i \in 1..n : log[i] = i
  BY <1>5, <1>6, <1>7, ConsHistory DEF ConsInv
<1>9. next <= n /\ from <= next + 1 /\ ConsGot(got, from, next, h)
  BY <1>0, <1>1, <1>2, <1>3, <1>4, <1>5, <1>6, <1>7
     DEF ConsInv, ConsReaders, ConsStream
<1> DEFINE t == ConsAll(got, log, next, n, h)
           g == Len(got)
<1>10. Cons!Given(r) = t
  BY <1>0, <1>1, <1>2, <1>3, <1>5, <1>6, <1>7 DEF Cons!Given, ConsAll
<1>11. /\ t \in Seq(Nat) /\ Len(t) = g + (h - next)
       /\ \A i \in 1..Len(t) : t[i] = IF i <= g THEN got[i] ELSE next + (i - g)
  <2>1. Len(log) = n /\ next <= n /\ n <= h /\ \A i \in 1..n : log[i] = i
    BY <1>7, <1>8, <1>9
  <2>2. t = ConsAll(got, log, next, n, h)
    OBVIOUS
  <2> HIDE DEF t
  <2> HIDE DEF g
  <2>3. /\ t \in Seq(Nat) /\ Len(t) = Len(got) + (h - next)
        /\ \A i \in 1..Len(t) : t[i] = IF i <= Len(got) THEN got[i] ELSE next + (i - Len(got))
    BY <2>1, <2>2, ConsRest
  <2> QED BY <2>3 DEF g
<1>12. g \in Nat /\ from <= h + 1
  BY <1>8, <1>9, QueueFacts
<1> HIDE DEF t
<1>13. Cons!Seamed(t, from, h)
  <2>1. CASE g = next - from + 1 /\ \A i \in 1..g : got[i] = from + i - 1
    <3> HIDE DEF g
    <3>1. Len(t) = h - from + 1
      BY <2>1, <1>11
    <3>2. ASSUME NEW i \in 1..Len(t) PROVE t[i] = from + i - 1
      <4>1. CASE i <= g
        BY <4>1, <2>1, <1>11, <1>12
      <4>2. CASE ~(i <= g)
        BY <4>2, <2>1, <1>11, <1>12
      <4> QED BY <4>1, <4>2
    <3> QED BY <3>1, <3>2, <1>11, <1>12, ConsSeamed
  <2>2. ASSUME NEW k \in from..h, k <= next + 1, g = next - from + 2,
               \A i \in 1..g :
                  got[i] = IF i <= k - from + 1 THEN from + i - 1 ELSE from + i - 2
        PROVE  Cons!Seamed(t, from, h)
    <3> HIDE DEF g
    <3>1. Len(t) = h - from + 2
      BY <2>2, <1>11
    <3>2. ASSUME NEW i \in 1..Len(t)
          PROVE  t[i] = IF i <= k - from + 1 THEN from + i - 1 ELSE from + i - 2
      <4>1. CASE i <= g
        BY <4>1, <2>2, <1>11, <1>12
      <4>2. CASE ~(i <= g)
        <5>1. ~(i <= k - from + 1) /\ t[i] = next + (i - g) /\ next + (i - g) = from + i - 2
          BY <4>2, <2>2, <1>11, <1>12
        <5> QED BY <5>1
      <4> QED BY <4>1, <4>2
    <3> QED BY <3>1, <3>2, <1>11, <1>12, ConsSeamed
  <2> QED BY <1>9, <2>1, <2>2 DEF ConsGot
<1> QED BY <1>0, <1>1, <1>4, <1>5, <1>10, <1>13

-----------------------------------------------------------------------------
(* Console: the theorem *)

LEMMA ConsStep ==
    ASSUME Cons!ConstantsOK, ConsInv, [Cons!Next]_Cons!vars
    PROVE  ConsInv'
BY ConsTextNext, ConsCastsNext, ConsReadersNext DEF ConsInv

\* Neither a stream nor a line of the console loses any text.
THEOREM StreamsAreWhole == Cons!ConstantsOK => (Cons!Spec => []StreamsWhole)
<1> SUFFICES ASSUME Cons!ConstantsOK PROVE Cons!Spec => []StreamsWhole
  OBVIOUS
<1>1. Cons!Init => ConsInv
  BY ConsTextInit, ConsCastsInit, ConsReadersInit DEF ConsInv
<1>2. ConsInv /\ [Cons!Next]_Cons!vars => ConsInv'
  BY ConsStep
<1>3. ConsInv => StreamsWhole
  BY ConsGapless DEF ConsInv, ConsText, StreamsWhole, Cons!StreamsWhole
<1> QED BY <1>1, <1>2, <1>3, PTL DEF Cons!Spec

-----------------------------------------------------------------------------
(* Commands: bytes *)

\* One payload after the other; by name, for the provers.
CommJoin(x, y) == x \o y

LEMMA CommJoins ==
    ASSUME NEW x \in Seq(Int), NEW y \in Seq(Int)
    PROVE  /\ CommJoin(x, y) \in Seq(Int) /\ Len(CommJoin(x, y)) = Len(x) + Len(y)
           /\ \A i \in 1..Len(x) : CommJoin(x, y)[i] = x[i]
           /\ \A i \in 1..Len(y) : CommJoin(x, y)[Len(x) + i] = y[i]
<1>1. /\ CommJoin(x, y) \in Seq(Int) /\ Len(CommJoin(x, y)) = Len(x) + Len(y)
      /\ \A i \in 1..(Len(x) + Len(y)) :
            CommJoin(x, y)[i] = IF i <= Len(x) THEN x[i] ELSE y[i - Len(x)]
  BY ConcatProperties DEF CommJoin
<1>2. Len(x) \in Nat /\ Len(y) \in Nat
  BY QueueFacts
<1>3. ASSUME NEW i \in 1..Len(x) PROVE CommJoin(x, y)[i] = x[i]
  BY <1>1, <1>2
<1>4. ASSUME NEW i \in 1..Len(y) PROVE CommJoin(x, y)[Len(x) + i] = y[i]
  <2> DEFINE j == Len(x) + i
  <2>1. j \in 1..(Len(x) + Len(y)) /\ ~(j <= Len(x)) /\ j - Len(x) = i
    BY <1>2
  <2> HIDE DEF j
  <2>2. CommJoin(x, y)[j] = y[j - Len(x)]
    BY <1>1, <2>1
  <2> QED BY <2>1, <2>2 DEF j
<1> QED BY <1>1, <1>3, <1>4

\* Two payloads are one only if their parts are, when these are as long.
LEMMA CommPeel ==
    ASSUME NEW x \in Seq(Int), NEW y \in Seq(Int), NEW v \in Seq(Int), NEW w \in Seq(Int),
           CommJoin(x, y) = CommJoin(v, w), Len(x) = Len(v) \/ Len(y) = Len(w)
    PROVE  x = v /\ y = w
<1>1. /\ Len(x) \in Nat /\ Len(y) \in Nat /\ Len(v) \in Nat /\ Len(w) \in Nat
      /\ Len(x) + Len(y) = Len(v) + Len(w)
  <2>1. Len(CommJoin(x, y)) = Len(x) + Len(y)
    BY CommJoins
  <2>2. Len(CommJoin(v, w)) = Len(v) + Len(w)
    BY CommJoins
  <2> QED BY <2>1, <2>2, QueueFacts
<1>2. Len(x) = Len(v) /\ Len(y) = Len(w)
  BY <1>1
<1>3. \A i \in 1..Len(x) : x[i] = v[i]
  <2>1. \A i \in 1..Len(x) : CommJoin(x, y)[i] = x[i]
    BY CommJoins
  <2>2. \A i \in 1..Len(v) : CommJoin(v, w)[i] = v[i]
    BY CommJoins
  <2> QED BY <1>2, <2>1, <2>2
<1>4. \A i \in 1..Len(y) : y[i] = w[i]
  <2>1. \A i \in 1..Len(y) : CommJoin(x, y)[Len(x) + i] = y[i]
    BY CommJoins
  <2>2. \A i \in 1..Len(w) : CommJoin(v, w)[Len(v) + i] = w[i]
    BY CommJoins
  <2> QED BY <1>2, <2>1, <2>2
<1> QED BY <1>2, <1>3, <1>4, SeqEqual

LEMMA CommBytesType ==
    ASSUME NEW n \in Int, NEW size \in Nat, size <= 4
    PROVE  Comm!Bytes(n, size) \in Seq(Int) /\ Len(Comm!Bytes(n, size)) = size
<1>1. ASSUME NEW k \in 1..size PROVE (n \div Comm!Places[k]) % 256 \in Int
  <2>1. Comm!Places[k] \in {1, 256, 65536, 16777216}
    BY SMT DEF Comm!Places
  <2> QED BY <2>1, SMT
<1> QED BY <1>1, IsASeq, SMT DEF Comm!Bytes

LEMMA CommTwoBytes ==
    ASSUME NEW n \in Nat
    PROVE  Comm!Bytes(n, 2) \in Seq(Int) /\ Len(Comm!Bytes(n, 2)) = 2
<1> DEFINE size == 2
<1>1. n \in Int /\ size \in Nat /\ size <= 4
  OBVIOUS
<1> HIDE DEF size
<1>2. Comm!Bytes(n, size) \in Seq(Int) /\ Len(Comm!Bytes(n, size)) = size
  BY <1>1, CommBytesType, SMT
<1> QED BY <1>2 DEF size

LEMMA CommBytes ==
    ASSUME NEW n \in Int, NEW size \in {2, 4}
    PROVE  /\ Comm!Bytes(n, size) \in Seq(Int) /\ Len(Comm!Bytes(n, size)) = size
           /\ Comm!Bytes(n, size)[1] = n % 256
           /\ Comm!Bytes(n, size)[2] = (n \div 256) % 256
           /\ size = 4 => Comm!Bytes(n, size)[3] = (n \div 65536) % 256
           /\ size = 4 => Comm!Bytes(n, size)[4] = (n \div 16777216) % 256
<1>1. ASSUME NEW k \in 1..size PROVE (n \div Comm!Places[k]) % 256 \in Int
  <2>1. Comm!Places[k] \in {1, 256, 65536, 16777216}
    BY SMT DEF Comm!Places
  <2> QED BY <2>1, SMT
<1>2. Comm!Bytes(n, size) \in Seq(Int) /\ Len(Comm!Bytes(n, size)) = size
  BY <1>1, IsASeq, SMT DEF Comm!Bytes
<1>3. n \div 1 = n
  BY SMT
<1>4. \A k \in 1..size : Comm!Bytes(n, size)[k] = (n \div Comm!Places[k]) % 256
  BY SMT DEF Comm!Bytes
<1>5. Comm!Places[1] = 1 /\ Comm!Places[2] = 256 /\ Comm!Places[3] = 65536
      /\ Comm!Places[4] = 16777216
  BY SMT DEF Comm!Places
<1>6. 1 \in 1..size /\ 2 \in 1..size /\ (size = 4 => 3 \in 1..size /\ 4 \in 1..size)
  BY SMT
<1>7. /\ Comm!Bytes(n, size)[1] = (n \div Comm!Places[1]) % 256
      /\ Comm!Bytes(n, size)[2] = (n \div Comm!Places[2]) % 256
  BY <1>4, <1>6, Zenon
<1>8. size = 4 => /\ Comm!Bytes(n, size)[3] = (n \div Comm!Places[3]) % 256
                  /\ Comm!Bytes(n, size)[4] = (n \div Comm!Places[4]) % 256
  BY <1>4, <1>6, Zenon
<1>9. /\ Comm!Bytes(n, size)[1] = n % 256
      /\ Comm!Bytes(n, size)[2] = (n \div 256) % 256
  BY <1>3, <1>5, <1>7, SMT
<1>10. size = 4 => /\ Comm!Bytes(n, size)[3] = (n \div 65536) % 256
                   /\ Comm!Bytes(n, size)[4] = (n \div 16777216) % 256
  BY <1>5, <1>8, SMT
<1> QED BY <1>2, <1>9, <1>10, SMT

\* The bytes of a number tell it.
LEMMA CommFloat ==
    ASSUME NEW v \in Comm!FloatBits
    PROVE  Comm!Float(v) \in Seq(Int) /\ Len(Comm!Float(v)) = 4
<1>1. v \in Int
  BY SMT DEF Comm!FloatBits
<1> QED BY <1>1, CommBytes, SMT DEF Comm!Float

LEMMA CommFloatTold ==
    ASSUME NEW v \in Comm!FloatBits, NEW w \in Comm!FloatBits,
           \A j \in 1..4 : Comm!Float(v)[j] = Comm!Float(w)[j]
    PROVE  v = w
<1>1. v \in Int /\ w \in Int
  BY SMT DEF Comm!FloatBits
<1>2. /\ -Comm!FloatMax <= v /\ v <= Comm!FloatMax
      /\ -Comm!FloatMax <= w /\ w <= Comm!FloatMax
  BY SMT DEF Comm!FloatBits
<1>3. /\ -2147483647 <= v /\ v <= 2147483647
      /\ -2147483647 <= w /\ w <= 2147483647
  BY <1>1, <1>2, SMT DEF Comm!FloatMax
<1>4. /\ Comm!Float(v)[1] = v % 256 /\ Comm!Float(v)[2] = (v \div 256) % 256
      /\ Comm!Float(v)[3] = (v \div 65536) % 256
      /\ Comm!Float(v)[4] = (v \div 16777216) % 256
  BY <1>1, CommBytes, SMT DEF Comm!Float
<1>5. /\ Comm!Float(w)[1] = w % 256 /\ Comm!Float(w)[2] = (w \div 256) % 256
      /\ Comm!Float(w)[3] = (w \div 65536) % 256
      /\ Comm!Float(w)[4] = (w \div 16777216) % 256
  BY <1>1, CommBytes, SMT DEF Comm!Float
<1>6. /\ v % 256 = w % 256
      /\ (v \div 256) % 256 = (w \div 256) % 256
      /\ (v \div 65536) % 256 = (w \div 65536) % 256
      /\ (v \div 16777216) % 256 = (w \div 16777216) % 256
  <2>1. 1 \in 1..4 /\ 2 \in 1..4 /\ 3 \in 1..4 /\ 4 \in 1..4
    BY SMT
  <2> QED BY <1>4, <1>5, <2>1, SMT
<1> QED BY <1>1, <1>3, <1>6, SMT

LEMMA CommLowBytes ==
    ASSUME NEW n \in Int, NEW size \in Nat, size >= 2
    PROVE  /\ Comm!Bytes(n, size)[1] = n % 256
           /\ Comm!Bytes(n, size)[2] = (n \div 256) % 256
<1>1. \A k \in 1..size : Comm!Bytes(n, size)[k] = (n \div Comm!Places[k]) % 256
  BY SMT DEF Comm!Bytes
<1>2. Comm!Places[1] = 1 /\ Comm!Places[2] = 256
  BY SMT DEF Comm!Places
<1>3. 1 \in 1..size /\ 2 \in 1..size
  BY SMT
<1>4. /\ Comm!Bytes(n, size)[1] = (n \div Comm!Places[1]) % 256
      /\ Comm!Bytes(n, size)[2] = (n \div Comm!Places[2]) % 256
  BY <1>1, <1>3, Zenon
<1>5. n \div 1 = n
  BY SMT
<1> QED BY <1>2, <1>4, <1>5, SMT

LEMMA CommBytesTold ==
    ASSUME NEW v \in Nat, NEW w \in Nat, v <= 65535, w <= 65535, NEW size \in Nat, size >= 2,
           Comm!Bytes(v, size) = Comm!Bytes(w, size)
    PROVE  v = w
<1>1. v \in Int /\ w \in Int
  OBVIOUS
<1>2. /\ Comm!Bytes(v, size)[1] = v % 256
      /\ Comm!Bytes(v, size)[2] = (v \div 256) % 256
  BY <1>1, CommLowBytes, SMT
<1>3. /\ Comm!Bytes(w, size)[1] = w % 256
      /\ Comm!Bytes(w, size)[2] = (w \div 256) % 256
  BY <1>1, CommLowBytes, SMT
<1>4. v % 256 = w % 256 /\ (v \div 256) % 256 = (w \div 256) % 256
  BY <1>2, <1>3, SMT
<1> QED BY <1>4, SMT

LEMMA CommFloats ==
    ASSUME NEW n \in Nat, NEW vs, \A i \in 1..n : vs[i] \in Comm!FloatBits
    PROVE  Comm!Floats(vs, n) \in Seq(Int) /\ Len(Comm!Floats(vs, n)) = 4 * n
<1>1. ASSUME NEW k \in 1..(4 * n)
      PROVE  Comm!Float(vs[(k + 3) \div 4])[((k + 3) % 4) + 1] \in Int
  <2> DEFINE i == (k + 3) \div 4
             j == ((k + 3) % 4) + 1
  <2>1. i \in 1..n /\ j \in 1..4
    OBVIOUS
  <2> HIDE DEF i, j
  <2>2. vs[i] \in Comm!FloatBits
    BY <2>1
  <2>3. Comm!Float(vs[i])[j] \in Int
    BY <2>1, <2>2, CommFloat, QueueFacts
  <2> QED BY <2>3 DEF i, j
<1> QED BY <1>1, IsASeq DEF Comm!Floats

LEMMA CommFloatsTold ==
    ASSUME NEW n \in Nat, NEW vs, NEW ws,
           \A i \in 1..n : vs[i] \in Comm!FloatBits /\ ws[i] \in Comm!FloatBits,
           Comm!Floats(vs, n) = Comm!Floats(ws, n)
    PROVE  \A i \in 1..n : vs[i] = ws[i]
<1> SUFFICES ASSUME NEW i \in 1..n PROVE vs[i] = ws[i]
  OBVIOUS
<1>1. ASSUME NEW j \in 1..4 PROVE Comm!Float(vs[i])[j] = Comm!Float(ws[i])[j]
  <2> DEFINE k == 4 * (i - 1) + j
  <2>1. k \in 1..(4 * n) /\ (k + 3) \div 4 = i /\ ((k + 3) % 4) + 1 = j
    OBVIOUS
  <2> HIDE DEF k
  <2>2. Comm!Floats(vs, n)[k] = Comm!Float(vs[i])[j]
    BY <2>1 DEF Comm!Floats
  <2>3. Comm!Floats(ws, n)[k] = Comm!Float(ws[i])[j]
    BY <2>1 DEF Comm!Floats
  <2> QED BY <2>2, <2>3
<1> QED BY <1>1, CommFloatTold

-----------------------------------------------------------------------------
(* Commands: arguments *)

LEMMA CommVariants ==
    ASSUME NEW n \in Nat, NEW c, DOMAIN c = 1..n, \A k \in 1..n : Len(c[k]) \in Nat \ {0},
           NEW a \in Comm!Variants(c)
    PROVE  /\ a = [k \in 1..n |-> a[k]]
           /\ \A k \in 1..n : \E j \in 1..Len(c[k]) : a[k] = c[k][j]
<1>1. PICK at \in {p \in (DOMAIN c) \X (1..10) : p[2] <= Len(c[p[1]])} :
          a = [k \in DOMAIN c |-> IF k = at[1] THEN c[k][at[2]] ELSE c[k][1]]
  BY DEF Comm!Variants
<1>2. at[1] \in 1..n /\ at[2] \in 1..10 /\ at[2] <= Len(c[at[1]])
  BY <1>1
<1>3. ASSUME NEW k \in 1..n PROVE \E j \in 1..Len(c[k]) : a[k] = c[k][j]
  <2>1. CASE k = at[1]
    <3>1. a[k] = c[k][at[2]] /\ at[2] \in 1..Len(c[k])
      BY <1>1, <1>2, <2>1
    <3> QED BY <3>1
  <2>2. CASE k # at[1]
    <3>1. a[k] = c[k][1] /\ 1 \in 1..Len(c[k])
      BY <1>1, <2>2
    <3> QED BY <3>1
  <2> QED BY <2>1, <2>2
<1> QED BY <1>1, <1>3

\* Each argument is one of its choices.
LEMMA CommVariant ==
    ASSUME NEW n \in Nat, NEW c, DOMAIN c = 1..n, \A k \in 1..n : Len(c[k]) \in Nat \ {0},
           NEW a \in Comm!Variants(c), NEW k \in 1..n, NEW S, c[k] \in Seq(S)
    PROVE  a[k] \in S
<1>1. PICK j \in 1..Len(c[k]) : a[k] = c[k][j]
  BY CommVariants
<1> QED BY <1>1, QueueFacts

-----------------------------------------------------------------------------
(* Commands: what the packets that were sent are *)

Num == Comm!FloatBits
CommTuple(m, n) == m = [k \in 1..n |-> m[k]]

\* What each function makes of the meaning of its arguments.
CommRpyt(m, x) ==
    /\ CommTuple(m, 4) /\ m[1] \in Num /\ m[2] \in Num /\ m[3] \in Num
    /\ m[4] \in Nat /\ m[4] <= 65535
    /\ x = CommJoin(Comm!Floats(<<m[1], -m[2], m[3]>>, 3), Comm!Bytes(m[4], 2))
CommFour(m, x, type) ==
    /\ CommTuple(m, 4) /\ \A k \in 1..4 : m[k] \in Num
    /\ x = CommJoin(<<type>>, Comm!Floats(m, 4))
CommManual(m, x) ==
    /\ CommTuple(m, 5) /\ \A k \in 1..3 : m[k] \in Num
    /\ m[4] \in Int /\ -21 <= m[4] /\ m[4] <= 112 /\ m[5] \in BOOLEAN
    /\ x = CommJoin(CommJoin(CommJoin(<<11>>, Comm!Floats(m, 3)),
                             Comm!Bytes(Comm!Thrust16(m[4]), 2)),
                    Comm!Flag(m[5]))
CommBare(m, x, type) == m = <<>> /\ x = <<type>>
CommNotify(m, x) ==
    \E ms \in Nat : m = <<ms>> /\ ms <= 65535 /\ x = CommJoin(<<0>>, Comm!Bytes(ms, 4))
CommMask(m, x) == \E g \in Int : m = <<g>> /\ x = <<0, g>>
CommStop(m, x) == \E g \in Int : m = <<g>> /\ x = CommJoin(<<3>>, <<g>>)
CommTowards(m, x, type) ==
    /\ CommTuple(m, 4) /\ m[1] \in Num /\ m[2] \in Num \union {None} /\ m[3] \in Num
    /\ m[4] \in Int
    /\ x = CommJoin(CommJoin(CommJoin(CommJoin(CommJoin(<<type>>, <<m[4]>>),
                                               Comm!Float(m[1])),
                                      Comm!Float(Comm!Otherwise(m[2], 0))),
                             Comm!Flag(m[2] = None)),
                    Comm!Float(m[3]))
CommPath(m, x, type) ==
    /\ CommTuple(m, 8) /\ \A k \in 1..5 : m[k] \in Num
    /\ m[6] \in BOOLEAN /\ m[7] \in BOOLEAN /\ m[8] \in Int
    /\ x = CommJoin(CommJoin(CommJoin(CommJoin(<<type>>, <<m[8]>>), Comm!Flag(m[6])),
                             Comm!Flag(m[7])),
                    Comm!Floats(m, 5))
CommDefine(m, x) ==
    /\ CommTuple(m, 4) /\ m[1] \in Int /\ m[2] \in Num /\ m[3] \in Int /\ m[4] \in Int
    /\ x = CommJoin(CommJoin(<<6, m[1], 1, m[4]>>, Comm!Float(m[2])), <<m[3]>>)
CommStart(m, x) ==
    /\ CommTuple(m, 6) /\ m[1] \in Int /\ m[2] \in Num
    /\ m[3] \in BOOLEAN /\ m[4] \in BOOLEAN /\ m[5] \in BOOLEAN /\ m[6] \in Int
    /\ x = CommJoin(CommJoin(CommJoin(CommJoin(CommJoin(CommJoin(<<13>>, <<m[6]>>),
                                                        Comm!Flag(m[3])),
                                               Comm!Flag(m[4])),
                                      Comm!Flag(m[5])),
                             <<m[1]>>),
                    Comm!Float(m[2]))
CommPosition(m, x) ==
    /\ CommTuple(m, 3) /\ \A k \in 1..3 : m[k] \in Num
    /\ x = Comm!Floats(m, 3)
CommPose(m, x) ==
    /\ CommTuple(m, 7) /\ \A k \in 1..7 : m[k] \in Num
    /\ x = CommJoin(<<8>>, Comm!Floats(m, 7))
CommLpp(m, x) ==
    /\ CommTuple(m, 2) /\ m[1] \in Int /\ m[2] \in Seq(Int)
    /\ x = CommJoin(<<2, m[1]>>, m[2])
CommSwitch(m, x, type) ==
    \E b \in BOOLEAN : m = <<b>> /\ x = CommJoin(<<type>>, Comm!Flag(b))
CommApp(m, x) == \E n \in Nat : m = <<n>> /\ x = [k \in 1..n |-> 0]

\* The same, by function.
CommShape(op, m, x) ==
    /\ op = "rpyt" => CommRpyt(m, x)
    /\ op = "position" => CommFour(m, x, 7)
    /\ op = "velocity_world" => CommFour(m, x, 8)
    /\ op = "zdistance" => CommFour(m, x, 9)
    /\ op = "hover" => CommFour(m, x, 10)
    /\ op = "manual" => CommManual(m, x)
    /\ op = "stop" => CommBare(m, x, 0)
    /\ op = "notify" => CommNotify(m, x)
    /\ op = "set_group_mask" => CommMask(m, x)
    /\ op = "hl_stop" => CommStop(m, x)
    /\ op = "take_off" => CommTowards(m, x, 7)
    /\ op = "land" => CommTowards(m, x, 8)
    /\ op = "go_to" => CommPath(m, x, 12)
    /\ op = "spiral" => CommPath(m, x, 11)
    /\ op = "define_trajectory" => CommDefine(m, x)
    /\ op = "start_trajectory" => CommStart(m, x)
    /\ op = "emergency" => CommBare(m, x, 3)
    /\ op = "watchdog" => CommBare(m, x, 4)
    /\ op = "external_position" => CommPosition(m, x)
    /\ op = "external_pose" => CommPose(m, x)
    /\ op = "lpp" => CommLpp(m, x)
    /\ op = "cont_wave" => CommSwitch(m, x, 0)
    /\ op = "arming" => CommSwitch(m, x, 1)
    /\ op = "recovery" => CommBare(m, x, 2)
    /\ op = "app" => CommApp(m, x)

\* The function of a port, a channel and a first byte.
CommOp(port, channel, type) ==
    IF port = 3 THEN "rpyt"
    ELSE IF port = 6 THEN IF channel = 0 THEN "external_position"
                          ELSE IF type = 2 THEN "lpp"
                          ELSE IF type = 3 THEN "emergency"
                          ELSE IF type = 4 THEN "watchdog"
                          ELSE "external_pose"
    ELSE IF port = 7 THEN IF channel = 1 THEN "notify"
                          ELSE IF type = 0 THEN "stop"
                          ELSE IF type = 7 THEN "position"
                          ELSE IF type = 8 THEN "velocity_world"
                          ELSE IF type = 9 THEN "zdistance"
                          ELSE IF type = 10 THEN "hover"
                          ELSE "manual"
    ELSE IF port = 8 THEN IF type = 0 THEN "set_group_mask"
                          ELSE IF type = 3 THEN "hl_stop"
                          ELSE IF type = 6 THEN "define_trajectory"
                          ELSE IF type = 7 THEN "take_off"
                          ELSE IF type = 8 THEN "land"
                          ELSE IF type = 11 THEN "spiral"
                          ELSE IF type = 12 THEN "go_to"
                          ELSE "start_trajectory"
    ELSE IF channel = 2 THEN "app"
         ELSE IF type = 0 THEN "cont_wave"
         ELSE IF type = 1 THEN "arming"
         ELSE "recovery"

CommTyped(port, channel) == <<port, channel>> \notin Comm!Untyped

CommPacket(p) ==
    /\ p.port \in Int /\ p.channel \in Int /\ p.payload \in Seq(Int)
    /\ CommTyped(p.port, p.channel) => p.payload # <<>>
    /\ p.op = CommOp(p.port, p.channel, p.payload[1])
    /\ CommShape(p.op, Comm!Meaning(p), p.payload)
    /\ p.op = "manual" => p.args[4] \in Int /\ Comm!Meaning(p)[4] = Comm!Clip(p.args[4])

\* Only such packets have been sent.
CommInv == \E S : sent \in Seq(S) /\ \A p \in S : CommPacket(p)

-----------------------------------------------------------------------------
(* Commands: the payloads are told apart *)

LEMMA CommOnes ==
    /\ \A x \in Int : <<x>> \in Seq(Int) /\ Len(<<x>>) = 1 /\ <<x>>[1] = x
    /\ \A b \in BOOLEAN : /\ Comm!Flag(b) \in Seq(Int) /\ Len(Comm!Flag(b)) = 1
                          /\ Comm!Flag(b)[1] = IF b THEN 1 ELSE 0
BY DEF Comm!Flag

LEMMA CommFlagTold ==
    ASSUME NEW a \in BOOLEAN, NEW b \in BOOLEAN, Comm!Flag(a) = Comm!Flag(b)
    PROVE  a = b
BY CommOnes

LEMMA CommTupleTold ==
    ASSUME NEW m, NEW w, NEW n \in Nat, CommTuple(m, n), CommTuple(w, n),
           \A k \in 1..n : m[k] = w[k]
    PROVE  m = w
<1>1. [k \in 1..n |-> m[k]] = [k \in 1..n |-> w[k]]
  OBVIOUS
<1> QED BY <1>1 DEF CommTuple

LEMMA CommRpytTold ==
    ASSUME NEW m, NEW w, NEW x, CommRpyt(m, x), CommRpyt(w, x)
    PROVE  m = w
<1> DEFINE f == <<m[1], -m[2], m[3]>>
           g == <<w[1], -w[2], w[3]>>
           a == Comm!Floats(f, 3)
           b == Comm!Floats(g, 3)
           c == Comm!Bytes(m[4], 2)
           d == Comm!Bytes(w[4], 2)
<1>1. /\ CommTuple(m, 4) /\ CommTuple(w, 4)
      /\ m[4] \in Nat /\ m[4] <= 65535 /\ w[4] \in Nat /\ w[4] <= 65535
      /\ CommJoin(a, c) = CommJoin(b, d)
  BY DEF CommRpyt
<1>2. /\ m[1] \in Num /\ m[2] \in Num /\ m[3] \in Num
      /\ w[1] \in Num /\ w[2] \in Num /\ w[3] \in Num
  BY DEF CommRpyt
<1>3. ASSUME NEW v \in Num PROVE v \in Int /\ -v \in Num
  <2>1. v \in Int /\ -Comm!FloatMax <= v /\ v <= Comm!FloatMax /\ Comm!FloatMax \in Int
    <3>1. Comm!FloatMax \in Int
      BY SMT DEF Comm!FloatMax
    <3> QED BY <3>1, SMT DEF Num, Comm!FloatBits
  <2> QED BY <2>1, SMT DEF Num, Comm!FloatBits
<1>4. \A i \in 1..3 : f[i] \in Num /\ g[i] \in Num
  BY <1>2, <1>3
<1> HIDE DEF f, g
<1>5. a \in Seq(Int) /\ b \in Seq(Int) /\ Len(a) = 4 * 3 /\ Len(b) = 4 * 3
  <2>1. \A i \in 1..3 : f[i] \in Comm!FloatBits
    BY <1>4 DEF Num
  <2>2. \A i \in 1..3 : g[i] \in Comm!FloatBits
    BY <1>4 DEF Num
  <2> QED BY <2>1, <2>2, CommFloats
<1>6. c \in Seq(Int) /\ d \in Seq(Int)
  <2>1. \A n \in Nat : Comm!Bytes(n, 2) \in Seq(Int)
    BY CommTwoBytes
  <2>2. PICK s \in Nat, t \in Nat : s = m[4] /\ t = w[4]
    BY <1>1
  <2>3. Comm!Bytes(s, 2) \in Seq(Int) /\ Comm!Bytes(t, 2) \in Seq(Int)
    BY <2>1
  <2> QED BY <2>2, <2>3
<1> HIDE DEF a, b, c, d
<1>7. a = b /\ c = d
  BY <1>1, <1>5, <1>6, CommPeel
<1>8. \A i \in 1..3 : f[i] = g[i]
  BY <1>4, <1>7, CommFloatsTold DEF a, b, Num
<1>9. m[1] = w[1] /\ m[2] = w[2] /\ m[3] = w[3]
  BY <1>2, <1>3, <1>8 DEF f, g
<1>10. m[4] = w[4]
  BY <1>1, <1>7, CommBytesTold DEF c, d
<1>11. \A k \in 1..4 : m[k] = w[k]
  BY <1>9, <1>10
<1> QED BY <1>1, <1>11, CommTupleTold

LEMMA CommFourTold ==
    ASSUME NEW m, NEW w, NEW x, NEW type \in Int, CommFour(m, x, type), CommFour(w, x, type)
    PROVE  m = w
<1> DEFINE a == Comm!Floats(m, 4)
           b == Comm!Floats(w, 4)
<1>1. /\ CommTuple(m, 4) /\ CommTuple(w, 4)
      /\ \A k \in 1..4 : m[k] \in Num /\ w[k] \in Num
      /\ CommJoin(<<type>>, a) = CommJoin(<<type>>, b)
  BY DEF CommFour
<1>2. a \in Seq(Int) /\ b \in Seq(Int)
  BY <1>1, CommFloats DEF Num
<1>3. <<type>> \in Seq(Int)
  BY CommOnes
<1> HIDE DEF a, b
<1>4. a = b
  BY <1>1, <1>2, <1>3, CommPeel
<1>5. \A k \in 1..4 : m[k] = w[k]
  BY <1>1, <1>4, CommFloatsTold DEF a, b, Num
<1> QED BY <1>1, <1>5, CommTupleTold

LEMMA CommPeelThree ==
    ASSUME NEW x \in Seq(Int), NEW y \in Seq(Int), NEW z \in Seq(Int),
           NEW u \in Seq(Int), NEW v \in Seq(Int), NEW w \in Seq(Int),
           CommJoin(CommJoin(x, y), z) = CommJoin(CommJoin(u, v), w),
           Len(y) = Len(v), Len(z) = Len(w)
    PROVE  x = u /\ y = v /\ z = w
<1> DEFINE a == CommJoin(x, y)
           b == CommJoin(u, v)
<1>1. a \in Seq(Int) /\ b \in Seq(Int)
  BY CommJoins
<1>2. CommJoin(a, z) = CommJoin(b, w)
  OBVIOUS
<1> HIDE DEF a, b
<1>3. a = b /\ z = w
  BY <1>1, <1>2, CommPeel
<1>4. CommJoin(x, y) = CommJoin(u, v)
  BY <1>3 DEF a, b
<1> QED BY <1>3, <1>4, CommPeel

\* The thrust of a percentage that is not past the ends of it.
LEMMA CommThrust ==
    ASSUME NEW p \in Int
    PROVE  /\ Comm!Thrust16(p) \in Nat /\ Comm!Thrust16(p) <= 65535
           /\ Comm!Clip(p) \in Int /\ -21 <= Comm!Clip(p) /\ Comm!Clip(p) <= 112
           /\ Comm!Thrust16(Comm!Clip(p)) = Comm!Thrust16(p)
<1>1. Comm!Thrust16(p) \in Nat /\ Comm!Thrust16(p) <= 65535
  BY SMT DEF Comm!Thrust16
<1>2. Comm!Clip(p) \in Int /\ -21 <= Comm!Clip(p) /\ Comm!Clip(p) <= 112
  BY SMT DEF Comm!Clip
<1>3. CASE p < -21
  BY <1>3, SMT DEF Comm!Clip, Comm!Thrust16
<1>4. CASE p > 112
  BY <1>4, SMT DEF Comm!Clip, Comm!Thrust16
<1>5. CASE ~(p < -21) /\ ~(p > 112)
  <2>1. Comm!Clip(p) = p
    BY <1>5, SMT DEF Comm!Clip
  <2> QED BY <1>1, <1>2, <2>1
<1> QED BY <1>1, <1>2, <1>3, <1>4, <1>5

LEMMA CommThrustTold ==
    ASSUME NEW p \in Int, -21 <= p, p <= 112, NEW q \in Int, -21 <= q, q <= 112,
           Comm!Thrust16(p) = Comm!Thrust16(q)
    PROVE  p = q
BY SMT DEF Comm!Thrust16

LEMMA CommManualTold ==
    ASSUME NEW m, NEW w, NEW x, CommManual(m, x), CommManual(w, x)
    PROVE  m = w
<1> DEFINE a == Comm!Floats(m, 3)
           b == Comm!Floats(w, 3)
<1>1. /\ CommTuple(m, 5) /\ CommTuple(w, 5)
      /\ \A k \in 1..3 : m[k] \in Num /\ w[k] \in Num
  BY DEF CommManual
<1>2. PICK p \in Int, i \in BOOLEAN : p = m[4] /\ i = m[5] /\ -21 <= p /\ p <= 112
  BY DEF CommManual
<1>3. PICK q \in Int, j \in BOOLEAN : q = w[4] /\ j = w[5] /\ -21 <= q /\ q <= 112
  BY DEF CommManual
<1>4. PICK s \in Nat : s = Comm!Thrust16(p) /\ s <= 65535
  BY CommThrust
<1>5. PICK t \in Nat : t = Comm!Thrust16(q) /\ t <= 65535
  BY CommThrust
<1> DEFINE c == Comm!Bytes(s, 2)
           d == Comm!Bytes(t, 2)
           e == CommJoin(<<11>>, a)
           f == CommJoin(<<11>>, b)
           g == Comm!Flag(i)
           h == Comm!Flag(j)
<1>6. CommJoin(CommJoin(e, c), g) = CommJoin(CommJoin(f, d), h)
  BY <1>2, <1>3, <1>4, <1>5 DEF CommManual
<1>7. a \in Seq(Int) /\ b \in Seq(Int) /\ <<11>> \in Seq(Int) /\ Len(<<11>>) = 1
  <2>1. (\A k \in 1..3 : m[k] \in Comm!FloatBits) /\ \A k \in 1..3 : w[k] \in Comm!FloatBits
    BY <1>1 DEF Num
  <2>2. Comm!Floats(m, 3) \in Seq(Int) /\ Comm!Floats(w, 3) \in Seq(Int)
    BY <2>1, CommFloats
  <2>3. <<11>> \in Seq(Int) /\ Len(<<11>>) = 1
    OBVIOUS
  <2> QED BY <2>2, <2>3
<1>8. /\ c \in Seq(Int) /\ d \in Seq(Int) /\ Len(c) = 2 /\ Len(d) = 2
      /\ g \in Seq(Int) /\ h \in Seq(Int) /\ Len(g) = 1 /\ Len(h) = 1
  BY CommTwoBytes, CommOnes
<1>9. e \in Seq(Int) /\ f \in Seq(Int)
  BY <1>7, CommJoins
<1> HIDE DEF a, b, c, d, e, f, g, h
<1>10. e = f /\ c = d /\ g = h
  <2>1. Len(c) = Len(d) /\ Len(g) = Len(h)
    BY <1>8
  <2>2. c \in Seq(Int) /\ d \in Seq(Int) /\ g \in Seq(Int) /\ h \in Seq(Int)
    BY <1>8
  <2> QED BY <1>6, <1>9, <2>1, <2>2, CommPeelThree
<1>11. CommJoin(<<11>>, a) = CommJoin(<<11>>, b)
  BY <1>10 DEF e, f
<1>12. a = b
  <2> DEFINE k == <<11>>
  <2>1. CommJoin(k, a) = CommJoin(k, b) /\ k \in Seq(Int)
    BY <1>7, <1>11
  <2> HIDE DEF k
  <2> QED BY <1>7, <2>1, CommPeel
<1>13. \A k \in 1..3 : m[k] = w[k]
  BY <1>1, <1>12, CommFloatsTold DEF a, b, Num
<1>14. s = t
  BY <1>4, <1>5, <1>10, CommBytesTold DEF c, d
<1>15. p = q
  <2>1. Comm!Thrust16(p) = Comm!Thrust16(q)
    BY <1>4, <1>5, <1>14
  <2> QED BY <1>2, <1>3, <2>1, CommThrustTold
<1>16. i = j
  BY <1>10, CommFlagTold DEF g, h
<1>17. \A k \in 1..5 : m[k] = w[k]
  <2>1. m[4] = w[4] /\ m[5] = w[5]
    BY <1>2, <1>3, <1>15, <1>16, Zenon
  <2>2. m[1] = w[1] /\ m[2] = w[2] /\ m[3] = w[3]
    BY <1>13
  <2> QED BY <2>1, <2>2
<1> QED BY <1>1, <1>17, CommTupleTold

LEMMA CommNotifyTold ==
    ASSUME NEW m, NEW w, NEW x, CommNotify(m, x), CommNotify(w, x)
    PROVE  m = w
<1>1. PICK s \in Nat : m = <<s>> /\ s <= 65535 /\ x = CommJoin(<<0>>, Comm!Bytes(s, 4))
  BY DEF CommNotify
<1>2. PICK t \in Nat : w = <<t>> /\ t <= 65535 /\ x = CommJoin(<<0>>, Comm!Bytes(t, 4))
  BY DEF CommNotify
<1> DEFINE size == 4
           a == Comm!Bytes(s, size)
           b == Comm!Bytes(t, size)
<1>3. size \in Nat /\ size <= 4 /\ size >= 2
  OBVIOUS
<1>4. CommJoin(<<0>>, a) = CommJoin(<<0>>, b)
  BY <1>1, <1>2
<1> HIDE DEF size
<1>5. a \in Seq(Int) /\ b \in Seq(Int)
  BY <1>3, CommBytesType
<1>6. <<0>> \in Seq(Int)
  BY CommOnes
<1> HIDE DEF a, b
<1>7. a = b
  BY <1>4, <1>5, <1>6, CommPeel
<1>8. s = t
  BY <1>1, <1>2, <1>3, <1>7, CommBytesTold DEF a, b
<1> QED BY <1>1, <1>2, <1>8

LEMMA CommMaskTold ==
    ASSUME NEW m, NEW w, NEW x, CommMask(m, x), CommMask(w, x)
    PROVE  m = w
BY DEF CommMask

LEMMA CommStopTold ==
    ASSUME NEW m, NEW w, NEW x, CommStop(m, x), CommStop(w, x)
    PROVE  m = w
<1>1. PICK s \in Int : m = <<s>> /\ x = CommJoin(<<3>>, <<s>>)
  BY DEF CommStop
<1>2. PICK t \in Int : w = <<t>> /\ x = CommJoin(<<3>>, <<t>>)
  BY DEF CommStop
<1>3. <<s>> \in Seq(Int) /\ <<t>> \in Seq(Int) /\ <<3>> \in Seq(Int)
  BY CommOnes
<1>4. CommJoin(<<3>>, <<s>>) = CommJoin(<<3>>, <<t>>)
  BY <1>1, <1>2
<1> DEFINE a == <<s>>
           b == <<t>>
           c == <<3>>
<1>5. a \in Seq(Int) /\ b \in Seq(Int) /\ c \in Seq(Int) /\ CommJoin(c, a) = CommJoin(c, b)
  BY <1>3, <1>4
<1> HIDE DEF a, b, c
<1>6. a = b
  BY <1>5, CommPeel
<1> QED BY <1>1, <1>2, <1>6 DEF a, b

LEMMA CommFloatApart ==
    ASSUME NEW v \in Num, NEW w \in Num, Comm!Float(v) = Comm!Float(w)
    PROVE  v = w
BY CommFloatTold DEF Num

LEMMA CommFloatType == \A v \in Num : Comm!Float(v) \in Seq(Int) /\ Len(Comm!Float(v)) = 4
BY CommFloat DEF Num

LEMMA CommTowardsTold ==
    ASSUME None \notin Int, NEW m, NEW w, NEW x, NEW type \in Int,
           CommTowards(m, x, type), CommTowards(w, x, type)
    PROVE  m = w
<1>1. /\ CommTuple(m, 4) /\ CommTuple(w, 4)
      /\ m[1] \in Num /\ m[2] \in Num \union {None} /\ m[3] \in Num
      /\ w[1] \in Num /\ w[2] \in Num \union {None} /\ w[3] \in Num
  BY DEF CommTowards
<1>2. PICK s \in Int : s = m[4]
  BY DEF CommTowards
<1>3. PICK t \in Int : t = w[4]
  BY DEF CommTowards
<1>0. PICK o \in Num : o = Comm!Otherwise(m[2], 0)
  <2>1. 0 \in Num
    <3>1. Comm!FloatMax \in Nat
      BY SMT DEF Comm!FloatMax
    <3> QED BY <3>1, SMT DEF Num, Comm!FloatBits
  <2> QED BY <1>1, <2>1 DEF Comm!Otherwise
<1>4. PICK r \in Num : r = Comm!Otherwise(w[2], 0)
  <2>1. 0 \in Num
    <3>1. Comm!FloatMax \in Nat
      BY SMT DEF Comm!FloatMax
    <3> QED BY <3>1, SMT DEF Num, Comm!FloatBits
  <2> QED BY <1>1, <2>1 DEF Comm!Otherwise
<1>5. PICK i \in BOOLEAN : i = (m[2] = None)
  BY Zenon
<1>6. PICK j \in BOOLEAN : j = (w[2] = None)
  BY Zenon
<1> DEFINE h == <<type>>
           a == <<s>>
           b == <<t>>
           c == Comm!Float(m[1])
           d == Comm!Float(w[1])
           e == Comm!Float(o)
           f == Comm!Float(r)
           g == Comm!Flag(i)
           k == Comm!Flag(j)
           y == Comm!Float(m[3])
           z == Comm!Float(w[3])
           p == CommJoin(h, a)
           q == CommJoin(h, b)
           u == CommJoin(CommJoin(p, c), e)
           v == CommJoin(CommJoin(q, d), f)
<1>7. CommJoin(CommJoin(u, g), y) = CommJoin(CommJoin(v, k), z)
  BY <1>2, <1>3, <1>0, <1>4, <1>5, <1>6, Zenon DEF CommTowards
<1>8. h \in Seq(Int) /\ a \in Seq(Int) /\ b \in Seq(Int) /\ Len(a) = 1 /\ Len(b) = 1
  BY CommOnes
<1>9. /\ c \in Seq(Int) /\ d \in Seq(Int) /\ Len(c) = 4 /\ Len(d) = 4
      /\ e \in Seq(Int) /\ f \in Seq(Int) /\ Len(e) = 4 /\ Len(f) = 4
      /\ y \in Seq(Int) /\ z \in Seq(Int) /\ Len(y) = 4 /\ Len(z) = 4
  BY <1>1, CommFloatType
<1>10. g \in Seq(Int) /\ k \in Seq(Int) /\ Len(g) = 1 /\ Len(k) = 1
  BY CommOnes
<1> HIDE DEF h, a, b, c, d, e, f, g, k, y, z
<1>11. p \in Seq(Int) /\ q \in Seq(Int)
  BY <1>8, CommJoins
<1> HIDE DEF p, q
<1>12. u \in Seq(Int) /\ v \in Seq(Int)
  BY <1>9, <1>11, CommJoins
<1> HIDE DEF u, v
<1>13. u = v /\ g = k /\ y = z
  <2>1. Len(g) = Len(k) /\ Len(y) = Len(z) /\ y \in Seq(Int) /\ z \in Seq(Int)
        /\ g \in Seq(Int) /\ k \in Seq(Int)
    BY <1>9, <1>10
  <2> QED BY <1>7, <1>12, <2>1, CommPeelThree
<1>14. p = q /\ c = d /\ e = f
  <2>1. CommJoin(CommJoin(p, c), e) = CommJoin(CommJoin(q, d), f)
    BY <1>13 DEF u, v
  <2>2. Len(c) = Len(d) /\ Len(e) = Len(f) /\ c \in Seq(Int) /\ d \in Seq(Int)
        /\ e \in Seq(Int) /\ f \in Seq(Int)
    BY <1>9
  <2> QED BY <1>11, <2>1, <2>2, CommPeelThree
<1>15. a = b
  <2>1. CommJoin(h, a) = CommJoin(h, b)
    BY <1>14 DEF p, q
  <2> QED BY <1>8, <2>1, CommPeel
<1>16. s = t
  BY <1>15 DEF a, b
<1>17. m[1] = w[1] /\ m[3] = w[3] /\ o = r
  BY <1>1, <1>13, <1>14, CommFloatApart DEF c, d, e, f, y, z
<1>18. (m[2] = None) <=> (w[2] = None)
  <2>1. i = j
    BY <1>13, CommFlagTold DEF g, k
  <2> QED BY <1>5, <1>6, <2>1, Zenon
<1>19. m[2] = w[2]
  BY <1>0, <1>4, <1>17, <1>18 DEF Comm!Otherwise
<1>20. m[4] = w[4]
  BY <1>2, <1>3, <1>16
<1>21. \A n \in 1..4 : m[n] = w[n]
  BY <1>17, <1>19, <1>20
<1> QED BY <1>1, <1>21, CommTupleTold

LEMMA CommPathTold ==
    ASSUME NEW m, NEW w, NEW x, NEW type \in Int, CommPath(m, x, type), CommPath(w, x, type)
    PROVE  m = w
<1>1. /\ CommTuple(m, 8) /\ CommTuple(w, 8)
      /\ \A n \in 1..5 : m[n] \in Num /\ w[n] \in Num
  BY DEF CommPath
<1>2. PICK s \in Int, i \in BOOLEAN, j \in BOOLEAN : s = m[8] /\ i = m[6] /\ j = m[7]
  BY DEF CommPath
<1>3. PICK t \in Int, k \in BOOLEAN, l \in BOOLEAN : t = w[8] /\ k = w[6] /\ l = w[7]
  BY DEF CommPath
<1> DEFINE h == <<type>>
           a == <<s>>
           b == <<t>>
           c == Comm!Flag(i)
           d == Comm!Flag(k)
           e == Comm!Flag(j)
           f == Comm!Flag(l)
           y == Comm!Floats(m, 5)
           z == Comm!Floats(w, 5)
           p == CommJoin(h, a)
           q == CommJoin(h, b)
           u == CommJoin(p, c)
           v == CommJoin(q, d)
<1>4. CommJoin(CommJoin(u, e), y) = CommJoin(CommJoin(v, f), z)
  BY <1>2, <1>3, Zenon DEF CommPath
<1>5. h \in Seq(Int) /\ a \in Seq(Int) /\ b \in Seq(Int) /\ Len(a) = 1 /\ Len(b) = 1
  BY CommOnes
<1>6. /\ c \in Seq(Int) /\ d \in Seq(Int) /\ Len(c) = 1 /\ Len(d) = 1
      /\ e \in Seq(Int) /\ f \in Seq(Int) /\ Len(e) = 1 /\ Len(f) = 1
  BY CommOnes
<1>7. y \in Seq(Int) /\ z \in Seq(Int) /\ Len(y) = 4 * 5 /\ Len(z) = 4 * 5
  <2>1. \A n \in 1..5 : m[n] \in Comm!FloatBits
    BY <1>1 DEF Num
  <2>2. \A n \in 1..5 : w[n] \in Comm!FloatBits
    BY <1>1 DEF Num
  <2> QED BY <2>1, <2>2, CommFloats
<1> HIDE DEF h, a, b, c, d, e, f, y, z
<1>8. p \in Seq(Int) /\ q \in Seq(Int)
  BY <1>5, CommJoins
<1>9. u \in Seq(Int) /\ v \in Seq(Int)
  BY <1>6, <1>8, CommJoins
<1> HIDE DEF u, v
<1>10. u = v /\ e = f /\ y = z
  <2>1. Len(e) = Len(f) /\ Len(y) = Len(z) /\ y \in Seq(Int) /\ z \in Seq(Int)
        /\ e \in Seq(Int) /\ f \in Seq(Int)
    BY <1>6, <1>7
  <2> QED BY <1>4, <1>9, <2>1, CommPeelThree
<1>11. a = b /\ c = d
  <2>1. CommJoin(CommJoin(h, a), c) = CommJoin(CommJoin(h, b), d)
    BY <1>10 DEF u, v
  <2>2. Len(a) = Len(b) /\ Len(c) = Len(d)
    BY <1>5, <1>6
  <2>3. /\ h \in Seq(Int) /\ a \in Seq(Int) /\ b \in Seq(Int)
        /\ c \in Seq(Int) /\ d \in Seq(Int)
    BY <1>5, <1>6
  <2> QED BY <2>1, <2>2, <2>3, CommPeelThree
<1>12. \A n \in 1..5 : m[n] = w[n]
  BY <1>1, <1>10, CommFloatsTold DEF y, z, Num
<1>13. i = k /\ j = l
  BY <1>10, <1>11, CommFlagTold DEF c, d, e, f
<1>14. s = t
  BY <1>11 DEF a, b
<1>15. m[6] = w[6] /\ m[7] = w[7] /\ m[8] = w[8]
  BY <1>2, <1>3, <1>13, <1>14, Zenon
<1>16. \A n \in 1..8 : m[n] = w[n]
  BY <1>12, <1>15
<1> QED BY <1>1, <1>16, CommTupleTold

LEMMA CommPositionTold ==
    ASSUME NEW m, NEW w, NEW x, CommPosition(m, x), CommPosition(w, x)
    PROVE  m = w
<1>1. /\ CommTuple(m, 3) /\ CommTuple(w, 3)
      /\ \A k \in 1..3 : m[k] \in Num /\ w[k] \in Num
      /\ Comm!Floats(m, 3) = Comm!Floats(w, 3)
  BY DEF CommPosition
<1>2. \A k \in 1..3 : m[k] = w[k]
  BY <1>1, CommFloatsTold DEF Num
<1> QED BY <1>1, <1>2, CommTupleTold

LEMMA CommPoseTold ==
    ASSUME NEW m, NEW w, NEW x, CommPose(m, x), CommPose(w, x)
    PROVE  m = w
<1> DEFINE a == Comm!Floats(m, 7)
           b == Comm!Floats(w, 7)
           h == <<8>>
<1>1. /\ CommTuple(m, 7) /\ CommTuple(w, 7)
      /\ \A k \in 1..7 : m[k] \in Num /\ w[k] \in Num
      /\ CommJoin(h, a) = CommJoin(h, b)
  BY DEF CommPose
<1>2. a \in Seq(Int) /\ b \in Seq(Int)
  BY <1>1, CommFloats DEF Num
<1>3. h \in Seq(Int)
  BY CommOnes
<1> HIDE DEF a, b, h
<1>4. a = b
  BY <1>1, <1>2, <1>3, CommPeel
<1>5. \A k \in 1..7 : m[k] = w[k]
  BY <1>1, <1>4, CommFloatsTold DEF a, b, Num
<1> QED BY <1>1, <1>5, CommTupleTold

LEMMA CommLppTold ==
    ASSUME NEW m, NEW w, NEW x, CommLpp(m, x), CommLpp(w, x)
    PROVE  m = w
<1>1. CommTuple(m, 2) /\ CommTuple(w, 2)
  BY DEF CommLpp
<1>2. PICK s \in Int, a \in Seq(Int) : s = m[1] /\ a = m[2]
  BY DEF CommLpp
<1>3. PICK t \in Int, b \in Seq(Int) : t = w[1] /\ b = w[2]
  BY DEF CommLpp
<1> DEFINE c == <<2, s>>
           d == <<2, t>>
<1>4. CommJoin(c, a) = CommJoin(d, b)
  BY <1>2, <1>3 DEF CommLpp
<1>5. c \in Seq(Int) /\ d \in Seq(Int) /\ Len(c) = 2 /\ Len(d) = 2
  OBVIOUS
<1> HIDE DEF c, d
<1>6. c = d /\ a = b
  <2>1. Len(c) = Len(d)
    BY <1>5
  <2> QED BY <1>4, <1>5, <2>1, CommPeel
<1>7. s = t
  BY <1>6 DEF c, d
<1>8. \A k \in 1..2 : m[k] = w[k]
  <2>1. m[1] = w[1] /\ m[2] = w[2]
    BY <1>2, <1>3, <1>6, <1>7, Zenon
  <2> QED BY <2>1
<1> QED BY <1>1, <1>8, CommTupleTold

LEMMA CommSwitchTold ==
    ASSUME NEW m, NEW w, NEW x, NEW type \in Int, CommSwitch(m, x, type), CommSwitch(w, x, type)
    PROVE  m = w
<1>1. PICK i \in BOOLEAN : m = <<i>> /\ x = CommJoin(<<type>>, Comm!Flag(i))
  BY Zenon DEF CommSwitch
<1>2. PICK j \in BOOLEAN : w = <<j>> /\ x = CommJoin(<<type>>, Comm!Flag(j))
  BY Zenon DEF CommSwitch
<1> DEFINE h == <<type>>
           a == Comm!Flag(i)
           b == Comm!Flag(j)
<1>3. h \in Seq(Int) /\ a \in Seq(Int) /\ b \in Seq(Int) /\ CommJoin(h, a) = CommJoin(h, b)
  BY <1>1, <1>2, CommOnes
<1> HIDE DEF h, a, b
<1>4. a = b
  BY <1>3, CommPeel
<1>5. i = j
  BY <1>4, CommFlagTold DEF a, b
<1> QED BY <1>1, <1>2, <1>5, Zenon

LEMMA CommAppTold ==
    ASSUME NEW m, NEW w, NEW x, CommApp(m, x), CommApp(w, x)
    PROVE  m = w
<1>1. PICK s \in Nat : m = <<s>> /\ x = [k \in 1..s |-> 0]
  BY DEF CommApp
<1>2. PICK t \in Nat : w = <<t>> /\ x = [k \in 1..t |-> 0]
  BY DEF CommApp
<1>3. 1..s = 1..t
  BY <1>1, <1>2
<1>4. s = t
  <2>1. s \in 1..s \/ s = 0
    OBVIOUS
  <2>2. t \in 1..t \/ t = 0
    OBVIOUS
  <2>3. s <= t /\ t <= s
    BY <1>3, <2>1, <2>2
  <2> QED BY <2>3
<1> QED BY <1>1, <1>2, <1>4

LEMMA CommDefineTold ==
    ASSUME NEW m, NEW w, NEW x, CommDefine(m, x), CommDefine(w, x)
    PROVE  m = w
<1>1. CommTuple(m, 4) /\ CommTuple(w, 4) /\ m[2] \in Num /\ w[2] \in Num
  BY DEF CommDefine
<1>2. PICK s \in Int, i \in Int, j \in Int : s = m[1] /\ i = m[3] /\ j = m[4]
  BY DEF CommDefine
<1>3. PICK t \in Int, k \in Int, l \in Int : t = w[1] /\ k = w[3] /\ l = w[4]
  BY DEF CommDefine
<1> DEFINE a == <<6, s, 1, j>>
           b == <<6, t, 1, l>>
           c == Comm!Float(m[2])
           d == Comm!Float(w[2])
           e == <<i>>
           f == <<k>>
<1>4. CommJoin(CommJoin(a, c), e) = CommJoin(CommJoin(b, d), f)
  BY <1>2, <1>3, Zenon DEF CommDefine
<1>5. a \in Seq(Int) /\ b \in Seq(Int)
  OBVIOUS
<1>6. c \in Seq(Int) /\ d \in Seq(Int) /\ Len(c) = 4 /\ Len(d) = 4
  BY <1>1, CommFloatType
<1>7. e \in Seq(Int) /\ f \in Seq(Int) /\ Len(e) = 1 /\ Len(f) = 1
  BY CommOnes
<1> HIDE DEF a, b, c, d, e, f
<1>8. a = b /\ c = d /\ e = f
  <2>1. Len(c) = Len(d) /\ Len(e) = Len(f) /\ c \in Seq(Int) /\ d \in Seq(Int)
        /\ e \in Seq(Int) /\ f \in Seq(Int)
    BY <1>6, <1>7
  <2> QED BY <1>4, <1>5, <2>1, CommPeelThree
<1>9. s = t /\ j = l
  BY <1>8 DEF a, b
<1>10. i = k
  BY <1>8 DEF e, f
<1>11. m[2] = w[2]
  BY <1>1, <1>8, CommFloatApart DEF c, d
<1>12. m[1] = w[1] /\ m[3] = w[3] /\ m[4] = w[4]
  BY <1>2, <1>3, <1>9, <1>10
<1>13. \A n \in 1..4 : m[n] = w[n]
  BY <1>11, <1>12
<1> QED BY <1>1, <1>13, CommTupleTold

LEMMA CommStartTold ==
    ASSUME NEW m, NEW w, NEW x, CommStart(m, x), CommStart(w, x)
    PROVE  m = w
<1>1. CommTuple(m, 6) /\ CommTuple(w, 6) /\ m[2] \in Num /\ w[2] \in Num
  BY DEF CommStart
<1>2. PICK s \in Int, t \in Int : s = m[1] /\ t = m[6]
  BY DEF CommStart
<1>3. PICK i \in BOOLEAN, j \in BOOLEAN, k \in BOOLEAN : i = m[3] /\ j = m[4] /\ k = m[5]
  BY DEF CommStart
<1>4. PICK p \in Int, q \in Int : p = w[1] /\ q = w[6]
  BY DEF CommStart
<1>5. PICK l \in BOOLEAN, n \in BOOLEAN, o \in BOOLEAN : l = w[3] /\ n = w[4] /\ o = w[5]
  BY DEF CommStart
<1> DEFINE h == <<13>>
           a == <<t>>
           b == <<q>>
           c == Comm!Flag(i)
           d == Comm!Flag(l)
           e == Comm!Flag(j)
           f == Comm!Flag(n)
           g == Comm!Flag(k)
           r == Comm!Flag(o)
           y == <<s>>
           z == <<p>>
           hm == Comm!Float(m[2])
           hw == Comm!Float(w[2])
           u == CommJoin(CommJoin(h, a), c)
           v == CommJoin(CommJoin(h, b), d)
           u2 == CommJoin(CommJoin(u, e), g)
           v2 == CommJoin(CommJoin(v, f), r)
<1>6. CommJoin(CommJoin(u2, y), hm) = CommJoin(CommJoin(v2, z), hw)
  BY <1>2, <1>3, <1>4, <1>5, Zenon DEF CommStart
<1>7. /\ h \in Seq(Int) /\ a \in Seq(Int) /\ b \in Seq(Int) /\ y \in Seq(Int)
      /\ z \in Seq(Int) /\ Len(a) = 1 /\ Len(b) = 1 /\ Len(y) = 1 /\ Len(z) = 1
  BY CommOnes
<1>8. /\ c \in Seq(Int) /\ d \in Seq(Int) /\ Len(c) = 1 /\ Len(d) = 1
      /\ e \in Seq(Int) /\ f \in Seq(Int) /\ Len(e) = 1 /\ Len(f) = 1
      /\ g \in Seq(Int) /\ r \in Seq(Int) /\ Len(g) = 1 /\ Len(r) = 1
  BY CommOnes
<1>9. hm \in Seq(Int) /\ hw \in Seq(Int) /\ Len(hm) = 4 /\ Len(hw) = 4
  BY <1>1, CommFloatType
<1> HIDE DEF h, a, b, c, d, e, f, g, r, y, z, hm, hw
<1>10. u \in Seq(Int) /\ v \in Seq(Int)
  <2>1. CommJoin(h, a) \in Seq(Int) /\ CommJoin(h, b) \in Seq(Int)
    BY <1>7, CommJoins
  <2> QED BY <1>8, <2>1, CommJoins
<1> HIDE DEF u, v
<1>11. u2 \in Seq(Int) /\ v2 \in Seq(Int)
  <2>1. CommJoin(u, e) \in Seq(Int) /\ CommJoin(v, f) \in Seq(Int)
    BY <1>8, <1>10, CommJoins
  <2> QED BY <1>8, <2>1, CommJoins
<1> HIDE DEF u2, v2
<1>12. u2 = v2 /\ y = z /\ hm = hw
  <2>1. Len(y) = Len(z) /\ Len(hm) = Len(hw)
    BY <1>7, <1>9
  <2>2. y \in Seq(Int) /\ z \in Seq(Int)
    BY <1>7
  <2> QED BY <1>6, <1>9, <1>11, <2>1, <2>2, CommPeelThree
<1>13. u = v /\ e = f /\ g = r
  <2>1. CommJoin(CommJoin(u, e), g) = CommJoin(CommJoin(v, f), r)
    BY <1>12 DEF u2, v2
  <2>2. /\ Len(e) = Len(f) /\ Len(g) = Len(r)
        /\ e \in Seq(Int) /\ f \in Seq(Int) /\ g \in Seq(Int) /\ r \in Seq(Int)
    BY <1>8
  <2> QED BY <1>10, <2>1, <2>2, CommPeelThree
<1>14. a = b /\ c = d
  <2>1. CommJoin(CommJoin(h, a), c) = CommJoin(CommJoin(h, b), d)
    BY <1>13 DEF u, v
  <2>2. /\ Len(a) = Len(b) /\ Len(c) = Len(d)
        /\ h \in Seq(Int) /\ a \in Seq(Int) /\ b \in Seq(Int)
        /\ c \in Seq(Int) /\ d \in Seq(Int)
    BY <1>7, <1>8
  <2> QED BY <2>1, <2>2, CommPeelThree
<1>15. s = p /\ t = q
  BY <1>12, <1>14 DEF a, b, y, z
<1>16. m[2] = w[2]
  BY <1>1, <1>12, CommFloatApart DEF hm, hw
<1>17. i = l /\ j = n /\ k = o
  BY <1>13, <1>14, CommFlagTold DEF c, d, e, f, g, r
<1>18. m[1] = w[1] /\ m[6] = w[6]
  BY <1>2, <1>4, <1>15
<1>19. m[3] = w[3] /\ m[4] = w[4] /\ m[5] = w[5]
  BY <1>3, <1>5, <1>17, Zenon
<1>20. \A x1 \in 1..6 : m[x1] = w[x1]
  BY <1>16, <1>18, <1>19
<1> QED BY <1>1, <1>20, CommTupleTold

LEMMA CommOps ==
    ASSUME NEW i, NEW j, NEW k, NEW op, op = CommOp(i, j, k)
    PROVE  \/ op \in {"rpyt", "position", "velocity_world", "zdistance", "hover", "manual"}
           \/ op \in {"stop", "emergency", "watchdog", "recovery", "notify", "set_group_mask"}
           \/ op \in {"hl_stop", "take_off", "land", "go_to", "spiral", "define_trajectory"}
           \/ op \in {"start_trajectory", "external_position", "external_pose", "lpp",
                      "cont_wave", "arming", "app"}
<1>1. CASE i = 3
  BY <1>1 DEF CommOp
<1>2. CASE i = 6
  BY <1>2 DEF CommOp
<1>3. CASE i = 7
  BY <1>3 DEF CommOp
<1>4. CASE i = 8
  BY <1>4 DEF CommOp
<1>5. CASE i \notin {3, 6, 7, 8}
  BY <1>5 DEF CommOp
<1> QED BY <1>1, <1>2, <1>3, <1>4, <1>5

\* The payload and the function tell the meaning, and the meaning the payload.
LEMMA CommTold ==
    ASSUME None \notin Int, NEW op, NEW m, NEW w, NEW x,
           \E i, j, k : op = CommOp(i, j, k),
           CommShape(op, m, x), CommShape(op, w, x)
    PROVE  m = w
<1>1. \/ op \in {"rpyt", "position", "velocity_world", "zdistance", "hover", "manual"}
      \/ op \in {"stop", "emergency", "watchdog", "recovery", "notify", "set_group_mask"}
      \/ op \in {"hl_stop", "take_off", "land", "go_to", "spiral", "define_trajectory"}
      \/ op \in {"start_trajectory", "external_position", "external_pose", "lpp",
                 "cont_wave", "arming", "app"}
  BY CommOps, Zenon
<1>2. CASE op \in {"rpyt", "position", "velocity_world", "zdistance", "hover", "manual"}
  BY <1>2, CommRpytTold, CommFourTold, CommManualTold DEF CommShape
<1>3. CASE op \in {"stop", "emergency", "watchdog", "recovery", "notify", "set_group_mask"}
  BY <1>3, CommNotifyTold, CommMaskTold DEF CommShape, CommBare
<1>4. CASE op \in {"hl_stop", "take_off", "land", "go_to", "spiral", "define_trajectory"}
  BY <1>4, CommStopTold, CommTowardsTold, CommPathTold, CommDefineTold DEF CommShape
<1>5. CASE op \in {"start_trajectory", "external_position", "external_pose", "lpp",
                   "cont_wave", "arming", "app"}
  BY <1>5, CommStartTold, CommPositionTold, CommPoseTold, CommLppTold, CommSwitchTold,
     CommAppTold DEF CommShape
<1> QED BY <1>1, <1>2, <1>3, <1>4, <1>5

LEMMA CommMade ==
    ASSUME NEW op, NEW m, NEW x, NEW y, \E i, j, k : op = CommOp(i, j, k),
           CommShape(op, m, x), CommShape(op, m, y)
    PROVE  x = y
<1>1. \/ op \in {"rpyt", "position", "velocity_world", "zdistance", "hover", "manual"}
      \/ op \in {"stop", "emergency", "watchdog", "recovery", "notify", "set_group_mask"}
      \/ op \in {"hl_stop", "take_off", "land", "go_to", "spiral", "define_trajectory"}
      \/ op \in {"start_trajectory", "external_position", "external_pose", "lpp",
                 "cont_wave", "arming", "app"}
  BY CommOps, Zenon
<1>2. ASSUME CommNotify(m, x), CommNotify(m, y) PROVE x = y
  BY <1>2 DEF CommNotify
<1>3. ASSUME CommMask(m, x), CommMask(m, y) PROVE x = y
  BY <1>3 DEF CommMask
<1>4. ASSUME CommStop(m, x), CommStop(m, y) PROVE x = y
  BY <1>4 DEF CommStop
<1>5. ASSUME NEW t, CommSwitch(m, x, t), CommSwitch(m, y, t) PROVE x = y
  <2>1. PICK i \in BOOLEAN : m = <<i>> /\ x = CommJoin(<<t>>, Comm!Flag(i))
    BY <1>5, Zenon DEF CommSwitch
  <2>2. PICK j \in BOOLEAN : m = <<j>> /\ y = CommJoin(<<t>>, Comm!Flag(j))
    BY <1>5, Zenon DEF CommSwitch
  <2>3. i = m[1] /\ j = m[1]
    BY <2>1, <2>2
  <2>4. i = j
    BY <2>3, Zenon
  <2> QED BY <2>1, <2>2, <2>4, Zenon
<1>6. ASSUME CommApp(m, x), CommApp(m, y) PROVE x = y
  BY <1>6 DEF CommApp
<1>7. CASE op \in {"rpyt", "position", "velocity_world", "zdistance", "hover", "manual"}
  BY <1>7 DEF CommShape, CommRpyt, CommFour, CommManual
<1>8. CASE op \in {"stop", "emergency", "watchdog", "recovery", "notify", "set_group_mask"}
  BY <1>2, <1>3, <1>8 DEF CommShape, CommBare
<1>9. CASE op \in {"hl_stop", "take_off", "land", "go_to", "spiral", "define_trajectory"}
  BY <1>4, <1>9 DEF CommShape, CommTowards, CommPath, CommDefine
<1>10. CASE op \in {"start_trajectory", "external_position", "external_pose", "lpp",
                    "cont_wave", "arming", "app"}
  BY <1>5, <1>6, <1>10 DEF CommShape, CommStart, CommPosition, CommPose, CommLpp
<1> QED BY <1>1, <1>7, <1>8, <1>9, <1>10

-----------------------------------------------------------------------------
(* Commands: the first byte *)

CommStarts(x, t) == x \in Seq(Int) /\ Len(x) \in Nat \ {0} /\ x[1] = t

LEMMA CommStartsOne == \A t \in Int : CommStarts(<<t>>, t)
BY DEF CommStarts

LEMMA CommStartsMore ==
    ASSUME NEW x, NEW t, CommStarts(x, t), NEW y \in Seq(Int)
    PROVE  CommStarts(CommJoin(x, y), t)
<1>1. x \in Seq(Int) /\ Len(x) \in Nat \ {0} /\ x[1] = t
  BY DEF CommStarts
<1>2. /\ CommJoin(x, y) \in Seq(Int) /\ Len(CommJoin(x, y)) = Len(x) + Len(y)
      /\ \A i \in 1..Len(x) : CommJoin(x, y)[i] = x[i]
  BY <1>1, CommJoins
<1>3. Len(y) \in Nat /\ 1 \in 1..Len(x)
  BY <1>1, QueueFacts
<1>4. Len(CommJoin(x, y)) \in Nat \ {0}
  BY <1>1, <1>2, <1>3
<1>5. CommJoin(x, y)[1] = t
  BY <1>1, <1>2, <1>3
<1> QED BY <1>2, <1>4, <1>5 DEF CommStarts

LEMMA CommStartsTwo ==
    ASSUME NEW t \in Int, NEW y \in Seq(Int)
    PROVE  CommStarts(CommJoin(<<t>>, y), t)
<1> DEFINE x == <<t>>
<1>1. CommStarts(x, t)
  BY CommStartsOne
<1> HIDE DEF x
<1>2. CommStarts(CommJoin(x, y), t)
  BY <1>1, CommStartsMore
<1> QED BY <1>2 DEF x

LEMMA CommRpytStarts == ASSUME NEW m, NEW x, CommRpyt(m, x) PROVE x \in Seq(Int)
<1> DEFINE f == <<m[1], -m[2], m[3]>>
<1>1. PICK s \in Nat : s = m[4] /\ x = CommJoin(Comm!Floats(f, 3), Comm!Bytes(m[4], 2))
  BY DEF CommRpyt
<1>2. m[1] \in Num /\ m[2] \in Num /\ m[3] \in Num
  BY DEF CommRpyt
<1>3. -m[2] \in Num
  <2>1. Comm!FloatMax \in Int
    BY SMT DEF Comm!FloatMax
  <2> QED BY <1>2, <2>1, SMT DEF Num, Comm!FloatBits
<1>4. \A i \in 1..3 : f[i] \in Num
  BY <1>2, <1>3
<1> HIDE DEF f
<1>5. Comm!Floats(f, 3) \in Seq(Int)
  BY <1>4, CommFloats DEF Num
<1>6. Comm!Bytes(s, 2) \in Seq(Int)
  BY CommTwoBytes
<1> DEFINE a == Comm!Floats(f, 3)
           b == Comm!Bytes(s, 2)
<1>7. x = CommJoin(a, b) /\ a \in Seq(Int) /\ b \in Seq(Int)
  BY <1>1, <1>5, <1>6
<1> HIDE DEF a, b
<1> QED BY <1>7, CommJoins

LEMMA CommFourStarts ==
    ASSUME NEW m, NEW x, NEW t \in Int, CommFour(m, x, t)
    PROVE  CommStarts(x, t)
<1> DEFINE a == Comm!Floats(m, 4)
<1>1. a \in Seq(Int)
  BY CommFloats DEF CommFour, Num
<1>2. x = CommJoin(<<t>>, a)
  BY DEF CommFour
<1> HIDE DEF a
<1> QED BY <1>1, <1>2, CommStartsOne, CommStartsMore

LEMMA CommManualStarts == ASSUME NEW m, NEW x, CommManual(m, x) PROVE CommStarts(x, 11)
<1>1. PICK p \in Int, i \in BOOLEAN : p = m[4] /\ i = m[5]
  BY DEF CommManual
<1>2. PICK s \in Nat : s = Comm!Thrust16(p)
  BY CommThrust
<1> DEFINE a == Comm!Floats(m, 3)
           b == Comm!Bytes(s, 2)
           c == Comm!Flag(i)
<1>3. x = CommJoin(CommJoin(CommJoin(<<11>>, a), b), c)
  BY <1>1, <1>2, Zenon DEF CommManual
<1>4. a \in Seq(Int)
  BY CommFloats DEF CommManual, Num
<1>5. b \in Seq(Int) /\ c \in Seq(Int)
  BY CommTwoBytes, CommOnes
<1> HIDE DEF a, b, c
<1>6. CommStarts(CommJoin(<<11>>, a), 11)
  BY <1>4, CommStartsTwo
<1> QED BY <1>3, <1>5, <1>6, CommStartsMore

LEMMA CommTowardsStarts ==
    ASSUME NEW m, NEW x, NEW t \in Int, CommTowards(m, x, t)
    PROVE  CommStarts(x, t)
<1>1. PICK s \in Int : s = m[4]
  BY DEF CommTowards
<1>2. PICK i \in BOOLEAN : i = (m[2] = None)
  BY Zenon
<1>3. 0 \in Num
  <2>1. Comm!FloatMax \in Nat
    BY SMT DEF Comm!FloatMax
  <2> QED BY <2>1, SMT DEF Num, Comm!FloatBits
<1>4. Comm!Otherwise(m[2], 0) \in Num /\ m[1] \in Num /\ m[3] \in Num
  BY <1>3 DEF CommTowards, Comm!Otherwise
<1> DEFINE a == <<s>>
           b == Comm!Float(m[1])
           c == Comm!Float(Comm!Otherwise(m[2], 0))
           d == Comm!Flag(i)
           e == Comm!Float(m[3])
<1>5. x = CommJoin(CommJoin(CommJoin(CommJoin(CommJoin(<<t>>, a), b), c), d), e)
  BY <1>1, <1>2, Zenon DEF CommTowards
<1>6. a \in Seq(Int) /\ b \in Seq(Int) /\ c \in Seq(Int) /\ d \in Seq(Int) /\ e \in Seq(Int)
  BY <1>4, CommOnes, CommFloatType
<1> HIDE DEF a, b, c, d, e
<1>7. CommStarts(CommJoin(CommJoin(<<t>>, a), b), t)
  BY <1>6, CommStartsOne, CommStartsMore
<1> QED BY <1>5, <1>6, <1>7, CommStartsMore

LEMMA CommPathStarts ==
    ASSUME NEW m, NEW x, NEW t \in Int, CommPath(m, x, t)
    PROVE  CommStarts(x, t)
<1>1. PICK s \in Int, i \in BOOLEAN, j \in BOOLEAN : s = m[8] /\ i = m[6] /\ j = m[7]
  BY DEF CommPath
<1> DEFINE a == <<s>>
           b == Comm!Flag(i)
           c == Comm!Flag(j)
           d == Comm!Floats(m, 5)
<1>2. x = CommJoin(CommJoin(CommJoin(CommJoin(<<t>>, a), b), c), d)
  BY <1>1, Zenon DEF CommPath
<1>3. d \in Seq(Int)
  BY CommFloats DEF CommPath, Num
<1>4. a \in Seq(Int) /\ b \in Seq(Int) /\ c \in Seq(Int)
  BY CommOnes
<1> HIDE DEF a, b, c, d
<1>5. CommStarts(CommJoin(CommJoin(<<t>>, a), b), t)
  BY <1>4, CommStartsOne, CommStartsMore
<1> QED BY <1>2, <1>3, <1>4, <1>5, CommStartsMore

LEMMA CommDefineStarts == ASSUME NEW m, NEW x, CommDefine(m, x) PROVE CommStarts(x, 6)
<1>1. PICK s \in Int, i \in Int, j \in Int : s = m[1] /\ i = m[3] /\ j = m[4]
  BY DEF CommDefine
<1> DEFINE a == <<6, s, 1, j>>
           b == Comm!Float(m[2])
           c == <<i>>
<1>2. x = CommJoin(CommJoin(a, b), c)
  BY <1>1, Zenon DEF CommDefine
<1>3. CommStarts(a, 6)
  BY DEF CommStarts
<1>4. b \in Seq(Int) /\ c \in Seq(Int)
  BY CommFloatType, CommOnes DEF CommDefine
<1> HIDE DEF a, b, c
<1> QED BY <1>2, <1>3, <1>4, CommStartsMore

LEMMA CommStartStarts == ASSUME NEW m, NEW x, CommStart(m, x) PROVE CommStarts(x, 13)
<1>1. PICK s \in Int, t \in Int : s = m[1] /\ t = m[6]
  BY DEF CommStart
<1>2. PICK i \in BOOLEAN, j \in BOOLEAN, k \in BOOLEAN : i = m[3] /\ j = m[4] /\ k = m[5]
  BY DEF CommStart
<1> DEFINE a == <<t>>
           b == Comm!Flag(i)
           c == Comm!Flag(j)
           d == Comm!Flag(k)
           e == <<s>>
           f == Comm!Float(m[2])
<1>3. x = CommJoin(CommJoin(CommJoin(CommJoin(CommJoin(CommJoin(<<13>>, a), b), c), d), e), f)
  BY <1>1, <1>2, Zenon DEF CommStart
<1>4. a \in Seq(Int) /\ b \in Seq(Int) /\ c \in Seq(Int) /\ d \in Seq(Int) /\ e \in Seq(Int)
  BY CommOnes
<1>5. f \in Seq(Int)
  BY CommFloatType DEF CommStart
<1> HIDE DEF a, b, c, d, e, f
<1>6. CommStarts(CommJoin(CommJoin(<<13>>, a), b), 13)
  <2>1. CommStarts(CommJoin(<<13>>, a), 13)
    BY <1>4, CommStartsTwo
  <2> QED BY <1>4, <2>1, CommStartsMore
<1>7. CommStarts(CommJoin(CommJoin(CommJoin(CommJoin(<<13>>, a), b), c), d), 13)
  BY <1>4, <1>6, CommStartsMore
<1> QED BY <1>3, <1>4, <1>5, <1>7, CommStartsMore

\* The first byte is that of the function.
LEMMA CommOthersStart ==
    ASSUME NEW m, NEW x
    PROVE  /\ \A t \in Int : CommBare(m, x, t) => CommStarts(x, t)
           /\ \A t \in Int : CommSwitch(m, x, t) => CommStarts(x, t)
           /\ CommNotify(m, x) => CommStarts(x, 0)
           /\ CommMask(m, x) => CommStarts(x, 0)
           /\ CommStop(m, x) => CommStarts(x, 3)
           /\ CommPosition(m, x) => x \in Seq(Int)
           /\ CommPose(m, x) => CommStarts(x, 8)
           /\ CommLpp(m, x) => CommStarts(x, 2)
           /\ CommApp(m, x) => x \in Seq(Int)
<1>1. ASSUME NEW t \in Int, CommBare(m, x, t) PROVE CommStarts(x, t)
  BY <1>1, CommStartsOne DEF CommBare
<1>2. ASSUME NEW t \in Int, CommSwitch(m, x, t) PROVE CommStarts(x, t)
  <2>1. PICK i \in BOOLEAN : x = CommJoin(<<t>>, Comm!Flag(i))
    BY <1>2, Zenon DEF CommSwitch
  <2>2. Comm!Flag(i) \in Seq(Int)
    BY CommOnes
  <2> DEFINE a == Comm!Flag(i)
  <2>3. x = CommJoin(<<t>>, a) /\ a \in Seq(Int)
    BY <2>1, <2>2
  <2> HIDE DEF a
  <2> QED BY <2>3, CommStartsOne, CommStartsMore
<1>3. ASSUME CommNotify(m, x) PROVE CommStarts(x, 0)
  <2>1. PICK s \in Nat : x = CommJoin(<<0>>, Comm!Bytes(s, 4))
    BY <1>3 DEF CommNotify
  <2> DEFINE size == 4
             a == Comm!Bytes(s, size)
  <2>2. size \in Nat /\ size <= 4 /\ s \in Int
    OBVIOUS
  <2>3. x = CommJoin(<<0>>, a)
    BY <2>1
  <2> HIDE DEF size
  <2>4. a \in Seq(Int)
    BY <2>2, CommBytesType
  <2> HIDE DEF a
  <2> QED BY <2>3, <2>4, CommStartsTwo
<1>4. ASSUME CommMask(m, x) PROVE CommStarts(x, 0)
  BY <1>4 DEF CommMask, CommStarts
<1>5. ASSUME CommStop(m, x) PROVE CommStarts(x, 3)
  <2>1. PICK s \in Int : x = CommJoin(<<3>>, <<s>>)
    BY <1>5 DEF CommStop
  <2> DEFINE a == <<s>>
  <2>2. x = CommJoin(<<3>>, a) /\ a \in Seq(Int)
    BY <2>1, CommOnes
  <2> HIDE DEF a
  <2> QED BY <2>2, CommStartsTwo
<1>6. ASSUME CommPosition(m, x) PROVE x \in Seq(Int)
  BY <1>6, CommFloats DEF CommPosition, Num
<1>7. ASSUME CommPose(m, x) PROVE CommStarts(x, 8)
  <2> DEFINE a == Comm!Floats(m, 7)
  <2>1. x = CommJoin(<<8>>, a)
    BY <1>7 DEF CommPose
  <2>2. a \in Seq(Int)
    BY <1>7, CommFloats DEF CommPose, Num
  <2> HIDE DEF a
  <2> QED BY <2>1, <2>2, CommStartsTwo
<1>8. ASSUME CommLpp(m, x) PROVE CommStarts(x, 2)
  <2>1. PICK s \in Int, a \in Seq(Int) : x = CommJoin(<<2, s>>, a)
    BY <1>8 DEF CommLpp
  <2> DEFINE b == <<2, s>>
  <2>2. CommStarts(b, 2)
    BY DEF CommStarts
  <2> HIDE DEF b
  <2> QED BY <2>1, <2>2, CommStartsMore DEF b
<1>9. ASSUME CommApp(m, x) PROVE x \in Seq(Int)
  <2>1. PICK n \in Nat : x = [k \in 1..n |-> 0]
    BY <1>9 DEF CommApp
  <2> QED BY <2>1, IsASeq
<1> QED BY <1>1, <1>2, <1>3, <1>4, <1>5, <1>6, <1>7, <1>8, <1>9

-----------------------------------------------------------------------------
(* Commands: each function sends such a packet *)

LEMMA CommMeanings ==
    ASSUME NEW p
    PROVE  /\ p.op = "hl_stop" => Comm!Meaning(p) = Comm!Group(p.args[1])
           /\ p.op = "manual" => Comm!Meaning(p) = [p.args EXCEPT ![4] = Comm!Clip(p.args[4])]
           /\ p.op \in {"take_off", "land"} =>
                 Comm!Meaning(p) = [p.args EXCEPT ![4] = Comm!Otherwise(p.args[4], 0)]
           /\ p.op \in {"go_to", "spiral"} =>
                 Comm!Meaning(p) = [p.args EXCEPT ![8] = Comm!Otherwise(p.args[8], 0)]
           /\ p.op = "start_trajectory" =>
                 Comm!Meaning(p) = [p.args EXCEPT ![6] = Comm!Otherwise(p.args[6], 0)]
           /\ p.op = "define_trajectory" =>
                 Comm!Meaning(p) = [p.args EXCEPT ![4] = Comm!Otherwise(p.args[4], 0)]
           /\ p.op \notin {"hl_stop", "manual", "take_off", "land", "go_to", "spiral",
                           "start_trajectory", "define_trajectory"} =>
                 Comm!Meaning(p) = p.args
<1>1. p.op = "hl_stop" => Comm!Meaning(p) = Comm!Group(p.args[1])
  BY DEF Comm!Meaning
<1>2. p.op = "manual" => Comm!Meaning(p) = [p.args EXCEPT ![4] = Comm!Clip(p.args[4])]
  BY DEF Comm!Meaning
<1>3. p.op \in {"take_off", "land"} =>
         Comm!Meaning(p) = [p.args EXCEPT ![4] = Comm!Otherwise(p.args[4], 0)]
  BY DEF Comm!Meaning, Comm!ALL_GROUPS
<1>4. p.op \in {"go_to", "spiral"} =>
         Comm!Meaning(p) = [p.args EXCEPT ![8] = Comm!Otherwise(p.args[8], 0)]
  BY DEF Comm!Meaning, Comm!ALL_GROUPS
<1>5. p.op = "start_trajectory" =>
         Comm!Meaning(p) = [p.args EXCEPT ![6] = Comm!Otherwise(p.args[6], 0)]
  BY DEF Comm!Meaning, Comm!ALL_GROUPS
<1>6. p.op = "define_trajectory" =>
         Comm!Meaning(p) = [p.args EXCEPT ![4] = Comm!Otherwise(p.args[4], 0)]
  BY DEF Comm!Meaning, Comm!TRAJECTORY_TYPE_POLY4D
<1>7. p.op \notin {"hl_stop", "manual", "take_off", "land", "go_to", "spiral",
                   "start_trajectory", "define_trajectory"} =>
         Comm!Meaning(p) = p.args
  BY DEF Comm!Meaning
<1> QED BY <1>1, <1>2, <1>3, <1>4, <1>5, <1>6, <1>7

CommChoices(c, n) ==
    DOMAIN c = 1..n /\ \A k \in 1..n : Len(c[k]) \in Nat \ {0}

LEMMA CommArgs ==
    ASSUME NEW c, NEW n \in Nat, CommChoices(c, n), NEW a \in Comm!Variants(c)
    PROVE  /\ CommTuple(a, n)
           /\ \A k \in 1..n : \A S : c[k] \in Seq(S) => a[k] \in S
BY CommVariants, CommVariant DEF CommTuple, CommChoices

CommRecord(op, args, port, channel, payload) ==
    [op |-> op, args |-> args, port |-> port, channel |-> channel, payload |-> payload]

CommClipped(op, args, m) ==
    op = "manual" => (args[4] \in Int /\ m[4] = Comm!Clip(args[4]))

LEMMA CommNew ==
    ASSUME NEW op, NEW args, NEW port \in Int, NEW channel \in Int, NEW x \in Seq(Int),
           NEW m, m = Comm!Meaning(CommRecord(op, args, port, channel, x)),
           CommShape(op, m, x), CommTyped(port, channel) => x # <<>>,
           op = CommOp(port, channel, x[1]),
           CommClipped(op, args, m)
    PROVE  CommPacket(CommRecord(op, args, port, channel, x))
<1> DEFINE p == CommRecord(op, args, port, channel, x)
<1>1. /\ p.op = op /\ p.args = args /\ p.port = port /\ p.channel = channel
      /\ p.payload = x /\ m = Comm!Meaning(p)
  BY DEF CommRecord
<1> HIDE DEF p
<1>2. CommPacket(p)
  BY <1>1 DEF CommPacket, CommClipped
<1> QED BY <1>2 DEF p

\* No argument has a default: the meaning is the arguments.
LEMMA CommPlain ==
    ASSUME NEW op, NEW args, NEW port, NEW channel, NEW x,
           op \notin {"hl_stop", "manual", "take_off", "land", "go_to", "spiral",
                      "start_trajectory", "define_trajectory"}
    PROVE  Comm!Meaning(CommRecord(op, args, port, channel, x)) = args
<1> DEFINE p == CommRecord(op, args, port, channel, x)
<1>1. p.op = op /\ p.args = args
  BY DEF CommRecord
<1> HIDE DEF p
<1>2. Comm!Meaning(p) = args
  BY <1>1, CommMeanings
<1> QED BY <1>2 DEF p

LEMMA CommNumbers ==
    ASSUME Comm!ConstantsOK
    PROVE  /\ Numbers \in Seq(Num) /\ Len(Numbers) \in Nat \ {0}
           /\ Thrusts \in Seq(Int) /\ Len(Thrusts) \in Nat \ {0}
           /\ Lengths \in Seq(Nat) /\ None \notin Int
BY QueueFacts DEF Comm!ConstantsOK, Num

\* The first byte is that of the function, where there is one.
LEMMA CommFirst ==
    ASSUME NEW x, NEW t, CommStarts(x, t)
    PROVE  x \in Seq(Int) /\ x # <<>> /\ x[1] = t
<1>1. Len(x) # 0
  BY DEF CommStarts
<1> QED BY <1>1, EmptyFacts DEF CommStarts

\* A function whose packets have no type.
LEMMA CommNewUntyped ==
    ASSUME NEW op, NEW args, NEW port \in Int, NEW channel \in Int, NEW x \in Seq(Int),
           \/ op = "rpyt" /\ port = 3 /\ channel = 0
           \/ op = "external_position" /\ port = 6 /\ channel = 0
           \/ op = "app" /\ port = 13 /\ channel = 2,
           CommShape(op, args, x)
    PROVE  CommPacket(CommRecord(op, args, port, channel, x))
<1>1. op = CommOp(port, channel, x[1])
  BY DEF CommOp
<1>2. ~CommTyped(port, channel)
  BY DEF CommTyped, Comm!Untyped, Comm!COMMANDER_PORT, Comm!LOCALIZATION_PORT,
         Comm!POSITION_CHANNEL, Comm!PLATFORM_PORT, Comm!APP_CHANNEL
<1>3. PICK w : w = args
  OBVIOUS
<1>4. w = Comm!Meaning(CommRecord(op, args, port, channel, x))
  BY <1>3, CommPlain
<1>5. CommClipped(op, args, w)
  BY DEF CommClipped
<1>6. CommShape(op, w, x) /\ (CommTyped(port, channel) => x # <<>>)
  BY <1>2, <1>3
<1> QED BY <1>1, <1>4, <1>5, <1>6, CommNew, Zenon

LEMMA CommSendsRpyt ==
    ASSUME Comm!ConstantsOK,
           NEW a \in Comm!Variants(<<Numbers, Numbers, Numbers, Comm!Thrusts16>>), NEW x,
           x = CommJoin(Comm!Floats(<<a[1], -a[2], a[3]>>, 3), Comm!Bytes(a[4], 2))
    PROVE  CommPacket(CommRecord("rpyt", a, 3, 0, x))
<1> DEFINE c == <<Numbers, Numbers, Numbers, Comm!Thrusts16>>
<1>1. CommChoices(c, 4)
  BY CommNumbers DEF CommChoices, Comm!Thrusts16
<1>2. c[1] \in Seq(Num) /\ c[2] \in Seq(Num) /\ c[3] \in Seq(Num) /\ c[4] \in Seq({0, 65535})
  BY CommNumbers DEF Comm!Thrusts16
<1>3. a \in Comm!Variants(c)
  OBVIOUS
<1> HIDE DEF c
<1>4. CommTuple(a, 4) /\ a[1] \in Num /\ a[2] \in Num /\ a[3] \in Num /\ a[4] \in {0, 65535}
  <2>1. CommTuple(a, 4) /\ \A k \in 1..4 : \A S : c[k] \in Seq(S) => a[k] \in S
    BY <1>1, <1>3, CommArgs
  <2> QED BY <1>2, <2>1
<1>5. CommRpyt(a, x)
  BY <1>4 DEF CommRpyt, CommJoin
<1>6. x \in Seq(Int)
  BY <1>5, CommRpytStarts
<1>7. CommShape("rpyt", a, x)
  BY <1>5 DEF CommShape
<1>8. PICK op : op = "rpyt"
  OBVIOUS
<1>9. CommShape(op, a, x)
  BY <1>7, <1>8
<1>10. CommPacket(CommRecord(op, a, 3, 0, x))
  BY <1>6, <1>8, <1>9, CommNewUntyped
<1> QED BY <1>8, <1>10

LEMMA CommNewTyped ==
    ASSUME NEW op, NEW args, NEW port \in Int, NEW channel \in Int, NEW x, NEW t,
           CommStarts(x, t), NEW m, m = Comm!Meaning(CommRecord(op, args, port, channel, x)),
           CommShape(op, m, x), op = CommOp(port, channel, t), op # "manual"
    PROVE  CommPacket(CommRecord(op, args, port, channel, x))
<1>1. x \in Seq(Int) /\ x # <<>> /\ op = CommOp(port, channel, x[1])
  BY CommFirst
<1>2. CommClipped(op, args, m)
  BY DEF CommClipped
<1> QED BY <1>1, <1>2, CommNew

\* Some of the arguments are plain floats.
LEMMA CommNums ==
    ASSUME Comm!ConstantsOK, NEW c, NEW n \in Nat, CommChoices(c, n),
           NEW a \in Comm!Variants(c)
    PROVE  \A i \in 1..n : c[i] = Numbers => a[i] \in Num
<1>1. \A k \in 1..n : \A S : c[k] \in Seq(S) => a[k] \in S
  BY CommArgs
<1>2. Numbers \in Seq(Num)
  BY CommNumbers
<1> QED BY <1>1, <1>2, Zenon

LEMMA CommSendsFour ==
    ASSUME Comm!ConstantsOK,
           NEW a \in Comm!Variants(<<Numbers, Numbers, Numbers, Numbers>>), NEW x,
           NEW op, NEW t \in Int, x = CommJoin(<<t>>, Comm!Floats(a, 4)),
           \/ op = "position" /\ t = 7
           \/ op = "velocity_world" /\ t = 8
           \/ op = "zdistance" /\ t = 9
           \/ op = "hover" /\ t = 10
    PROVE  CommPacket(CommRecord(op, a, 7, 0, x))
<1> DEFINE c == <<Numbers, Numbers, Numbers, Numbers>>
<1>1. CommChoices(c, 4)
  BY CommNumbers DEF CommChoices
<1>2. \A k \in 1..4 : c[k] = Numbers
  OBVIOUS
<1>3. a \in Comm!Variants(c)
  OBVIOUS
<1> HIDE DEF c
<1>4. CommTuple(a, 4) /\ \A k \in 1..4 : a[k] \in Num
  <2>1. CommTuple(a, 4)
    BY <1>1, <1>3, CommArgs
  <2>2. \A k \in 1..4 : c[k] = Numbers => a[k] \in Num
    BY <1>1, <1>3, CommNums
  <2> QED BY <1>2, <2>1, <2>2
<1>5. CommFour(a, x, t)
  BY <1>4 DEF CommFour
<1>6. CommStarts(x, t)
  BY <1>5, CommFourStarts
<1>7. CommShape(op, a, x)
  BY <1>5 DEF CommShape
<1>8. op = CommOp(7, 0, t) /\ op # "manual"
  BY DEF CommOp
<1>9. a = Comm!Meaning(CommRecord(op, a, 7, 0, x))
  BY CommPlain
<1> QED BY <1>6, <1>7, <1>8, <1>9, CommNewTyped

LEMMA CommSendsManual ==
    ASSUME Comm!ConstantsOK,
           NEW a \in Comm!Variants(<<Numbers, Numbers, Numbers, Thrusts, Comm!Flags>>), NEW x,
           x = CommJoin(CommJoin(CommJoin(<< 11 >>, Comm!Floats(a, 3)),
                                 Comm!Bytes(Comm!Thrust16(a[4]), 2)),
                        Comm!Flag(a[5]))
    PROVE  CommPacket(CommRecord("manual", a, 7, 0, x))
<1> DEFINE c == <<Numbers, Numbers, Numbers, Thrusts, Comm!Flags>>
<1>1. CommChoices(c, 5)
  BY CommNumbers DEF CommChoices, Comm!Flags
<1>2. /\ c[1] = Numbers /\ c[2] = Numbers /\ c[3] = Numbers /\ c[4] = Thrusts
      /\ c[4] \in Seq(Int) /\ c[5] \in Seq(BOOLEAN)
  BY CommNumbers DEF Comm!Flags
<1>3. a \in Comm!Variants(c)
  OBVIOUS
<1> HIDE DEF c
<1>4. /\ CommTuple(a, 5) /\ a[1] \in Num /\ a[2] \in Num /\ a[3] \in Num
      /\ a[4] \in Int /\ a[5] \in BOOLEAN
  <2>1. CommTuple(a, 5) /\ \A k \in 1..5 : \A S : c[k] \in Seq(S) => a[k] \in S
    BY <1>1, <1>3, CommArgs
  <2>2. a[4] \in Int /\ a[5] \in BOOLEAN
    BY <1>2, <2>1
  <2>3. a[1] \in Num /\ a[2] \in Num /\ a[3] \in Num
    <3>1. \A i \in 1..5 : c[i] = Numbers => a[i] \in Num
      BY <1>1, <1>3, CommNums
    <3> QED BY <1>2, <3>1
  <2> QED BY <2>1, <2>2, <2>3
<1> DEFINE m == [a EXCEPT ![4] = Comm!Clip(a[4])]
<1>5. CommTuple(m, 5) /\ m[4] = Comm!Clip(a[4]) /\ \A k \in 1..5 : k # 4 => m[k] = a[k]
  <2>1. DOMAIN a = 1..5
    BY <1>4 DEF CommTuple
  <2>2. \A k \in DOMAIN a : m[k] = IF k = 4 THEN Comm!Clip(a[4]) ELSE a[k]
    OBVIOUS
  <2>3. m = [k \in 1..5 |-> m[k]]
    BY <2>1
  <2> HIDE DEF m
  <2>4. m[4] = Comm!Clip(a[4]) /\ \A k \in 1..5 : k # 4 => m[k] = a[k]
    BY <2>1, <2>2
  <2> QED BY <2>3, <2>4 DEF CommTuple
<1>6. m = Comm!Meaning(CommRecord("manual", a, 7, 0, x))
  <2> DEFINE p == CommRecord("manual", a, 7, 0, x)
  <2>1. p.op = "manual" /\ p.args = a
    BY DEF CommRecord
  <2> HIDE DEF p
  <2>2. Comm!Meaning(p) = [p.args EXCEPT ![4] = Comm!Clip(p.args[4])]
    BY <2>1, CommMeanings
  <2> QED BY <2>1, <2>2 DEF p
<1> HIDE DEF m
<1>7. m[1] = a[1] /\ m[2] = a[2] /\ m[3] = a[3] /\ m[5] = a[5]
  BY <1>5
<1>8. PICK q \in Int : q = a[4]
  BY <1>4
<1>9. /\ m[4] \in Int /\ -21 <= m[4] /\ m[4] <= 112
      /\ Comm!Thrust16(m[4]) = Comm!Thrust16(a[4])
  BY <1>5, <1>8, CommThrust
<1>10. Comm!Floats(m, 3) = Comm!Floats(a, 3)
  <2>1. ASSUME NEW k \in 1..(4 * 3)
        PROVE  Comm!Float(m[(k + 3) \div 4])[((k + 3) % 4) + 1]
                 = Comm!Float(a[(k + 3) \div 4])[((k + 3) % 4) + 1]
    <3>1. (k + 3) \div 4 \in 1..3
      OBVIOUS
    <3>2. \A i \in 1..3 : m[i] = a[i]
      BY <1>7
    <3> DEFINE i == (k + 3) \div 4
    <3>3. m[i] = a[i]
      BY <3>1, <3>2
    <3> QED BY <3>3
  <2> QED BY <2>1 DEF Comm!Floats
<1>11. CommManual(m, x)
  <2>1. \A k \in 1..3 : m[k] \in Num
    BY <1>4, <1>7
  <2>2. x = CommJoin(CommJoin(CommJoin(<<11>>, Comm!Floats(m, 3)),
                              Comm!Bytes(Comm!Thrust16(m[4]), 2)),
                     Comm!Flag(m[5]))
    BY <1>7, <1>9, <1>10, Zenon
  <2>3. m[5] \in BOOLEAN
    BY <1>4, <1>7, Zenon
  <2> QED BY <1>5, <1>9, <2>1, <2>2, <2>3, Zenon DEF CommManual
<1>12. CommStarts(x, 11)
  BY <1>11, CommManualStarts
<1>13. CommShape("manual", m, x)
  BY <1>11 DEF CommShape
<1>14. "manual" = CommOp(7, 0, 11)
  BY DEF CommOp
<1>15. x \in Seq(Int) /\ x # <<>> /\ "manual" = CommOp(7, 0, x[1])
  BY <1>12, <1>14, CommFirst
<1>16. PICK op, w : op = "manual" /\ w = m
  OBVIOUS
<1>17. /\ w = Comm!Meaning(CommRecord(op, a, 7, 0, x)) /\ CommShape(op, w, x)
       /\ op = CommOp(7, 0, x[1])
  BY <1>6, <1>13, <1>15, <1>16
<1>18. CommClipped(op, a, w)
  BY <1>4, <1>5, <1>16 DEF CommClipped
<1>19. 7 \in Int /\ 0 \in Int /\ x \in Seq(Int) /\ (CommTyped(7, 0) => x # <<>>)
  BY <1>15
<1>20. CommPacket(CommRecord(op, a, 7, 0, x))
  BY <1>17, <1>18, <1>19, CommNew, Zenon
<1> QED BY <1>16, <1>20

\* The functions without arguments.
LEMMA CommSendsBare ==
    ASSUME NEW op, NEW port \in Int, NEW channel \in Int, NEW t \in Int,
           \/ op = "stop" /\ port = 7 /\ channel = 0 /\ t = 0
           \/ op = "emergency" /\ port = 6 /\ channel = 1 /\ t = 3
           \/ op = "watchdog" /\ port = 6 /\ channel = 1 /\ t = 4
           \/ op = "recovery" /\ port = 13 /\ channel = 0 /\ t = 2
    PROVE  CommPacket(CommRecord(op, <<>>, port, channel, <<t>>))
<1> DEFINE m == <<>>
           x == <<t>>
<1>1. CommBare(m, x, t)
  BY DEF CommBare
<1>2. CommStarts(x, t)
  BY CommStartsOne
<1> HIDE DEF m, x
<1>3. CommShape(op, m, x)
  BY <1>1 DEF CommShape
<1>4. op = CommOp(port, channel, t) /\ op # "manual"
  BY DEF CommOp
<1>5. m = Comm!Meaning(CommRecord(op, m, port, channel, x))
  BY CommPlain
<1>6. CommPacket(CommRecord(op, m, port, channel, x))
  BY <1>2, <1>3, <1>4, <1>5, CommNewTyped
<1> QED BY <1>6 DEF m, x

LEMMA CommSendsNotify ==
    ASSUME NEW ms \in Nat, ms <= 65535, NEW x, x = CommJoin(<< 0 >>, Comm!Bytes(ms, 4))
    PROVE  CommPacket(CommRecord("notify", <<ms>>, 7, 1, x))
<1> DEFINE m == <<ms>>
<1>1. CommNotify(m, x)
  BY DEF CommNotify
<1> HIDE DEF m
<1>2. CommStarts(x, 0)
  BY <1>1, CommOthersStart
<1>3. CommShape("notify", m, x)
  BY <1>1 DEF CommShape
<1>4. "notify" = CommOp(7, 1, 0)
  BY DEF CommOp
<1>5. m = Comm!Meaning(CommRecord("notify", m, 7, 1, x))
  BY CommPlain
<1>6. CommPacket(CommRecord("notify", m, 7, 1, x))
  BY <1>2, <1>3, <1>4, <1>5, CommNewTyped
<1> QED BY <1>6 DEF m

LEMMA CommSendsMask ==
    ASSUME NEW g \in Int
    PROVE  CommPacket(CommRecord("set_group_mask", <<g>>, 8, 0, <<0, g>>))
<1> DEFINE m == <<g>>
           x == <<0, g>>
<1>1. CommMask(m, x)
  BY DEF CommMask
<1> HIDE DEF m, x
<1>2. CommStarts(x, 0)
  BY <1>1, CommOthersStart
<1>3. CommShape("set_group_mask", m, x)
  BY <1>1 DEF CommShape
<1>4. "set_group_mask" = CommOp(8, 0, 0)
  BY DEF CommOp
<1>5. m = Comm!Meaning(CommRecord("set_group_mask", m, 8, 0, x))
  BY CommPlain
<1>6. CommPacket(CommRecord("set_group_mask", m, 8, 0, x))
  BY <1>2, <1>3, <1>4, <1>5, CommNewTyped
<1> QED BY <1>6 DEF m, x

LEMMA CommGroups ==
    ASSUME Comm!ConstantsOK
    PROVE  /\ Comm!Groups \in Seq({None, 0, 3}) /\ Len(Comm!Groups) = 3
           /\ \A v \in {None, 0, 3} : Comm!Otherwise(v, 0) \in Int
           /\ \A v : Comm!Group(v) = <<Comm!Otherwise(v, 0)>>
BY DEF Comm!Groups, Comm!Otherwise, Comm!Group, Comm!ALL_GROUPS

LEMMA CommSendsStop ==
    ASSUME Comm!ConstantsOK, NEW a \in Comm!Variants(<<Comm!Groups>>), NEW x,
           x = CommJoin(<< 3 >>, Comm!Group(a[1]))
    PROVE  CommPacket(CommRecord("hl_stop", a, 8, 0, x))
<1> DEFINE c == <<Comm!Groups>>
           m == Comm!Group(a[1])
<1>1. CommChoices(c, 1)
  <2>1. DOMAIN c = 1..1 /\ Len(c[1]) = 3
    BY CommGroups
  <2> HIDE DEF c
  <2> QED BY <2>1 DEF CommChoices
<1>2. c[1] \in Seq({None, 0, 3})
  BY CommGroups
<1>3. a \in Comm!Variants(c)
  OBVIOUS
<1> HIDE DEF c
<1>4. a[1] \in {None, 0, 3}
  BY <1>1, <1>2, <1>3, CommArgs
<1>5. PICK g \in Int : g = Comm!Otherwise(a[1], 0)
  BY <1>4, CommGroups
<1>6. m = <<g>>
  BY <1>5, CommGroups
<1>7. CommStop(m, x)
  BY <1>6 DEF CommStop
<1>8. CommStarts(x, 3)
  BY <1>7, CommOthersStart
<1>9. CommShape("hl_stop", m, x)
  BY <1>7 DEF CommShape
<1>10. "hl_stop" = CommOp(8, 0, 3)
  BY DEF CommOp
<1>11. m = Comm!Meaning(CommRecord("hl_stop", a, 8, 0, x))
  <2> DEFINE p == CommRecord("hl_stop", a, 8, 0, x)
  <2>1. p.op = "hl_stop" /\ p.args = a
    BY DEF CommRecord
  <2> HIDE DEF p
  <2>2. Comm!Meaning(p) = Comm!Group(p.args[1])
    BY <2>1, CommMeanings
  <2> QED BY <2>1, <2>2 DEF p
<1> HIDE DEF m
<1> QED BY <1>8, <1>9, <1>10, <1>11, CommNewTyped

\* The meaning of a record, where an argument has a default.
LEMMA CommDefaults ==
    ASSUME NEW op, NEW a, NEW port, NEW channel, NEW x
    PROVE  /\ op \in {"take_off", "land", "define_trajectory"} =>
                 Comm!Meaning(CommRecord(op, a, port, channel, x))
                   = [a EXCEPT ![4] = Comm!Otherwise(a[4], 0)]
           /\ op \in {"go_to", "spiral"} =>
                 Comm!Meaning(CommRecord(op, a, port, channel, x))
                   = [a EXCEPT ![8] = Comm!Otherwise(a[8], 0)]
           /\ op = "start_trajectory" =>
                 Comm!Meaning(CommRecord(op, a, port, channel, x))
                   = [a EXCEPT ![6] = Comm!Otherwise(a[6], 0)]
<1> DEFINE p == CommRecord(op, a, port, channel, x)
<1>1. p.op = op /\ p.args = a
  BY DEF CommRecord
<1> HIDE DEF p
<1>2. /\ op \in {"take_off", "land", "define_trajectory"} =>
            Comm!Meaning(p) = [p.args EXCEPT ![4] = Comm!Otherwise(p.args[4], 0)]
      /\ op \in {"go_to", "spiral"} =>
            Comm!Meaning(p) = [p.args EXCEPT ![8] = Comm!Otherwise(p.args[8], 0)]
      /\ op = "start_trajectory" =>
            Comm!Meaning(p) = [p.args EXCEPT ![6] = Comm!Otherwise(p.args[6], 0)]
  BY <1>1, CommMeanings
<1> QED BY <1>1, <1>2 DEF p

LEMMA CommSendsTowards ==
    ASSUME Comm!ConstantsOK, NEW a \in Comm!Variants(Comm!HeightChoices), NEW x,
           NEW op, NEW t \in Int, x = Comm!Towards(t, a),
           \/ op = "take_off" /\ t = 7
           \/ op = "land" /\ t = 8
    PROVE  CommPacket(CommRecord(op, a, 8, 0, x))
<1> DEFINE c == Comm!HeightChoices
<1>1. CommChoices(c, 4)
  <2> DEFINE h == <<None>> \o Numbers
  <2>1. Len(h) \in Nat \ {0}
    BY CommNumbers
  <2> HIDE DEF h
  <2>2. c = <<Numbers, h, Numbers, Comm!Groups>>
    BY DEF h, Comm!HeightChoices
  <2>3. /\ DOMAIN c = 1..4 /\ c[1] = Numbers /\ c[2] = h /\ c[3] = Numbers
        /\ c[4] = Comm!Groups
    BY <2>2
  <2> HIDE DEF c
  <2>4. Len(c[1]) \in Nat \ {0} /\ Len(c[3]) \in Nat \ {0}
    BY <2>3, CommNumbers
  <2>5. Len(c[2]) \in Nat \ {0}
    BY <2>1, <2>3
  <2>6. Len(Comm!Groups) = 3
    BY CommGroups
  <2>7. Len(c[4]) \in Nat \ {0}
    BY <2>3, <2>6
  <2> QED BY <2>3, <2>4, <2>5, <2>7 DEF CommChoices
<1>2. /\ c[1] = Numbers /\ c[3] = Numbers
      /\ c[2] \in Seq(Num \union {None}) /\ c[4] \in Seq({None, 0, 3})
  <2>1. c[1] = Numbers /\ c[3] = Numbers /\ c[2] = <<None>> \o Numbers /\ c[4] = Comm!Groups
    BY DEF Comm!HeightChoices
  <2>2. <<None>> \in Seq(Num \union {None}) /\ Numbers \in Seq(Num \union {None})
    BY CommNumbers
  <2>3. <<None>> \o Numbers \in Seq(Num \union {None})
    BY <2>2, ConcatProperties
  <2> QED BY <2>1, <2>3, CommGroups
<1>3. a \in Comm!Variants(c)
  OBVIOUS
<1> HIDE DEF c
<1>4. /\ CommTuple(a, 4) /\ a[1] \in Num /\ a[2] \in Num \union {None} /\ a[3] \in Num
      /\ a[4] \in {None, 0, 3}
  <2>1. CommTuple(a, 4) /\ \A k \in 1..4 : \A S : c[k] \in Seq(S) => a[k] \in S
    BY <1>1, <1>3, CommArgs
  <2>2. a[1] \in Num /\ a[3] \in Num
    <3>1. \A i \in 1..4 : c[i] = Numbers => a[i] \in Num
      BY <1>1, <1>3, CommNums
    <3> QED BY <1>2, <3>1
  <2> QED BY <1>2, <2>1, <2>2
<1>5. PICK g \in Int : g = Comm!Otherwise(a[4], 0)
  BY <1>4, CommGroups
<1>6. Comm!Group(a[4]) = <<g>>
  BY <1>5, CommGroups
<1> DEFINE m == [a EXCEPT ![4] = g]
<1>7. CommTuple(m, 4) /\ m[4] = g /\ \A k \in 1..4 : k # 4 => m[k] = a[k]
  <2>1. DOMAIN a = 1..4
    BY <1>4 DEF CommTuple
  <2>2. \A k \in DOMAIN a : m[k] = IF k = 4 THEN g ELSE a[k]
    OBVIOUS
  <2>3. m = [k \in 1..4 |-> m[k]]
    BY <2>1
  <2> HIDE DEF m
  <2>4. m[4] = g /\ \A k \in 1..4 : k # 4 => m[k] = a[k]
    BY <2>1, <2>2
  <2> QED BY <2>3, <2>4 DEF CommTuple
<1>8. m = Comm!Meaning(CommRecord(op, a, 8, 0, x))
  BY <1>5, CommDefaults
<1> HIDE DEF m
<1>9. m[1] = a[1] /\ m[2] = a[2] /\ m[3] = a[3]
  BY <1>7
<1>10. x = CommJoin(CommJoin(CommJoin(CommJoin(CommJoin(<<t>>, <<g>>), Comm!Float(a[1])),
                                      Comm!Float(Comm!Otherwise(a[2], 0))),
                             Comm!Flag(a[2] = None)),
                    Comm!Float(a[3]))
  BY <1>6, Zenon DEF Comm!Towards, CommJoin
<1>11. CommTowards(m, x, t)
  <2>1. /\ m[1] \in Num /\ m[2] \in Num \union {None} /\ m[3] \in Num /\ m[4] \in Int
    BY <1>4, <1>7, <1>9
  <2>2. x = CommJoin(CommJoin(CommJoin(CommJoin(CommJoin(<<t>>, <<m[4]>>),
                                                Comm!Float(m[1])),
                                       Comm!Float(Comm!Otherwise(m[2], 0))),
                              Comm!Flag(m[2] = None)),
                     Comm!Float(m[3]))
    BY <1>7, <1>9, <1>10, Zenon
  <2> QED BY <1>7, <2>1, <2>2, Zenon DEF CommTowards
<1>12. CommStarts(x, t)
  BY <1>11, CommTowardsStarts
<1>13. CommShape(op, m, x)
  BY <1>11 DEF CommShape
<1>14. op = CommOp(8, 0, t) /\ op # "manual"
  BY DEF CommOp
<1> QED BY <1>8, <1>12, <1>13, <1>14, CommNewTyped

\* Floats only look at the numbers they are of.
LEMMA CommFloatsSame ==
    ASSUME NEW n \in Nat, NEW a, NEW m, \A i \in 1..n : m[i] = a[i]
    PROVE  Comm!Floats(m, n) = Comm!Floats(a, n)
<1>1. ASSUME NEW k \in 1..(4 * n)
      PROVE  Comm!Float(m[(k + 3) \div 4])[((k + 3) % 4) + 1]
               = Comm!Float(a[(k + 3) \div 4])[((k + 3) % 4) + 1]
  <2>1. (k + 3) \div 4 \in 1..n
    OBVIOUS
  <2> DEFINE i == (k + 3) \div 4
  <2>2. m[i] = a[i]
    BY <2>1
  <2> QED BY <2>2
<1> QED BY <1>1 DEF Comm!Floats

LEMMA CommSendsPath ==
    ASSUME Comm!ConstantsOK, NEW f, f \in Seq(Num), Len(f) \in Nat \ {0},
           NEW a \in Comm!Variants(<<f, Numbers, Numbers, Numbers, Numbers,
                                     Comm!Flags, Comm!Flags, Comm!Groups>>), NEW x,
           NEW op, NEW t \in Int,
           x = CommJoin(CommJoin(CommJoin(CommJoin(<<t>>, Comm!Group(a[8])), Comm!Flag(a[6])),
                                 Comm!Flag(a[7])),
                        Comm!Floats(a, 5)),
           \/ op = "go_to" /\ t = 12
           \/ op = "spiral" /\ t = 11
    PROVE  CommPacket(CommRecord(op, a, 8, 0, x))
<1> DEFINE c == <<f, Numbers, Numbers, Numbers, Numbers,
                  Comm!Flags, Comm!Flags, Comm!Groups>>
<1>1. CommChoices(c, 8)
  <2>1. Len(Comm!Flags) = 2
    BY DEF Comm!Flags
  <2>2. DOMAIN c = 1..8 /\ c[1] = f /\ c[6] = Comm!Flags /\ c[7] = Comm!Flags
        /\ c[8] = Comm!Groups /\ c[2] = Numbers /\ c[3] = Numbers /\ c[4] = Numbers
        /\ c[5] = Numbers
    OBVIOUS
  <2> HIDE DEF c
  <2>3. /\ Len(c[1]) \in Nat \ {0} /\ Len(c[2]) \in Nat \ {0} /\ Len(c[3]) \in Nat \ {0}
        /\ Len(c[4]) \in Nat \ {0} /\ Len(c[5]) \in Nat \ {0}
    BY <2>2, CommNumbers
  <2>4. Len(Comm!Groups) = 3
    BY CommGroups
  <2>5. /\ Len(c[6]) \in Nat \ {0} /\ Len(c[7]) \in Nat \ {0} /\ Len(c[8]) \in Nat \ {0}
    <3>1. c[6] = Comm!Flags /\ c[7] = Comm!Flags /\ c[8] = Comm!Groups
      BY <2>2
    <3>2. Len(c[6]) = 2 /\ Len(c[7]) = 2 /\ Len(c[8]) = 3
      BY <2>1, <2>4, <3>1, Zenon
    <3> QED BY <3>2
  <2> QED BY <2>2, <2>3, <2>5 DEF CommChoices
<1>2. /\ c[1] = f /\ c[2] = Numbers /\ c[3] = Numbers /\ c[4] = Numbers /\ c[5] = Numbers
      /\ c[6] = Comm!Flags /\ c[7] = Comm!Flags /\ c[8] = Comm!Groups
  OBVIOUS
<1>3. a \in Comm!Variants(c)
  OBVIOUS
<1> HIDE DEF c
<1>4. Comm!Flags \in Seq(BOOLEAN)
  BY DEF Comm!Flags
<1>5. /\ CommTuple(a, 8) /\ \A k \in 1..5 : a[k] \in Num
      /\ a[6] \in BOOLEAN /\ a[7] \in BOOLEAN /\ a[8] \in {None, 0, 3}
  <2>1. CommTuple(a, 8) /\ \A k \in 1..8 : \A S : c[k] \in Seq(S) => a[k] \in S
    BY <1>1, <1>3, CommArgs
  <2>2. a[2] \in Num /\ a[3] \in Num /\ a[4] \in Num /\ a[5] \in Num
    <3>1. \A i \in 1..8 : c[i] = Numbers => a[i] \in Num
      BY <1>1, <1>3, CommNums
    <3>2. {2, 3, 4, 5} \subseteq 1..8
      OBVIOUS
    <3>3. \A i \in {2, 3, 4, 5} : c[i] = Numbers
      BY <1>2
    <3>4. \A i \in {2, 3, 4, 5} : a[i] \in Num
      BY <3>1, <3>2, <3>3, Zenon
    <3> QED BY <3>4, Zenon
  <2>3. a[1] \in Num
    BY <1>2, <2>1
  <2>4. a[6] \in BOOLEAN /\ a[7] \in BOOLEAN
    BY <1>2, <1>4, <2>1
  <2>5. a[8] \in {None, 0, 3}
    BY <1>2, <2>1, CommGroups
  <2> QED BY <2>1, <2>2, <2>3, <2>4, <2>5
<1>6. PICK g \in Int : g = Comm!Otherwise(a[8], 0)
  BY <1>5, CommGroups
<1>7. Comm!Group(a[8]) = <<g>>
  BY <1>6, CommGroups
<1> DEFINE m == [a EXCEPT ![8] = g]
<1>8. CommTuple(m, 8) /\ m[8] = g /\ \A k \in 1..8 : k # 8 => m[k] = a[k]
  <2>1. DOMAIN a = 1..8
    BY <1>5 DEF CommTuple
  <2>2. \A k \in DOMAIN a : m[k] = IF k = 8 THEN g ELSE a[k]
    OBVIOUS
  <2>3. m = [k \in 1..8 |-> m[k]]
    BY <2>1
  <2> HIDE DEF m
  <2>4. m[8] = g /\ \A k \in 1..8 : k # 8 => m[k] = a[k]
    BY <2>1, <2>2
  <2> QED BY <2>3, <2>4 DEF CommTuple
<1>9. m = Comm!Meaning(CommRecord(op, a, 8, 0, x))
  BY <1>6, CommDefaults
<1> HIDE DEF m
<1>10. m[6] = a[6] /\ m[7] = a[7] /\ \A k \in 1..5 : m[k] = a[k]
  BY <1>8
<1>11. Comm!Floats(m, 5) = Comm!Floats(a, 5)
  BY <1>10, CommFloatsSame
<1>12. CommPath(m, x, t)
  <2>1. (\A k \in 1..5 : m[k] \in Num) /\ m[8] \in Int
    BY <1>5, <1>8, <1>10
  <2>2. m[6] \in BOOLEAN /\ m[7] \in BOOLEAN
    BY <1>5, <1>10, Zenon
  <2>3. x = CommJoin(CommJoin(CommJoin(CommJoin(<<t>>, <<m[8]>>), Comm!Flag(m[6])),
                              Comm!Flag(m[7])),
                     Comm!Floats(m, 5))
    BY <1>7, <1>8, <1>10, <1>11, Zenon
  <2> QED BY <1>8, <2>1, <2>2, <2>3, Zenon DEF CommPath
<1>13. CommStarts(x, t)
  BY <1>12, CommPathStarts
<1>14. CommShape(op, m, x)
  BY <1>12 DEF CommShape
<1>15. op = CommOp(8, 0, t) /\ op # "manual"
  BY DEF CommOp
<1> QED BY <1>9, <1>13, <1>14, <1>15, CommNewTyped

\* Small numbers are floats.
LEMMA CommSmall ==
    ASSUME NEW v \in Int, -70000 <= v, v <= 70000
    PROVE  v \in Num
<1>1. Comm!FloatMax \in Int /\ 70000 <= Comm!FloatMax
  BY SMT DEF Comm!FloatMax
<1>2. -Comm!FloatMax <= v /\ v <= Comm!FloatMax
  BY <1>1, SMT
<1> QED BY <1>1, <1>2, SMT DEF Num, Comm!FloatBits

LEMMA CommSendsDefine ==
    ASSUME Comm!ConstantsOK,
           NEW a \in Comm!Variants(<< <<0, 1>>, Comm!Offsets, <<1, 2>>, <<None, 0, 1>> >>),
           NEW x,
           x = CommJoin(CommJoin(<<6, a[1], 1, Comm!Otherwise(a[4], 0)>>, Comm!Bytes(a[2], 4)),
                        <<a[3]>>)
    PROVE  CommPacket(CommRecord("define_trajectory", a, 8, 0, x))
<1> DEFINE addresses == Comm!Offsets
<1>1. addresses \in Seq(Num) /\ Len(addresses) \in Nat \ {0}
  <2>1. 0 \in Num /\ 1 \in Num /\ 70000 \in Num
    BY CommSmall
  <2> QED BY <2>1, SMT DEF Comm!Offsets
<1>2. a \in Comm!Variants(<< <<0, 1>>, addresses, <<1, 2>>, <<None, 0, 1>> >>)
  OBVIOUS
<1> HIDE DEF addresses
<1> DEFINE c == << <<0, 1>>, addresses, <<1, 2>>, <<None, 0, 1>> >>
<1>3. CommChoices(c, 4)
  <2>1. /\ DOMAIN c = 1..4 /\ Len(c[1]) = 2 /\ c[2] = addresses /\ Len(c[3]) = 2
        /\ Len(c[4]) = 3
    OBVIOUS
  <2> HIDE DEF c
  <2> QED BY <1>1, <2>1 DEF CommChoices
<1>4. c[1] \in Seq(Int) /\ c[2] \in Seq(Num) /\ c[3] \in Seq(Int) /\ c[4] \in Seq({None, 0, 1})
  <2>1. c[1] = <<0, 1>> /\ c[2] = addresses /\ c[3] = <<1, 2>> /\ c[4] = <<None, 0, 1>>
    OBVIOUS
  <2>2. <<0, 1>> \in Seq(Int) /\ <<1, 2>> \in Seq(Int) /\ <<None, 0, 1>> \in Seq({None, 0, 1})
    OBVIOUS
  <2> HIDE DEF c
  <2>3. c[2] \in Seq(Num)
    BY <1>1, <2>1
  <2>4. c[1] \in Seq(Int) /\ c[3] \in Seq(Int)
    BY <2>1, <2>2
  <2>5. c[4] \in Seq({None, 0, 1})
    BY <2>1, <2>2
  <2> QED BY <2>3, <2>4, <2>5
<1>5. a \in Comm!Variants(c)
  BY <1>2
<1> HIDE DEF c
<1>6. /\ CommTuple(a, 4) /\ a[1] \in Int /\ a[2] \in Num /\ a[3] \in Int
      /\ a[4] \in {None, 0, 1}
  <2>1. CommTuple(a, 4) /\ \A k \in 1..4 : \A S : c[k] \in Seq(S) => a[k] \in S
    BY <1>3, <1>5, CommArgs
  <2> QED BY <1>4, <2>1
<1>7. PICK g \in Int : g = Comm!Otherwise(a[4], 0)
  BY <1>6 DEF Comm!Otherwise
<1> DEFINE m == [a EXCEPT ![4] = g]
<1>8. CommTuple(m, 4) /\ m[4] = g /\ \A k \in 1..4 : k # 4 => m[k] = a[k]
  <2>1. DOMAIN a = 1..4
    BY <1>6 DEF CommTuple
  <2>2. \A k \in DOMAIN a : m[k] = IF k = 4 THEN g ELSE a[k]
    OBVIOUS
  <2>3. m = [k \in 1..4 |-> m[k]]
    BY <2>1
  <2> HIDE DEF m
  <2>4. m[4] = g /\ \A k \in 1..4 : k # 4 => m[k] = a[k]
    BY <2>1, <2>2
  <2> QED BY <2>3, <2>4 DEF CommTuple
<1>9. PICK op : op = "define_trajectory"
  OBVIOUS
<1>10. m = Comm!Meaning(CommRecord(op, a, 8, 0, x))
  BY <1>7, <1>9, CommDefaults
<1> HIDE DEF m
<1>11. m[1] = a[1] /\ m[2] = a[2] /\ m[3] = a[3]
  BY <1>8
<1>12. CommDefine(m, x)
  <2>1. m[1] \in Int /\ m[2] \in Num /\ m[3] \in Int /\ m[4] \in Int
    BY <1>6, <1>8, <1>11
  <2>2. x = CommJoin(CommJoin(<<6, m[1], 1, m[4]>>, Comm!Float(m[2])), <<m[3]>>)
    <3>1. PICK u, v : u = <<6, a[1], 1, Comm!Otherwise(a[4], 0)>> /\ v = <<a[3]>>
      OBVIOUS
    <3>2. u = <<6, m[1], 1, m[4]>> /\ v = <<m[3]>>
      BY <1>7, <1>8, <1>11, <3>1
    <3>3. Comm!Bytes(a[2], 4) = Comm!Float(m[2])
      BY <1>11 DEF Comm!Float
    <3>4. x = CommJoin(CommJoin(u, Comm!Float(m[2])), v)
      BY <3>1, <3>3
    <3> QED BY <3>2, <3>4
  <2> QED BY <1>8, <2>1, <2>2 DEF CommDefine
<1>13. CommStarts(x, 6)
  BY <1>12, CommDefineStarts
<1>14. CommShape(op, m, x)
  BY <1>9, <1>12 DEF CommShape
<1>15. op = CommOp(8, 0, 6) /\ op # "manual"
  BY <1>9 DEF CommOp
<1>16. CommPacket(CommRecord(op, a, 8, 0, x))
  BY <1>10, <1>13, <1>14, <1>15, CommNewTyped
<1> QED BY <1>9, <1>16

LEMMA CommSendsStart ==
    ASSUME Comm!ConstantsOK,
           NEW a \in Comm!Variants(<< <<0, 1>>, Numbers, Comm!Flags, Comm!Flags, Comm!Flags,
                                      Comm!Groups>>), NEW x,
           x = CommJoin(CommJoin(CommJoin(CommJoin(CommJoin(CommJoin(<< 13 >>, Comm!Group(a[6])),
                                                            Comm!Flag(a[3])),
                                                   Comm!Flag(a[4])),
                                          Comm!Flag(a[5])),
                                 <<a[1]>>),
                        Comm!Float(a[2]))
    PROVE  CommPacket(CommRecord("start_trajectory", a, 8, 0, x))
<1> DEFINE c == << <<0, 1>>, Numbers, Comm!Flags, Comm!Flags, Comm!Flags, Comm!Groups>>
<1>1. /\ DOMAIN c = 1..6 /\ c[1] = <<0, 1>> /\ c[2] = Numbers /\ c[3] = Comm!Flags
      /\ c[4] = Comm!Flags /\ c[5] = Comm!Flags /\ c[6] = Comm!Groups
  OBVIOUS
<1>2. a \in Comm!Variants(c)
  OBVIOUS
<1> HIDE DEF c
<1>3. Comm!Flags \in Seq(BOOLEAN) /\ Len(Comm!Flags) = 2
  BY DEF Comm!Flags
<1>4. CommChoices(c, 6)
  <2>1. Len(Comm!Groups) = 3 /\ Len(<<0, 1>>) = 2
    BY CommGroups
  <2>2. Len(c[1]) = 2 /\ Len(c[3]) = 2 /\ Len(c[4]) = 2 /\ Len(c[5]) = 2 /\ Len(c[6]) = 3
    BY <1>1, <1>3, <2>1, Zenon
  <2>3. Len(c[2]) \in Nat \ {0}
    BY <1>1, CommNumbers
  <2>4. /\ Len(c[1]) \in Nat \ {0} /\ Len(c[3]) \in Nat \ {0} /\ Len(c[4]) \in Nat \ {0}
        /\ Len(c[5]) \in Nat \ {0} /\ Len(c[6]) \in Nat \ {0}
    BY <2>2
  <2>5. ASSUME NEW k \in 1..6 PROVE Len(c[k]) \in Nat \ {0}
    <3>1. CASE k = 1 \/ k = 3 \/ k = 4
      BY <2>4, <3>1
    <3>2. CASE k = 5 \/ k = 6
      BY <2>4, <3>2
    <3>3. CASE k = 2
      BY <2>3, <3>3
    <3> QED BY <3>1, <3>2, <3>3
  <2> QED BY <1>1, <2>5 DEF CommChoices
<1>5. /\ CommTuple(a, 6) /\ a[1] \in Int /\ a[2] \in Num /\ a[3] \in BOOLEAN
      /\ a[4] \in BOOLEAN /\ a[5] \in BOOLEAN /\ a[6] \in {None, 0, 3}
  <2>1. CommTuple(a, 6) /\ \A k \in 1..6 : \A S : c[k] \in Seq(S) => a[k] \in S
    BY <1>2, <1>4, CommArgs
  <2>2. a[2] \in Num
    <3>1. \A i \in 1..6 : c[i] = Numbers => a[i] \in Num
      BY <1>2, <1>4, CommNums
    <3> QED BY <1>1, <3>1
  <2>3. c[1] \in Seq(Int)
    BY <1>1
  <2>4. a[1] \in Int
    BY <2>1, <2>3
  <2>5. a[3] \in BOOLEAN /\ a[4] \in BOOLEAN /\ a[5] \in BOOLEAN
    BY <1>1, <1>3, <2>1
  <2>6. a[6] \in {None, 0, 3}
    BY <1>1, <2>1, CommGroups
  <2> QED BY <2>1, <2>2, <2>4, <2>5, <2>6
<1>6. PICK g \in Int : g = Comm!Otherwise(a[6], 0)
  BY <1>5, CommGroups
<1>7. Comm!Group(a[6]) = <<g>>
  BY <1>6, CommGroups
<1> DEFINE m == [a EXCEPT ![6] = g]
<1>8. CommTuple(m, 6) /\ m[6] = g /\ \A k \in 1..6 : k # 6 => m[k] = a[k]
  <2>1. DOMAIN a = 1..6
    BY <1>5 DEF CommTuple
  <2>2. \A k \in DOMAIN a : m[k] = IF k = 6 THEN g ELSE a[k]
    OBVIOUS
  <2>3. m = [k \in 1..6 |-> m[k]]
    BY <2>1
  <2> HIDE DEF m
  <2>4. m[6] = g /\ \A k \in 1..6 : k # 6 => m[k] = a[k]
    BY <2>1, <2>2
  <2> QED BY <2>3, <2>4 DEF CommTuple
<1>9. PICK op : op = "start_trajectory"
  OBVIOUS
<1>10. m = Comm!Meaning(CommRecord(op, a, 8, 0, x))
  BY <1>6, <1>9, CommDefaults
<1> HIDE DEF m
<1>11. m[1] = a[1] /\ m[2] = a[2] /\ m[3] = a[3] /\ m[4] = a[4] /\ m[5] = a[5]
  BY <1>8
<1>12. CommStart(m, x)
  <2>1. m[1] \in Int /\ m[2] \in Num /\ m[6] \in Int
    BY <1>5, <1>8, <1>11
  <2>2. m[3] \in BOOLEAN /\ m[4] \in BOOLEAN /\ m[5] \in BOOLEAN
    BY <1>5, <1>11, Zenon
  <2>3. x = CommJoin(CommJoin(CommJoin(CommJoin(CommJoin(CommJoin(<<13>>, <<m[6]>>),
                                                         Comm!Flag(m[3])),
                                                Comm!Flag(m[4])),
                                       Comm!Flag(m[5])),
                              <<m[1]>>),
                     Comm!Float(m[2]))
    BY <1>7, <1>8, <1>11, Zenon
  <2> QED BY <1>8, <2>1, <2>2, <2>3, Zenon DEF CommStart
<1>13. CommStarts(x, 13)
  BY <1>12, CommStartStarts
<1>14. CommShape(op, m, x)
  BY <1>9, <1>12 DEF CommShape
<1>15. op = CommOp(8, 0, 13) /\ op # "manual"
  BY <1>9 DEF CommOp
<1>16. CommPacket(CommRecord(op, a, 8, 0, x))
  BY <1>10, <1>13, <1>14, <1>15, CommNewTyped
<1> QED BY <1>9, <1>16

LEMMA CommSendsPosition ==
    ASSUME Comm!ConstantsOK, NEW a \in Comm!Variants(<<Numbers, Numbers, Numbers>>), NEW x,
           x = Comm!Floats(a, 3)
    PROVE  CommPacket(CommRecord("external_position", a, 6, 0, x))
<1> DEFINE c == <<Numbers, Numbers, Numbers>>
<1>1. CommChoices(c, 3)
  BY CommNumbers DEF CommChoices
<1>2. \A k \in 1..3 : c[k] = Numbers
  OBVIOUS
<1>3. a \in Comm!Variants(c)
  OBVIOUS
<1> HIDE DEF c
<1>4. CommTuple(a, 3) /\ \A k \in 1..3 : a[k] \in Num
  <2>1. CommTuple(a, 3)
    BY <1>1, <1>3, CommArgs
  <2>2. \A k \in 1..3 : c[k] = Numbers => a[k] \in Num
    BY <1>1, <1>3, CommNums
  <2> QED BY <1>2, <2>1, <2>2
<1>5. CommPosition(a, x)
  BY <1>4 DEF CommPosition
<1>6. x \in Seq(Int)
  BY <1>5, CommOthersStart
<1>7. PICK op : op = "external_position"
  OBVIOUS
<1>8. CommShape(op, a, x)
  BY <1>5, <1>7 DEF CommShape
<1>9. CommPacket(CommRecord(op, a, 6, 0, x))
  BY <1>6, <1>7, <1>8, CommNewUntyped
<1> QED BY <1>7, <1>9

LEMMA CommSendsPose ==
    ASSUME Comm!ConstantsOK, NEW a \in Comm!Variants([k \in 1..7 |-> Numbers]), NEW x,
           x = CommJoin(<< 8 >>, Comm!Floats(a, 7))
    PROVE  CommPacket(CommRecord("external_pose", a, 6, 1, x))
<1> DEFINE c == [k \in 1..7 |-> Numbers]
<1>1. DOMAIN c = 1..7 /\ \A k \in 1..7 : c[k] = Numbers
  OBVIOUS
<1>2. a \in Comm!Variants(c)
  OBVIOUS
<1> HIDE DEF c
<1>3. CommChoices(c, 7)
  BY <1>1, CommNumbers DEF CommChoices
<1>4. CommTuple(a, 7) /\ \A k \in 1..7 : a[k] \in Num
  <2>1. CommTuple(a, 7)
    BY <1>2, <1>3, CommArgs
  <2>2. \A k \in 1..7 : c[k] = Numbers => a[k] \in Num
    BY <1>2, <1>3, CommNums
  <2> QED BY <1>1, <2>1, <2>2
<1>5. CommPose(a, x)
  BY <1>4 DEF CommPose
<1>6. CommStarts(x, 8)
  BY <1>5, CommOthersStart
<1>7. PICK op : op = "external_pose"
  OBVIOUS
<1>8. CommShape(op, a, x)
  BY <1>5, <1>7 DEF CommShape
<1>9. op = CommOp(6, 1, 8) /\ op # "manual"
  BY <1>7 DEF CommOp
<1>10. a = Comm!Meaning(CommRecord(op, a, 6, 1, x))
  BY <1>7, CommPlain
<1>11. CommPacket(CommRecord(op, a, 6, 1, x))
  BY <1>6, <1>8, <1>9, <1>10, CommNewTyped
<1> QED BY <1>7, <1>11

LEMMA CommSendsLpp ==
    ASSUME NEW a \in Comm!Variants(<< <<0, 3>>, << <<>>, << 3 >>, <<0, 0>> >> >>), NEW x,
           x = CommJoin(<<2, a[1]>>, a[2])
    PROVE  CommPacket(CommRecord("lpp", a, 6, 1, x))
<1> DEFINE c == << <<0, 3>>, << <<>>, <<3>>, <<0, 0>> >> >>
<1>1. DOMAIN c = 1..2 /\ c[1] \in Seq(Int) /\ c[2] \in Seq(Seq(Int))
  OBVIOUS
<1>2. Len(c[1]) = 2 /\ Len(c[2]) = 3
  OBVIOUS
<1>3. a \in Comm!Variants(c)
  OBVIOUS
<1> HIDE DEF c
<1>4. CommChoices(c, 2)
  BY <1>1, <1>2 DEF CommChoices
<1>5. CommTuple(a, 2) /\ a[1] \in Int /\ a[2] \in Seq(Int)
  <2>1. CommTuple(a, 2) /\ \A k \in 1..2 : \A S : c[k] \in Seq(S) => a[k] \in S
    BY <1>3, <1>4, CommArgs
  <2> QED BY <1>1, <2>1
<1>6. CommLpp(a, x)
  BY <1>5 DEF CommLpp
<1>7. CommStarts(x, 2)
  BY <1>6, CommOthersStart
<1>8. PICK op : op = "lpp"
  OBVIOUS
<1>9. CommShape(op, a, x)
  BY <1>6, <1>8 DEF CommShape
<1>10. op = CommOp(6, 1, 2) /\ op # "manual"
  BY <1>8 DEF CommOp
<1>11. a = Comm!Meaning(CommRecord(op, a, 6, 1, x))
  BY <1>8, CommPlain
<1>12. CommPacket(CommRecord(op, a, 6, 1, x))
  BY <1>7, <1>9, <1>10, <1>11, CommNewTyped
<1> QED BY <1>8, <1>12

LEMMA CommSendsSwitch ==
    ASSUME NEW b \in BOOLEAN, NEW x, NEW op, NEW t \in Int,
           \/ op = "cont_wave" /\ t = 0
           \/ op = "arming" /\ t = 1,
           x = CommJoin(<<t>>, Comm!Flag(b))
    PROVE  CommPacket(CommRecord(op, <<b>>, 13, 0, x))
<1>1. PICK m : m = <<b>>
  OBVIOUS
<1>2. CommSwitch(m, x, t)
  BY <1>1, Zenon DEF CommSwitch
<1>3. CommStarts(x, t)
  BY <1>2, CommOthersStart
<1>4. CommShape(op, m, x)
  BY <1>2 DEF CommShape
<1>5. op = CommOp(13, 0, t) /\ op # "manual"
  BY DEF CommOp
<1>6. m = Comm!Meaning(CommRecord(op, m, 13, 0, x))
  BY CommPlain
<1>7. CommPacket(CommRecord(op, m, 13, 0, x))
  BY <1>3, <1>4, <1>5, <1>6, CommNewTyped
<1> QED BY <1>1, <1>7, Zenon

LEMMA CommSendsApp ==
    ASSUME NEW n \in Nat
    PROVE  CommPacket(CommRecord("app", <<n>>, 13, 2, [k \in 1..n |-> 0]))
<1>1. PICK m, x : m = <<n>> /\ x = [k \in 1..n |-> 0]
  OBVIOUS
<1>2. CommApp(m, x)
  BY <1>1 DEF CommApp
<1>3. x \in Seq(Int)
  BY <1>2, CommOthersStart
<1>4. PICK op : op = "app"
  OBVIOUS
<1>5. CommShape(op, m, x)
  BY <1>2, <1>4 DEF CommShape
<1>6. CommPacket(CommRecord(op, m, 13, 2, x))
  BY <1>3, <1>4, <1>5, CommNewUntyped
<1> QED BY <1>1, <1>4, <1>6

-----------------------------------------------------------------------------
(* Commands: the invariant *)

LEMMA CommSends ==
    ASSUME CommInv, NEW op, NEW args, NEW port, NEW channel, NEW payload,
           Comm!Send(op, args, port, channel, payload),
           CommPacket(CommRecord(op, args, port, channel, payload))
    PROVE  CommInv'
<1>1. PICK S : sent \in Seq(S) /\ \A p \in S : CommPacket(p)
  BY DEF CommInv
<1> DEFINE r == CommRecord(op, args, port, channel, payload)
           T == S \union {r}
<1>2. sent' = sent \/ sent' = Append(sent, r)
  BY DEF Comm!Send, CommRecord
<1>3. r \in T /\ S \subseteq T
  OBVIOUS
<1>4. \A p \in T : CommPacket(p)
  BY <1>1
<1> HIDE DEF r, T
<1>5. sent \in Seq(T)
  BY <1>1, <1>3
<1>6. Append(sent, r) \in Seq(T)
  BY <1>3, <1>5
<1>7. sent' \in Seq(T)
  BY <1>2, <1>5, <1>6
<1> QED BY <1>4, <1>7 DEF CommInv

LEMMA CommInvInit == Comm!Init => CommInv
<1> SUFFICES ASSUME Comm!Init PROVE CommInv
  OBVIOUS
<1>1. sent \in Seq({}) /\ \A p \in {} : CommPacket(p)
  BY DEF Comm!Init
<1> QED BY <1>1 DEF CommInv

\* Every call that sends a packet sends one like that.
LEMMA CommInvSetpoints ==
    ASSUME Comm!ConstantsOK, CommInv,
           \/ Comm!setpoint_rpyt \/ Comm!SetpointOfFour \/ Comm!setpoint_manual
           \/ Comm!setpoint_stop \/ Comm!notify_setpoint_stop
    PROVE  CommInv'
<1>1. CASE Comm!setpoint_rpyt
  <2>1. PICK a \in Comm!Variants(<<Numbers, Numbers, Numbers, Comm!Thrusts16>>) :
            Comm!Send("rpyt", a, 3, 0,
                      CommJoin(Comm!Floats(<<a[1], -a[2], a[3]>>, 3), Comm!Bytes(a[4], 2)))
    BY <1>1, Zenon DEF Comm!setpoint_rpyt, Comm!COMMANDER_PORT, CommJoin
  <2> QED BY <2>1, CommSendsRpyt, CommSends
<1>2. CASE Comm!SetpointOfFour
  <2>1. PICK op \in DOMAIN Comm!SetpointTypes,
             a \in Comm!Variants(<<Numbers, Numbers, Numbers, Numbers>>) :
            Comm!Send(op, a, 7, 0, CommJoin(<<Comm!SetpointTypes[op]>>, Comm!Floats(a, 4)))
    BY <1>2, Zenon DEF Comm!SetpointOfFour, Comm!GENERIC_SETPOINT_PORT, CommJoin
  <2>2. PICK t : t = Comm!SetpointTypes[op]
    OBVIOUS
  <2>3. /\ t \in Int
        /\ \/ op = "position" /\ t = 7
           \/ op = "velocity_world" /\ t = 8
           \/ op = "zdistance" /\ t = 9
           \/ op = "hover" /\ t = 10
    BY <2>2 DEF Comm!SetpointTypes
  <2>4. Comm!Send(op, a, 7, 0, CommJoin(<<t>>, Comm!Floats(a, 4)))
    BY <2>1, <2>2, Zenon
  <2>5. CommPacket(CommRecord(op, a, 7, 0, CommJoin(<<t>>, Comm!Floats(a, 4))))
    BY <2>3, CommSendsFour
  <2> QED BY <2>4, <2>5, CommSends
<1>3. CASE Comm!setpoint_manual
  <2>1. PICK a \in Comm!Variants(<<Numbers, Numbers, Numbers, Thrusts, Comm!Flags>>) :
            Comm!Send("manual", a, 7, 0,
                      CommJoin(CommJoin(CommJoin(<<11>>, Comm!Floats(a, 3)),
                                        Comm!Bytes(Comm!Thrust16(a[4]), 2)),
                               Comm!Flag(a[5])))
    BY <1>3, Zenon DEF Comm!setpoint_manual, Comm!GENERIC_SETPOINT_PORT, CommJoin
  <2> QED BY <2>1, CommSendsManual, CommSends
<1>4. CASE Comm!setpoint_stop
  <2>1. Comm!Send("stop", <<>>, 7, 0, <<0>>)
    BY <1>4 DEF Comm!setpoint_stop, Comm!GENERIC_SETPOINT_PORT
  <2> QED BY <2>1, CommSendsBare, CommSends
<1>5. CASE Comm!notify_setpoint_stop
  <2>1. PICK ms \in {0, 500} : Comm!Send("notify", <<ms>>, 7, 1, CommJoin(<<0>>, Comm!Bytes(ms, 4)))
    BY <1>5, Zenon DEF Comm!notify_setpoint_stop, Comm!GENERIC_SETPOINT_PORT,
                       Comm!GENERIC_CMD_CHANNEL, CommJoin
  <2>2. ms \in Nat /\ ms <= 65535
    BY SMT
  <2> QED BY <2>1, <2>2, CommSendsNotify, CommSends
<1> QED BY <1>1, <1>2, <1>3, <1>4, <1>5

LEMMA CommSpiral ==
    LET f == <<0, 8, -8, 9, -9>> IN f \in Seq(Num) /\ Len(f) \in Nat \ {0}
<1>1. 0 \in Num /\ 8 \in Num /\ -8 \in Num /\ 9 \in Num /\ -9 \in Num
  BY CommSmall
<1> QED BY <1>1

LEMMA CommInvLevel ==
    ASSUME Comm!ConstantsOK, CommInv,
           \/ Comm!set_group_mask \/ Comm!stop \/ Comm!take_off \/ Comm!land
           \/ Comm!go_to \/ Comm!spiral \/ Comm!define_trajectory \/ Comm!start_trajectory
    PROVE  CommInv'
<1>1. CASE Comm!set_group_mask
  <2>1. PICK g \in {0, 3} : Comm!Send("set_group_mask", <<g>>, 8, 0, <<0, g>>)
    BY <1>1 DEF Comm!set_group_mask, Comm!HighLevel, Comm!HL_COMMANDER_PORT
  <2>2. g \in Int
    OBVIOUS
  <2> QED BY <2>1, <2>2, CommSendsMask, CommSends
<1>2. CASE Comm!stop
  <2>1. PICK a \in Comm!Variants(<<Comm!Groups>>) :
            Comm!Send("hl_stop", a, 8, 0, CommJoin(<<3>>, Comm!Group(a[1])))
    BY <1>2, Zenon DEF Comm!stop, Comm!HighLevel, Comm!HL_COMMANDER_PORT, CommJoin
  <2> QED BY <2>1, CommSendsStop, CommSends
<1>3. CASE Comm!take_off
  <2>1. PICK a \in Comm!Variants(Comm!HeightChoices) :
            Comm!Send("take_off", a, 8, 0, Comm!Towards(7, a))
    BY <1>3, Zenon DEF Comm!take_off, Comm!HighLevel, Comm!HL_COMMANDER_PORT
  <2>2. CommPacket(CommRecord("take_off", a, 8, 0, Comm!Towards(7, a)))
    BY CommSendsTowards
  <2> QED BY <2>1, <2>2, CommSends
<1>4. CASE Comm!land
  <2>1. PICK a \in Comm!Variants(Comm!HeightChoices) :
            Comm!Send("land", a, 8, 0, Comm!Towards(8, a))
    BY <1>4, Zenon DEF Comm!land, Comm!HighLevel, Comm!HL_COMMANDER_PORT
  <2>2. CommPacket(CommRecord("land", a, 8, 0, Comm!Towards(8, a)))
    BY CommSendsTowards
  <2> QED BY <2>1, <2>2, CommSends
<1>5. CASE Comm!go_to
  <2>1. PICK a \in Comm!Variants(<<Numbers, Numbers, Numbers, Numbers, Numbers,
                                   Comm!Flags, Comm!Flags, Comm!Groups>>) :
            Comm!Send("go_to", a, 8, 0,
                CommJoin(CommJoin(CommJoin(CommJoin(<<12>>, Comm!Group(a[8])),
                                           Comm!Flag(a[6])),
                                  Comm!Flag(a[7])),
                         Comm!Floats(a, 5)))
    BY <1>5, Zenon DEF Comm!go_to, Comm!HighLevel, Comm!HL_COMMANDER_PORT, CommJoin
  <2>2. Numbers \in Seq(Num) /\ Len(Numbers) \in Nat \ {0}
    BY CommNumbers
  <2> QED BY <2>1, <2>2, CommSendsPath, CommSends
<1>6. CASE Comm!spiral
  <2>1. PICK a \in Comm!Variants(<< <<0, 8, -8, 9, -9>>, Numbers, Numbers, Numbers, Numbers,
                                   Comm!Flags, Comm!Flags, Comm!Groups>>) :
            \/ Comm!Refuse("InvalidArgument")
            \/ Comm!Send("spiral", a, 8, 0,
                  CommJoin(CommJoin(CommJoin(CommJoin(<<11>>, Comm!Group(a[8])),
                                             Comm!Flag(a[6])),
                                    Comm!Flag(a[7])),
                           Comm!Floats(a, 5)))
    BY <1>6, Zenon DEF Comm!spiral, Comm!HighLevel, Comm!HL_COMMANDER_PORT, CommJoin
  <2>2. CASE Comm!Refuse("InvalidArgument")
    BY <2>2 DEF Comm!Refuse, CommInv
  <2>3. CASE Comm!Send("spiral", a, 8, 0,
                  CommJoin(CommJoin(CommJoin(CommJoin(<<11>>, Comm!Group(a[8])),
                                             Comm!Flag(a[6])),
                                    Comm!Flag(a[7])),
                           Comm!Floats(a, 5)))
    <3>1. PICK f : f = <<0, 8, -8, 9, -9>>
      OBVIOUS
    <3>2. f \in Seq(Num) /\ Len(f) \in Nat \ {0}
      BY <3>1, CommSpiral
    <3>3. a \in Comm!Variants(<<f, Numbers, Numbers, Numbers, Numbers,
                                Comm!Flags, Comm!Flags, Comm!Groups>>)
      BY <3>1
    <3>3a. PICK op : op = "spiral"
      OBVIOUS
    <3>4. PICK t \in Int : op = "spiral" /\ t = 11
      BY <3>3a
    <3> DEFINE x == CommJoin(CommJoin(CommJoin(CommJoin(<<t>>, Comm!Group(a[8])),
                                               Comm!Flag(a[6])),
                                      Comm!Flag(a[7])),
                             Comm!Floats(a, 5))
    <3>5. Comm!Send(op, a, 8, 0, x)
      BY <2>3, <3>4, Zenon
    <3>6. \/ op = "go_to" /\ t = 12
          \/ op = "spiral" /\ t = 11
      BY <3>4
    <3>7. x = CommJoin(CommJoin(CommJoin(CommJoin(<<t>>, Comm!Group(a[8])),
                                         Comm!Flag(a[6])),
                                Comm!Flag(a[7])),
                       Comm!Floats(a, 5))
      OBVIOUS
    <3> HIDE DEF x
    <3>8. CommPacket(CommRecord(op, a, 8, 0, x))
      BY <3>2, <3>3, <3>6, <3>7, CommSendsPath, Zenon
    <3> QED BY <3>5, <3>8, CommSends
  <2> QED BY <2>1, <2>2, <2>3
<1>7. CASE Comm!define_trajectory
  <2>1. PICK a \in Comm!Variants(<< <<0, 1>>, Comm!Offsets, <<1, 2>>, <<None, 0, 1>> >>) :
            Comm!Send("define_trajectory", a, 8, 0,
                CommJoin(CommJoin(<<6, a[1], 1, Comm!Otherwise(a[4], 0)>>,
                                  Comm!Bytes(a[2], 4)),
                         <<a[3]>>))
    BY <1>7 DEF Comm!define_trajectory, Comm!HighLevel, Comm!HL_COMMANDER_PORT, CommJoin,
                Comm!TRAJECTORY_LOCATION_MEM, Comm!TRAJECTORY_TYPE_POLY4D
  <2> QED BY <2>1, CommSendsDefine, CommSends
<1>8. CASE Comm!start_trajectory
  <2>1. PICK a \in Comm!Variants(<< <<0, 1>>, Numbers, Comm!Flags, Comm!Flags, Comm!Flags,
                                    Comm!Groups>>) :
            Comm!Send("start_trajectory", a, 8, 0,
                CommJoin(CommJoin(CommJoin(CommJoin(CommJoin(CommJoin(<<13>>,
                                                                      Comm!Group(a[6])),
                                                             Comm!Flag(a[3])),
                                                    Comm!Flag(a[4])),
                                           Comm!Flag(a[5])),
                                  <<a[1]>>),
                         Comm!Float(a[2])))
    BY <1>8, Zenon DEF Comm!start_trajectory, Comm!HighLevel, Comm!HL_COMMANDER_PORT, CommJoin
  <2> QED BY <2>1, CommSendsStart, CommSends
<1> QED BY <1>1, <1>2, <1>3, <1>4, <1>5, <1>6, <1>7, <1>8

LEMMA CommInvOthers ==
    ASSUME Comm!ConstantsOK, CommInv,
           \/ Comm!send_emergency_stop \/ Comm!send_emergency_stop_watchdog
           \/ Comm!send_external_position \/ Comm!send_external_pose
           \/ Comm!send_short_lpp_packet \/ Comm!Switch
           \/ Comm!send_crash_recovery_request \/ Comm!AppSend \/ Comm!Lost
    PROVE  CommInv'
<1>1. CASE Comm!send_emergency_stop
  <2>1. Comm!Send("emergency", <<>>, 6, 1, <<3>>)
    BY <1>1 DEF Comm!send_emergency_stop, Comm!LOCALIZATION_PORT, Comm!GENERIC_CHANNEL
  <2> QED BY <2>1, CommSendsBare, CommSends
<1>2. CASE Comm!send_emergency_stop_watchdog
  <2>1. Comm!Send("watchdog", <<>>, 6, 1, <<4>>)
    BY <1>2 DEF Comm!send_emergency_stop_watchdog, Comm!LOCALIZATION_PORT,
                Comm!GENERIC_CHANNEL
  <2> QED BY <2>1, CommSendsBare, CommSends
<1>3. CASE Comm!send_external_position
  <2>1. PICK a \in Comm!Variants(<<Numbers, Numbers, Numbers>>) :
            Comm!Send("external_position", a, 6, 0, Comm!Floats(a, 3))
    BY <1>3, Zenon DEF Comm!send_external_position, Comm!LOCALIZATION_PORT,
                       Comm!POSITION_CHANNEL
  <2>2. CommPacket(CommRecord("external_position", a, 6, 0, Comm!Floats(a, 3)))
    BY CommSendsPosition
  <2> QED BY <2>1, <2>2, CommSends
<1>4. CASE Comm!send_external_pose
  <2>1. PICK a \in Comm!Variants([k \in 1..7 |-> Numbers]) :
            Comm!Send("external_pose", a, 6, 1, CommJoin(<<8>>, Comm!Floats(a, 7)))
    BY <1>4, Zenon DEF Comm!send_external_pose, Comm!LOCALIZATION_PORT,
                       Comm!GENERIC_CHANNEL, CommJoin
  <2> QED BY <2>1, CommSendsPose, CommSends
<1>5. CASE Comm!send_short_lpp_packet
  <2>1. PICK a \in Comm!Variants(<< <<0, 3>>, << <<>>, <<3>>, <<0, 0>> >> >>) :
            Comm!Send("lpp", a, 6, 1, CommJoin(<<2, a[1]>>, a[2]))
    BY <1>5, Zenon DEF Comm!send_short_lpp_packet, Comm!LOCALIZATION_PORT,
                       Comm!GENERIC_CHANNEL, CommJoin
  <2> QED BY <2>1, CommSendsLpp, CommSends
<1>6. CASE Comm!Switch
  <2>1. PICK op \in DOMAIN Comm!Switches, b \in BOOLEAN :
            Comm!Send(op, <<b>>, 13, 0, CommJoin(<<Comm!Switches[op]>>, Comm!Flag(b)))
    BY <1>6, Zenon DEF Comm!Switch, Comm!PLATFORM_PORT, CommJoin
  <2>2. PICK t : t = Comm!Switches[op]
    OBVIOUS
  <2>3. t \in Int /\ (\/ op = "cont_wave" /\ t = 0
                      \/ op = "arming" /\ t = 1)
    BY <2>2 DEF Comm!Switches
  <2>4. Comm!Send(op, <<b>>, 13, 0, CommJoin(<<t>>, Comm!Flag(b)))
    BY <2>1, <2>2, Zenon
  <2>5. CommPacket(CommRecord(op, <<b>>, 13, 0, CommJoin(<<t>>, Comm!Flag(b))))
    BY <2>3, CommSendsSwitch, Zenon
  <2> QED BY <2>4, <2>5, CommSends, Zenon
<1>7. CASE Comm!send_crash_recovery_request
  <2>1. Comm!Send("recovery", <<>>, 13, 0, <<2>>)
    BY <1>7 DEF Comm!send_crash_recovery_request, Comm!PLATFORM_PORT
  <2> QED BY <2>1, CommSendsBare, CommSends
<1>8. CASE Comm!AppSend
  <2>1. PICK n \in {Lengths[k] : k \in DOMAIN Lengths} :
            \/ Comm!Refuse("AppchannelPacketTooLarge")
            \/ Comm!Send("app", <<n>>, 13, 2, [k \in 1..n |-> 0])
    BY <1>8 DEF Comm!AppSend, Comm!PLATFORM_PORT, Comm!APP_CHANNEL
  <2>2. n \in Nat
    BY CommNumbers
  <2>3. CASE Comm!Refuse("AppchannelPacketTooLarge")
    BY <2>3 DEF Comm!Refuse, CommInv
  <2>4. CASE Comm!Send("app", <<n>>, 13, 2, [k \in 1..n |-> 0])
    BY <2>2, <2>4, CommSendsApp, CommSends
  <2> QED BY <2>1, <2>3, <2>4
<1>9. CASE Comm!Lost
  BY <1>9 DEF Comm!Lost, CommInv
<1> QED BY <1>1, <1>2, <1>3, <1>4, <1>5, <1>6, <1>7, <1>8, <1>9

LEMMA CommInvNext == Comm!ConstantsOK /\ CommInv /\ [Comm!Next]_(Comm!vars) => CommInv'
<1> SUFFICES ASSUME Comm!ConstantsOK, CommInv, [Comm!Next]_(Comm!vars) PROVE CommInv'
  OBVIOUS
<1>1. CASE UNCHANGED Comm!vars
  BY <1>1 DEF Comm!vars, CommInv
<1>2. CASE Comm!Next
  BY <1>2, CommInvSetpoints, CommInvLevel, CommInvOthers DEF Comm!Next
<1> QED BY <1>1, <1>2

-----------------------------------------------------------------------------
(* Commands: no packet can be taken for another *)

\* What the Crazyflie goes by tells the port, the channel and the first byte.
LEMMA CommKey ==
    ASSUME NEW p, NEW q, CommPacket(p), CommPacket(q), Comm!Key(p) = Comm!Key(q)
    PROVE  /\ p.port = q.port /\ p.channel = q.channel
           /\ CommTyped(p.port, p.channel) => p.payload[1] = q.payload[1]
<1>1. /\ p.payload \in Seq(Int) /\ q.payload \in Seq(Int)
      /\ p.port \in Int /\ p.channel \in Int /\ q.port \in Int /\ q.channel \in Int
      /\ CommTyped(p.port, p.channel) => p.payload # <<>>
      /\ CommTyped(q.port, q.channel) => q.payload # <<>>
  BY DEF CommPacket
<1>2. PICK a, b : a = <<p.port, p.channel>> /\ b = <<q.port, q.channel>>
  OBVIOUS
<1> DEFINE s == IF a \in Comm!Untyped THEN <<>> ELSE SubSeq(p.payload, 1, 1)
           t == IF b \in Comm!Untyped THEN <<>> ELSE SubSeq(q.payload, 1, 1)
<1>3. Comm!Key(p) = a \o s /\ Comm!Key(q) = b \o t
  BY <1>2, Zenon DEF Comm!Key
<1>4. ASSUME NEW x \in Seq(Int), x # <<>>
      PROVE  SubSeq(x, 1, 1) \in Seq(Int) /\ Len(SubSeq(x, 1, 1)) = 1 /\ SubSeq(x, 1, 1)[1] = x[1]
  <2>1. Len(x) \in Nat /\ Len(x) # 0
    BY <1>4, EmptyFacts
  <2>2. 1 \in 1..Len(x) + 1 /\ 1 \in 0..Len(x)
    BY <2>1
  <2> QED BY <1>4, <2>1, <2>2, SubSeqProperties
<1>5. s \in Seq(Int) /\ t \in Seq(Int) /\ a \in Seq(Int) /\ b \in Seq(Int)
  <2>1. a \notin Comm!Untyped => p.payload # <<>>
    BY <1>1, <1>2 DEF CommTyped
  <2>2. b \notin Comm!Untyped => q.payload # <<>>
    BY <1>1, <1>2 DEF CommTyped
  <2>3. <<>> \in Seq(Int)
    OBVIOUS
  <2>4. s \in Seq(Int)
    <3>1. CASE a \in Comm!Untyped
      BY <2>3, <3>1
    <3>2. CASE a \notin Comm!Untyped
      BY <1>1, <1>4, <2>1, <3>2
    <3> QED BY <3>1, <3>2
  <2>5. t \in Seq(Int)
    <3>1. CASE b \in Comm!Untyped
      BY <2>3, <3>1
    <3>2. CASE b \notin Comm!Untyped
      BY <1>1, <1>4, <2>2, <3>2
    <3> QED BY <3>1, <3>2
  <2> QED BY <1>1, <1>2, <2>4, <2>5
<1>6. Len(a) = 2 /\ Len(b) = 2 /\ a[1] = p.port /\ a[2] = p.channel /\ b[1] = q.port
      /\ b[2] = q.channel
  BY <1>2
<1>7. CommJoin(a, s) = CommJoin(b, t)
  BY <1>3, Zenon DEF CommJoin
<1>8. CommTyped(p.port, p.channel) => s = SubSeq(p.payload, 1, 1) /\ p.payload # <<>>
  BY <1>1, <1>2 DEF CommTyped
<1>9. a = b /\ CommTyped(q.port, q.channel) => t = SubSeq(q.payload, 1, 1) /\ q.payload # <<>>
  BY <1>1, <1>2 DEF CommTyped
<1> HIDE DEF s, t
<1>10. a = b /\ s = t
  <2>1. Len(a) = Len(b) \/ Len(s) = Len(t)
    BY <1>6
  <2>2. PICK c \in Seq(Int), d \in Seq(Int) : c = a /\ d = b
    BY <1>5
  <2>3. PICK u \in Seq(Int), v \in Seq(Int) : u = s /\ v = t
    BY <1>5
  <2>4. CommJoin(c, u) = CommJoin(d, v) /\ (Len(c) = Len(d) \/ Len(u) = Len(v))
    BY <1>7, <2>1, <2>2, <2>3
  <2>5. c = d /\ u = v
    BY <2>4, CommPeel, Zenon
  <2> QED BY <2>2, <2>3, <2>5
<1>11. p.port = q.port /\ p.channel = q.channel
  BY <1>6, <1>10
<1>12. ASSUME CommTyped(p.port, p.channel) PROVE p.payload[1] = q.payload[1]
  <2>1. p.payload # <<>> /\ q.payload # <<>>
    BY <1>8, <1>9, <1>10, <1>11, <1>12
  <2>2. SubSeq(p.payload, 1, 1) = SubSeq(q.payload, 1, 1)
    BY <1>8, <1>9, <1>10, <1>11, <1>12
  <2>3. p.payload[1] = SubSeq(p.payload, 1, 1)[1] /\ q.payload[1] = SubSeq(q.payload, 1, 1)[1]
    BY <1>1, <1>4, <2>1
  <2> QED BY <2>2, <2>3
<1> QED BY <1>11, <1>12

\* Where there is no type, the channel tells the function.
LEMMA CommUntyped ==
    ASSUME NEW port, NEW channel, ~CommTyped(port, channel), NEW s, NEW t
    PROVE  CommOp(port, channel, s) = CommOp(port, channel, t)
<1>1. \/ port = 3 /\ channel = 0
      \/ port = 6 /\ channel = 0
      \/ port = 13 /\ channel = 2
  BY DEF CommTyped, Comm!Untyped, Comm!COMMANDER_PORT, Comm!LOCALIZATION_PORT,
         Comm!POSITION_CHANNEL, Comm!PLATFORM_PORT, Comm!APP_CHANNEL
<1> QED BY <1>1 DEF CommOp

LEMMA CommApart ==
    ASSUME NEW p, NEW q, CommPacket(p), CommPacket(q), Comm!Key(p) = Comm!Key(q)
    PROVE  p.op = q.op
<1>1. p.op = CommOp(p.port, p.channel, p.payload[1])
      /\ q.op = CommOp(q.port, q.channel, q.payload[1])
  BY DEF CommPacket
<1>2. p.port = q.port /\ p.channel = q.channel
  BY CommKey
<1>3. CASE CommTyped(p.port, p.channel)
  BY <1>1, <1>2, <1>3, CommKey
<1>4. CASE ~CommTyped(p.port, p.channel)
  BY <1>1, <1>2, <1>4, CommUntyped
<1> QED BY <1>3, <1>4

LEMMA CommFourteenth ==
    ASSUME NEW o \in Seq(Int), Len(o) = 1, NEW f \in Seq(Int), Len(f) = 12,
           NEW y \in Seq(Int), Len(y) = 2, NEW z \in Seq(Int),
           NEW x, x = CommJoin(CommJoin(CommJoin(o, f), y), z)
    PROVE  x[14] = y[1] /\ x[15] = y[2]
<1>1. PICK v, w : v = CommJoin(o, f) /\ w = CommJoin(v, y) /\ x = CommJoin(w, z)
  OBVIOUS
<1>2. v \in Seq(Int) /\ Len(v) = Len(o) + Len(f)
  BY <1>1, CommJoins
<1>3. /\ w \in Seq(Int) /\ Len(w) = Len(v) + Len(y)
      /\ \A i \in 1..Len(y) : w[Len(v) + i] = y[i]
  <2>1. /\ CommJoin(v, y) \in Seq(Int) /\ Len(CommJoin(v, y)) = Len(v) + Len(y)
        /\ \A i \in 1..Len(y) : CommJoin(v, y)[Len(v) + i] = y[i]
    BY <1>2, CommJoins
  <2> QED BY <1>1, <2>1
<1>4. \A i \in 1..Len(w) : x[i] = w[i]
  <2>1. w \in Seq(Int) /\ x = CommJoin(w, z)
    BY <1>1, <1>3
  <2>2. \A i \in 1..Len(w) : CommJoin(w, z)[i] = w[i]
    BY <2>1, CommJoins
  <2> QED BY <2>1, <2>2
<1>5. Len(v) = 13 /\ Len(w) = 15
  BY <1>2, <1>3
<1>6. w[13 + 1] = y[1] /\ w[13 + 2] = y[2]
  BY <1>3, <1>5
<1> QED BY <1>4, <1>5, <1>6

LEMMA CommWord ==
    ASSUME NEW n \in Int, 0 <= n, n <= 65535, NEW size \in Nat, size >= 2
    PROVE  n = Comm!Bytes(n, size)[1] + 256 * Comm!Bytes(n, size)[2]
<1>1. \A k \in 1..size : Comm!Bytes(n, size)[k] = (n \div Comm!Places[k]) % 256
  BY SMT DEF Comm!Bytes
<1>2. Comm!Places[1] = 1 /\ Comm!Places[2] = 256
  BY SMT DEF Comm!Places
<1>3. /\ Comm!Bytes(n, size)[1] = (n \div Comm!Places[1]) % 256
      /\ Comm!Bytes(n, size)[2] = (n \div Comm!Places[2]) % 256
  BY <1>1, SMT
<1>4. n = (n % 256) + 256 * ((n \div 256) % 256)
  BY SMT
<1>5. n \div 1 = n
  BY SMT
<1> QED BY <1>2, <1>3, <1>4, <1>5, SMT

\* The thrust is in the fourteenth and the fifteenth byte.
LEMMA CommThrustBytes ==
    ASSUME NEW p, CommPacket(p), p.op = "manual"
    PROVE  /\ p.args[4] \in Int
           /\ p.payload[14] + 256 * p.payload[15] = Comm!Thrust16(p.args[4])
<1>1. PICK m, x : m = Comm!Meaning(p) /\ x = p.payload
  OBVIOUS
<1>2. CommManual(m, x) /\ p.args[4] \in Int /\ m[4] = Comm!Clip(p.args[4])
  BY <1>1 DEF CommPacket, CommShape
<1>3. PICK a \in Int : a = p.args[4]
  BY <1>2
<1>4. PICK b \in Int : b = m[4]
  BY <1>2 DEF CommManual
<1>5. PICK n : n = Comm!Thrust16(b)
  OBVIOUS
<1>6. n = Comm!Thrust16(a) /\ n \in Nat /\ n <= 65535
  BY <1>2, <1>3, <1>4, <1>5, CommThrust
<1> DEFINE f == Comm!Floats(m, 3)
           y == Comm!Bytes(n, 2)
           z == Comm!Flag(m[5])
           o == <<11>>
<1>7. x = CommJoin(CommJoin(CommJoin(o, f), y), z) /\ m[5] \in BOOLEAN
  BY <1>2, <1>4, <1>5, Zenon DEF CommManual
<1>8. f \in Seq(Int) /\ Len(f) = 12
  <2>1. \A i \in 1..3 : m[i] \in Comm!FloatBits
    BY <1>2 DEF CommManual, Num
  <2>2. Comm!Floats(m, 3) \in Seq(Int) /\ Len(Comm!Floats(m, 3)) = 4 * 3
    BY <2>1, CommFloats
  <2> QED BY <2>2
<1>9. o \in Seq(Int) /\ Len(o) = 1 /\ z \in Seq(Int) /\ Len(z) = 1
  BY <1>7, CommOnes
<1>10. y \in Seq(Int) /\ Len(y) = 2 /\ n = y[1] + 256 * y[2]
  BY <1>6, CommWord, CommTwoBytes
<1> HIDE DEF f, y, z, o
<1>11. x[14] = y[1] /\ x[15] = y[2]
  BY <1>7, <1>8, <1>9, <1>10, CommFourteenth
<1> QED BY <1>1, <1>3, <1>6, <1>10, <1>11

\* More percentage is not less thrust, and the range is the documented one.
LEMMA CommMonotone ==
    ASSUME NEW p \in Int, NEW q \in Int
    PROVE  /\ p <= q => Comm!Thrust16(p) <= Comm!Thrust16(q)
           /\ (0 <= p /\ p <= 100) => (10001 <= Comm!Thrust16(p) /\ Comm!Thrust16(p) <= 60000)
<1>1. p <= q => (p * 49999) \div 100 <= (q * 49999) \div 100
  BY SMT
<1>2. (p * 49999) \div 100 \in Int /\ (q * 49999) \div 100 \in Int
  BY SMT
<1>3. p <= q => Comm!Thrust16(p) <= Comm!Thrust16(q)
  BY <1>1, <1>2, SMT DEF Comm!Thrust16
<1>4. (0 <= p /\ p <= 100) => (10001 <= Comm!Thrust16(p) /\ Comm!Thrust16(p) <= 60000)
  BY SMT DEF Comm!Thrust16
<1> QED BY <1>3, <1>4

LEMMA CommRight ==
    ASSUME None \notin Int, CommInv
    PROVE  Comm!CommandsRight
<1>1. \A k \in DOMAIN sent : CommPacket(sent[k])
  BY QueueFacts DEF CommInv
<1>2. Comm!CommandsApart
  BY <1>1, CommApart DEF Comm!CommandsApart
<1>3. Comm!ArgumentsTold
  <2>1. ASSUME NEW j \in DOMAIN sent, NEW k \in DOMAIN sent, sent[j].op = sent[k].op
        PROVE  sent[j].payload = sent[k].payload
                 <=> Comm!Meaning(sent[j]) = Comm!Meaning(sent[k])
    <3>1. PICK p, q : p = sent[j] /\ q = sent[k]
      OBVIOUS
    <3>2. CommPacket(p) /\ CommPacket(q) /\ p.op = q.op
      BY <1>1, <2>1, <3>1
    <3>3. /\ CommShape(p.op, Comm!Meaning(p), p.payload)
          /\ CommShape(p.op, Comm!Meaning(q), q.payload)
          /\ \E a, b, c : p.op = CommOp(a, b, c)
      BY <3>2 DEF CommPacket
    <3>4. ASSUME p.payload = q.payload PROVE Comm!Meaning(p) = Comm!Meaning(q)
      BY <3>3, <3>4, CommTold
    <3>5. ASSUME Comm!Meaning(p) = Comm!Meaning(q) PROVE p.payload = q.payload
      BY <3>3, <3>5, CommMade
    <3> QED BY <3>1, <3>4, <3>5
  <2> QED BY <2>1 DEF Comm!ArgumentsTold
<1>4. Comm!ThrustMonotone
  <2> DEFINE Of(p) == p.payload[14] + 256 * p.payload[15]
  <2>1. ASSUME NEW j \in DOMAIN sent, NEW k \in DOMAIN sent,
               sent[j].op = "manual", sent[k].op = "manual"
        PROVE  /\ sent[j].args[4] <= sent[k].args[4] => Of(sent[j]) <= Of(sent[k])
               /\ (0 <= sent[j].args[4] /\ sent[j].args[4] <= 100) =>
                     (10001 <= Of(sent[j]) /\ Of(sent[j]) <= 60000)
    <3>1. PICK v \in Int, w \in Int : v = sent[j].args[4] /\ w = sent[k].args[4]
      BY <1>1, <2>1, CommThrustBytes
    <3>2. Of(sent[j]) = Comm!Thrust16(v) /\ Of(sent[k]) = Comm!Thrust16(w)
      BY <1>1, <2>1, <3>1, CommThrustBytes
    <3>3. PICK x \in Int, y \in Int : x = Comm!Thrust16(v) /\ y = Comm!Thrust16(w)
      BY CommThrust
    <3>4. (v <= w => x <= y) /\ ((0 <= v /\ v <= 100) => (10001 <= x /\ x <= 60000))
      BY <3>3, CommMonotone
    <3> HIDE DEF Of
    <3> QED BY <3>1, <3>2, <3>3, <3>4, SMT
  <2> QED BY <2>1, SMT DEF Comm!ThrustMonotone
<1> QED BY <1>2, <1>3, <1>4 DEF Comm!CommandsRight

\* commander.rs, high_level_commander.rs, localization.rs and platform.rs: what
\* the Crazyflie makes of a packet is what was called, whatever the numbers,
\* the percentages and the lengths are.  The packets of different functions
\* differ in port, channel or first byte, those of one function are equal
\* exactly if the calls mean the same, and more percentage is never less thrust.
THEOREM CommandsAreRight ==
    Comm!ConstantsOK => (Comm!Spec => []CommandsRight)
<1> SUFFICES ASSUME Comm!ConstantsOK PROVE Comm!Spec => []CommandsRight
  OBVIOUS
<1>1. Comm!Init => CommInv
  BY CommInvInit
<1>2. CommInv /\ [Comm!Next]_(Comm!vars) => CommInv'
  BY CommInvNext
<1>3. CommInv => CommandsRight
  BY CommRight DEF Comm!ConstantsOK, CommandsRight
<1> QED BY <1>1, <1>2, <1>3, PTL DEF Comm!Spec
=============================================================================
