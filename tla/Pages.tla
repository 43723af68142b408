------------------------------- MODULE Pages --------------------------------
(***************************************************************************)
(* The memories that hold one record to a page: geometries and             *)
(* calibrations of lighthouse base stations (lighthouse.rs), positions of  *)
(* anchors (loco2.rs).  A call reads or writes them page by page, while    *)
(* the Crazyflie goes on estimating what they hold.                        *)
(*                                                                         *)
(* A record of the lighthouse takes several requests, the last of which    *)
(* has the flag that says whether it is valid: two stand for them, and the *)
(* Crazyflie may change the record in between.  An anchor and a list take  *)
(* one.  Memory has the requests and their answers.                        *)
(***************************************************************************)
EXTENDS Naturals, Sequences, FiniteSets, SequencesExt

CONSTANTS
    MaxPages,       \* MAX_BASE_STATIONS, MAX_NR_OF_ANCHORS (16)
    Supported,      \* pages the firmware has: it refuses the others
    Lists,          \* what the lists of anchors may be
    MaxCalls,       \* bound: calls of the program
    MaxChanges      \* bound: changes the Crazyflie makes

\* What the constants have to be.  A kind of record has room for 16 pages.
ConstantsOK ==
    /\ MaxPages \in 1..16
    /\ Supported \in 0..MaxPages
    /\ MaxCalls \in Nat
    /\ MaxChanges \in Nat
    /\ \A l \in Lists : l \in Seq(Nat)

VARIABLES
    page,           \* the records of the Crazyflie
    list,           \* its lists of anchors, configured and active
    call,           \* the call that is made
    had,            \* history: what pages and lists have been during the call
    written,        \* history: the pages the call has written
    reachable,      \* the connection is up
    calls, changes  \* counters for the bounds

vars == <<page, list, call, had, written, reachable, calls, changes>>

Kinds == {"geometry", "calibration", "anchor"}
Cells == Kinds \X (0..(MaxPages - 1))
Records == [valid : BOOLEAN, v : Nat]
ListNames == {"ids", "active"}

NoCall == [what |-> "none", kind |-> "geometry", at |-> 0, asked |-> {}, todo |-> {},
           half |-> {}, ids |-> <<>>, active |-> <<>>, result |-> {}, outcome |-> "none"]

TypeOK ==
    /\ page \in [Cells -> Records]
    /\ list \in [ListNames -> Lists]
    /\ call.what \in {"none", "readAll", "writeAll", "ids", "active", "anchors"}
    /\ call.kind \in Kinds /\ call.at \in Nat /\ call.todo \subseteq call.asked
    /\ call.half \subseteq Nat /\ Cardinality(call.half) <= 1
    /\ call.ids \in Lists \union {<<>>} /\ call.active \in Lists \union {<<>>}
    /\ call.result \subseteq Nat \X Records
    /\ call.outcome \in {"none", "ok", "memory", "argument", "disconnected"}
    /\ \A c \in Cells : had.page[c] \subseteq Records
    /\ \A n \in ListNames : had.list[n] \subseteq Lists
    /\ written \subseteq Cells \X {"start", "rest"}
    /\ reachable \in BOOLEAN /\ calls \in 0..MaxCalls /\ changes \in 0..MaxChanges

Init ==
    /\ page = [c \in Cells |-> [valid |-> c[2] = 0, v |-> 0]]
    /\ list \in [ListNames -> Lists]
    /\ call = NoCall
    /\ had = [page |-> [c \in Cells |-> {}], list |-> [n \in ListNames |-> {}]]
    /\ written = {}
    /\ reachable = TRUE /\ calls = 0 /\ changes = 0

-----------------------------------------------------------------------------
(* Where a record is. *)

PageSize == 256
StartAddress == [geometry |-> 0, calibration |-> 4096, anchor |-> 8192]
RecordSize == [geometry |-> 49, calibration |-> 61, anchor |-> 13]

\* Mutant: the records follow each other.
AddressPacked(k, i) == StartAddress[k] + RecordSize[k] * i
Address(k, i) == StartAddress[k] + PageSize * i

\* External: where the Crazyflie has the record of a page, and what it refuses.
Place(c) == 256 * (c[2] + CASE c[1] = "geometry" -> 0 [] c[1] = "calibration" -> 16
                            [] c[1] = "anchor" -> 32)
At(a) == {c \in Cells : Place(c) = a /\ c[2] < Supported}

-----------------------------------------------------------------------------
(* The calls. *)

Idle == call.what = "none"
Begin(c) ==
    /\ Idle
    /\ calls < MaxCalls
    /\ calls' = calls + 1
    /\ call' = c
    /\ had' = [page |-> [x \in Cells |-> {page[x]}], list |-> [n \in ListNames |-> {list[n]}]]
    /\ written' = {}
    /\ UNCHANGED <<page, list, reachable, changes>>

Return(outcome) == call' = [call EXCEPT !.outcome = outcome]
Goes == call.outcome = "none"

\* read_all_geometries, read_all_calibrations
ReadAll(k) == Begin([NoCall EXCEPT !.what = "readAll", !.kind = k])

\* A page that is read counts if it is valid.
\* Mutant: it counts in any case.
KeptAlways(r) == TRUE
Kept(r) == r.valid

\* What follows the last request of page i.
Onward(i, r) ==
    call' = [call EXCEPT !.at = i + 1, !.half = {},
                         !.result = @ \union r,
                         !.outcome = IF i + 1 = MaxPages THEN "ok" ELSE "none"]

\* The start of the record is kept until its end is there.
ReadPage ==
    LET i == call.at
        found == At(Address(call.kind, i))
    IN  /\ call.what = "readAll" /\ Goes
        /\ \/ /\ reachable /\ found = {}
              /\ Onward(i, {})
           \/ /\ reachable /\ found # {} /\ call.half = {}
              /\ call' = [call EXCEPT !.half = {page[c].v : c \in found}]
           \/ /\ reachable /\ call.half # {}
              /\ Onward(i, {<<i, [valid |-> page[c].valid, v |-> v]>> :
                               c \in {x \in found : Kept(page[x])}, v \in call.half})
           \/ ~reachable /\ Return("disconnected")
        /\ UNCHANGED <<page, list, had, written, reachable, calls, changes>>

\* write_geometries, write_calibrations
WriteAll(k, ids) ==
    Begin([NoCall EXCEPT !.what = "writeAll", !.kind = k, !.asked = ids, !.todo = ids,
                         !.outcome = IF ids = {} THEN "ok" ELSE "none"])

ValidStation(i) == i < MaxPages

\* The pages are written in the order of a HashMap; the first error ends it.
\* Mutant: a page that is refused is skipped.
RefusedSkipped(i) == IF call.todo = {i} THEN "ok" ELSE "none"
Refused(i) == "memory"

\* One request of a write puts a part of the record where it belongs.
With(r, part) == IF part = "start" THEN [r EXCEPT !.v = 100 + calls] ELSE [r EXCEPT !.valid = TRUE]

Put(found, part) ==
    /\ page' = [c \in Cells |-> IF c \in found THEN With(page[c], part) ELSE page[c]]
    /\ had' = [had EXCEPT !.page = [c \in Cells |-> @[c] \union {page'[c]}]]
    /\ written' = written \union (found \X {part})

WriteStart(i) ==
    LET found == At(Address(call.kind, i))
    IN  /\ call.half = {}
        /\ \/ /\ ~ValidStation(i)
              /\ Return("argument")
              /\ UNCHANGED <<page, had, written>>
           \/ /\ ValidStation(i) /\ reachable /\ found # {}
              /\ Put(found, "start")
              /\ call' = [call EXCEPT !.half = {i}]
           \/ /\ ValidStation(i) /\ reachable /\ found = {}
              /\ call' = [call EXCEPT !.todo = @ \ {i}, !.outcome = Refused(i)]
              /\ UNCHANGED <<page, had, written>>

WriteRest(i) ==
    /\ call.half = {i}
    /\ reachable
    /\ Put(At(Address(call.kind, i)), "rest")
    /\ call' = [call EXCEPT !.todo = @ \ {i}, !.half = {},
                            !.outcome = IF call.todo = {i} THEN "ok" ELSE "none"]

WritePage ==
    /\ call.what = "writeAll" /\ Goes
    /\ \/ \E i \in call.todo : WriteStart(i) \/ WriteRest(i)
       \/ /\ ~reachable
          /\ call.half # {} \/ \E i \in call.todo : ValidStation(i)
          /\ Return("disconnected")
          /\ UNCHANGED <<page, had, written>>
    /\ UNCHANGED <<list, reachable, calls, changes>>

\* LocoMemory2::read_all: two lists, and the anchors of the first one.
ReadAnchors == Begin([NoCall EXCEPT !.what = "ids", !.kind = "anchor"])

ReadList(name, next) ==
    /\ call.what = name /\ Goes
    /\ \/ /\ reachable /\ Len(list[name]) <= MaxPages
          /\ call' = [call EXCEPT ![name] = list[name], !.what = next, !.at = 1,
                          !.outcome = IF next = "anchors" /\ call.ids = <<>> THEN "ok" ELSE "none"]
       \/ reachable /\ Len(list[name]) > MaxPages /\ Return("memory")
       \/ ~reachable /\ Return("disconnected")
    /\ UNCHANGED <<page, list, had, written, reachable, calls, changes>>

\* Mutant: an anchor that is refused is left out, as a base station is.
AnchorSkipped ==
    call' = [call EXCEPT !.at = @ + 1,
                         !.outcome = IF call.at = Len(call.ids) THEN "ok" ELSE "none"]
AnchorRefused == Return("memory")

ReadAnchor ==
    /\ call.what = "anchors" /\ Goes
    /\ LET i == call.ids[call.at]
           found == IF ValidStation(i) THEN At(Address("anchor", i)) ELSE {}
       IN  \/ /\ reachable /\ found # {}
              /\ call' = [call EXCEPT
                    !.result = {e \in @ : e[1] # i} \union {<<i, page[c]>> : c \in found},
                    !.at = @ + 1,
                    !.outcome = IF call.at = Len(call.ids) THEN "ok" ELSE "none"]
           \/ reachable /\ ValidStation(i) /\ found = {} /\ AnchorRefused
           \/ ~reachable /\ ValidStation(i) /\ Return("disconnected")
           \/ ~ValidStation(i) /\ Return("memory")
    /\ UNCHANGED <<page, list, had, written, reachable, calls, changes>>

\* The caller has the result.
Done ==
    /\ ~Idle /\ ~Goes
    /\ call' = NoCall
    /\ UNCHANGED <<page, list, had, written, reachable, calls, changes>>

-----------------------------------------------------------------------------
\* External: the Crazyflie estimates a record, or reconfigures its anchors,
\* during a call that reads or writes them: otherwise it makes no difference.
Estimate(c, valid) ==
    /\ ~Idle /\ c[1] = call.kind
    /\ changes < MaxChanges
    /\ changes' = changes + 1
    /\ page' = [page EXCEPT ![c] = [valid |-> valid, v |-> changes + 1]]
    /\ had' = [had EXCEPT !.page[c] = @ \union {page'[c]}]
    /\ UNCHANGED <<list, call, written, reachable, calls>>

Reconfigure(n, l) ==
    /\ ~Idle /\ call.kind = "anchor"
    /\ changes < MaxChanges
    /\ changes' = changes + 1
    /\ list' = [list EXCEPT ![n] = l]
    /\ had' = [had EXCEPT !.list[n] = @ \union {l}]
    /\ UNCHANGED <<page, call, written, reachable, calls>>

Lose ==
    /\ reachable
    /\ reachable' = FALSE
    /\ UNCHANGED <<page, list, call, had, written, calls, changes>>

Next ==
    \/ \E k \in {"geometry", "calibration"} :
          ReadAll(k) \/ \E ids \in SUBSET (0..MaxPages) : WriteAll(k, ids)
    \/ ReadPage \/ WritePage
    \/ ReadAnchors \/ ReadList("ids", "active") \/ ReadList("active", "anchors") \/ ReadAnchor
    \/ Done
    \/ \E c \in Cells, valid \in BOOLEAN : Estimate(c, valid)
    \/ \E n \in ListNames, l \in Lists : Reconfigure(n, l)
    \/ Lose

Spec == Init /\ [][Next]_vars

-----------------------------------------------------------------------------
(* Properties *)

Result == {e[1] : e \in call.result}

\* A read of all pages gives for each base station a record whose parts it
\* had during the call, and that was valid then; one that is left out was not
\* valid at some time during the call, or is not known to the firmware
\* (lighthouse.rs:363).
ReadAllRight ==
    call.what = "readAll" /\ call.outcome = "ok" =>
        \A i \in 0..(MaxPages - 1) :
            LET seen == had.page[<<call.kind, i>>] IN
            /\ \A e \in call.result : e[1] = i =>
                  /\ \E r \in seen : r.v = e[2].v
                  /\ e[2].valid /\ \E r \in seen : r.valid
            /\ i \notin Result => i >= Supported \/ \E r \in seen : ~r.valid

\* A write of several pages writes those of its base stations and of its kind
\* only, all of them and to the end when it succeeds; one that ends early
\* leaves at most one page half written (lighthouse.rs:440).
WriteAllRight ==
    call.what = "writeAll" =>
        LET whole == ({call.kind} \X call.asked) \X {"start", "rest"}
            halves == {w \in written : <<w[1], "rest">> \notin written}
        IN  /\ written \subseteq whole
            /\ call.outcome = "ok" => written = whole
            /\ Cardinality(halves) <= 1

\* The anchors of a snapshot are those of its list of identifiers, each with a
\* record it had during the call, and the lists are lists of the Crazyflie
\* (loco2.rs:122).
AnchorsRight ==
    call.what = "anchors" /\ call.outcome = "ok" =>
        /\ Result = Range(call.ids)
        /\ \A e \in call.result : e[2] \in had.page[<<"anchor", e[1]>>]
        /\ call.ids \in had.list.ids /\ call.active \in had.list.active

\* Calls that go through many pages, one request each.
PagesRight == ReadAllRight /\ WriteAllRight /\ AnchorsRight
=============================================================================
