---------------------------- MODULE MCSubsystems ----------------------------
(***************************************************************************)
(* The parts of the library that have nothing to do with each other, in    *)
(* one instance for TLC: a behaviour is one of the part chosen at the      *)
(* start, and the others rest in their initial state.  The parts share no  *)
(* state, so nothing is lost, and the states add up and do not multiply.   *)
(*                                                                         *)
(* A part at rest has none of the steps that its fairness is about, so the *)
(* fairness of all of them can be asked for.                               *)
(***************************************************************************)
EXTENDS Toc, Parts, Integers, TLC

CONSTANTS
    itemA, itemB, itemC,
    Ch,
    FlagBytes, Changes, MaxElements, Intensities, Malformed, NoElement,
    MaxSegments

VARIABLES
    valueCall, value,
    contentCall, content,
    first, path, refused, format, bytes

\* A firmware, an update that changes one table, and one with nothing in it.
MCFirmwares ==
    {[log |-> <<itemA, itemB>>, param |-> <<itemC, itemA>>],
     [log |-> <<itemA, itemB>>, param |-> <<itemB, itemC, itemA>>],
     [log |-> <<>>, param |-> <<>>]}

\* Text without a newline, with one, and with nothing but newlines.
MCTexts == {<<Ch>>, <<Ch, NewLine>>, <<NewLine, NewLine>>}

\* Base stations, one of them past the last.
MCStations == {<<0, 1>>, <<16>>}

\* Lists of anchors: in any order, with repetitions, unknown to the firmware.
MCLists == {<<1, 0>>, <<0, 2>>, <<0, 1, 0, 1>>}

\* Two sets of decks, with a slot that is empty and not last.
AllFlags == {"valid", "read", "write", "upgrade", "toFirmware", "toBootloader"}
MCDeckSets ==
    {[i \in 0..2 |->
        CASE i = 0 -> [flags |-> {}, base |-> 0]
          [] i = 1 -> [flags |-> {"valid", "read", "toBootloader", "toFirmware"}, base |-> 10000]
          [] i = 2 -> [flags |-> AllFlags, base |-> 10016]],
     [i \in 0..2 |->
        CASE i = 0 -> [flags |-> AllFlags \ {"toFirmware"}, base |-> 20000]
          [] i = 1 -> [flags |-> {"read", "write"}, base |-> 10000]
          [] i = 2 -> [flags |-> {"valid", "write"}, base |-> 10016]]}

\* 8 and 16 bits as they are; 20 for 32 and 24 for 64; 14 for the 24 of an
\* f32 and 21 for the 53 of an f64.
MCWidth ==
    [t \in {"U8", "U16", "U32", "U64", "I8", "I16", "I32", "I64"} |->
        CASE t \in {"U8", "I8"} -> 8 [] t \in {"U16", "I16"} -> 16
          [] t \in {"U32", "I32"} -> 20 [] OTHER -> 24]
MCPrecision == [F16 |-> 11, F32 |-> 14, F64 |-> 21]

\* Halves around the powers of two where the types end, and what is no number.
MCSamples ==
    {<<"nan", 0>>, <<"inf", 1>>, <<"inf", -1>>} \union
    {<<"finite", s * (2 * 2^k + j)>> :
        s \in {1, -1}, k \in {0, 7, 8, 15, 16, 19, 20, 23, 24}, j \in -3..3}

MCConfigs ==
    {[version |-> v, channel |-> ch, speed |-> s, pitch |-> <<1, 2, 3, 4>>,
      roll |-> <<0, 0, 128, 63>>, address |-> <<231, 1, 2, 3, 4>>] :
        v \in {0}, ch \in {0, 125}, s \in 0..2}
MCElements ==
    {[id |-> i, bytes |-> x] : i \in {1, 2, 3, 9}, x \in {<<>>, <<1>>, <<2, 255>>}}

\* Every length of an element, and the ends of the range.
Coefficients(n) == [k \in 1..n |-> 2 * k + n]
MCAxes ==
    {Coefficients(n) : n \in {0, 2, 3, 7, 9}} \union
    {<<65534>>, <<65535>>, <<-3>>, <<-65536>>, <<-65537>>, <<2143289344>>}
MCStarts == {<<2, 5, -7, 3601>>, <<2, 65535, 0, 0>>}
MCPieces ==
    {[duration |-> d, axes |-> [i \in 1..4 |->
        IF i = k THEN e ELSE [j \in 1..((i + k) % 2) |-> 10 * i]]] :
        d \in {131071}, k \in 1..4, e \in MCAxes} \union
    {[duration |-> 131073,
      axes |-> <<<<>>, <<1>>, <<2, 3, 4>>, <<5, 6, 7, 8, 9, 10, 11>>>>],
     [duration |-> -2, axes |-> <<<<>>, <<>>, <<>>, <<>>>>]}

MCNumbers == <<0, -2>>
MCThrusts == <<0, 1, 50, 100, 112, 150, -21, -30>>
MCLengths == <<0, 31, 32>>

Val == INSTANCE Values WITH call <- valueCall, answer <- value,
    Width <- MCWidth, Precision <- MCPrecision, Samples <- MCSamples
Cont == INSTANCE Contents WITH call <- contentCall, answer <- content,
    Configs <- MCConfigs, Elements <- MCElements
Traj == INSTANCE Trajectory WITH Starts <- MCStarts, Pieces <- MCPieces

tocState == <<
    fw, connected, sessions, pc, crc, index, toc, uplink, answers, cache>>
linkState == <<
    test, guard, outgoing, incoming, linked, foreign, abandoned, tests,
    drops>>
platformState == <<
    query, commGuard, asked, versions, appHome, appOwner, appQueue, appGot,
    appSent, online, requests, behind, queries, givenUp>>
consoleState == <<
    arrived, taken, step, console_buffer, line_buffer, console_lines, cast,
    reader, up>>
localizationState == <<
    persist, requested, inbox, told, angles, angleReader, live, ended,
    angleSent, unasked, persists>>
pagesState == <<
    page, list, call, had, written, reachable, calls, changes>>
deckState == <<
    deck, boots, opening, slot, sections, backend, use, commanded, stored,
    wanted, uses, flips>>
valuesState == <<
    valueCall, value>>
contentsState == <<
    contentCall, content>>
trajectoryState == <<
    first, path, refused, format, bytes>>
commandsState == <<
    sent, outcome, uplinkUp>>
allVars == <<part, tocState, linkState, platformState, consoleState,
    localizationState, pagesState, deckState, valuesState,
    contentsState, trajectoryState, commandsState>>

\* Of a part at rest one initial state is enough.
MCInit ==
    /\ part \in {"toc", "link", "platform", "console", "localization", "pages",
                "deck", "values", "contents", "trajectory", "commands"}
    /\ part = "toc" \/ fw = CHOOSE f \in Firmwares : TRUE
    /\ part = "pages" \/ list = [n \in {"ids", "active"} |-> CHOOSE l \in Lists : TRUE]
    /\ part = "deck" \/ deck = CHOOSE d \in DeckSets : TRUE
    /\ part = "trajectory" \/ first = CHOOSE s \in MCStarts : TRUE
    /\ Init /\ Link!Init /\ Plat!Init /\ Cons!Init /\ Loca!Init /\ Page!Init
    /\ Decks!Init /\ Val!Init /\ Cont!Init /\ Traj!Init /\ Comm!Init

tocRest == <<
    part, linkState, platformState, consoleState, localizationState,
    pagesState, deckState, valuesState, contentsState, trajectoryState,
    commandsState>>
linkRest == <<
    part, tocState, platformState, consoleState, localizationState,
    pagesState, deckState, valuesState, contentsState, trajectoryState,
    commandsState>>
platformRest == <<
    part, tocState, linkState, consoleState, localizationState, pagesState,
    deckState, valuesState, contentsState, trajectoryState, commandsState>>
consoleRest == <<
    part, tocState, linkState, platformState, localizationState, pagesState,
    deckState, valuesState, contentsState, trajectoryState, commandsState>>
localizationRest == <<
    part, tocState, linkState, platformState, consoleState, pagesState,
    deckState, valuesState, contentsState, trajectoryState, commandsState>>
pagesRest == <<
    part, tocState, linkState, platformState, consoleState,
    localizationState, deckState, valuesState, contentsState,
    trajectoryState, commandsState>>
deckRest == <<
    part, tocState, linkState, platformState, consoleState,
    localizationState, pagesState, valuesState, contentsState,
    trajectoryState, commandsState>>
valuesRest == <<
    part, tocState, linkState, platformState, consoleState,
    localizationState, pagesState, deckState, contentsState, trajectoryState,
    commandsState>>
contentsRest == <<
    part, tocState, linkState, platformState, consoleState,
    localizationState, pagesState, deckState, valuesState, trajectoryState,
    commandsState>>
trajectoryRest == <<
    part, tocState, linkState, platformState, consoleState,
    localizationState, pagesState, deckState, valuesState, contentsState,
    commandsState>>
commandsRest == <<
    part, tocState, linkState, platformState, consoleState,
    localizationState, pagesState, deckState, valuesState, contentsState,
    trajectoryState>>

MCNext ==
    \/ part = "toc" /\ Next /\ UNCHANGED tocRest
    \/ part = "link" /\ Link!Next /\ UNCHANGED linkRest
    \/ part = "platform" /\ Plat!Next /\ UNCHANGED platformRest
    \/ part = "console" /\ Cons!Next /\ UNCHANGED consoleRest
    \/ part = "localization" /\ Loca!Next /\ UNCHANGED localizationRest
    \/ part = "pages" /\ Page!Next /\ UNCHANGED pagesRest
    \/ part = "deck" /\ Decks!Next /\ UNCHANGED deckRest
    \/ part = "values" /\ Val!Next /\ UNCHANGED valuesRest
    \/ part = "contents" /\ Cont!Next /\ UNCHANGED contentsRest
    \/ part = "trajectory" /\ Traj!Next /\ UNCHANGED trajectoryRest
    \/ part = "commands" /\ Comm!Next /\ UNCHANGED commandsRest

(* The fairness of LinkService, Platform, Console, Localization and Toc: a   *)
(* step of each task, and of what it waits for.                             *)

ClientStep(t) ==
    \/ part = "link" /\ Link!Step(t) /\ UNCHANGED linkRest
    \/ part = "platform" /\ Plat!Step(t) /\ UNCHANGED platformRest
    \/ part = "localization" /\ Loca!Step(t) /\ UNCHANGED localizationRest

Background ==
    \/ part = "toc" /\ FwAnswer /\ UNCHANGED tocRest
    \/ part = "platform" /\ Plat!Serve /\ UNCHANGED platformRest
    \/ part = "console" /\ Cons!Task /\ UNCHANGED consoleRest
    \/ part = "localization" /\ Loca!Task /\ UNCHANGED localizationRest

MCFairness ==
    /\ \A t \in Clients : WF_allVars(ClientStep(t))
    /\ \A p \in Ports : WF_allVars(part = "toc" /\ FetchStep(p) /\ UNCHANGED tocRest)
    /\ \A r \in Readers :
          WF_allVars(part = "console" /\ Cons!ReadNext(r) /\ UNCHANGED consoleRest)
    /\ WF_allVars(Background)

MCSpec == MCInit /\ [][MCNext]_allVars /\ MCFairness

ASSUME PartsAssumption ==
    /\ Link!ConstantsOK /\ Plat!ConstantsOK /\ Cons!ConstantsOK /\ Loca!ConstantsOK
    /\ Page!ConstantsOK /\ Decks!ConstantsOK /\ Val!ConstantsOK /\ Cont!ConstantsOK
    /\ Traj!ConstantsOK /\ Comm!ConstantsOK /\ Decks!Apart

-----------------------------------------------------------------------------
(* The properties of the parts, by the names they have there.  The safety   *)
(* of a part is asked for where it is the one that moves: the others are in *)
(* their initial state.                                                     *)

\* Every variable of the part has its type.
TypesOK ==
    CASE part = "toc" -> TypeOK
      [] part = "link" -> Link!TypeOK
      [] part = "platform" -> Plat!TypeOK
      [] part = "console" -> Cons!TypeOK
      [] part = "localization" -> Loca!TypeOK
      [] part = "pages" -> Page!TypeOK
      [] part = "deck" -> Decks!TypeOK
      [] part = "values" -> Val!AnswerOfType
      [] part = "contents" -> TRUE
      [] part = "trajectory" -> Traj!TypeOK
      [] part = "commands" -> Comm!TypeOK

\* Values, Contents, Trajectory: what is made of bytes, and bytes of it, keeps
\* its meaning, and what is cut short, changed or out of range is refused.
CodecsRight ==
    CASE part = "values" -> Val!ValuesRight
      [] part = "contents" -> Cont!ContentsRight
      [] part = "trajectory" -> Traj!TrajectoriesRight
      [] OTHER -> TRUE

\* Something is waited for: the end of the fetch of a table, the return of a
\* call, or text of the console that a stream has still to give.
Waiting ==
    \/ part = "toc" /\ \E p \in Ports : ~Over(p)
    \/ part = "link" /\ \E t \in Clients : ~Link!At(t, "idle")
    \/ part = "platform" /\ \E t \in Clients : ~Plat!At(t, "idle")
    \/ part = "localization" /\ \E t \in Clients : persist[t].stage # "idle"
    \/ part = "console" /\ \E r \in Readers : Cons!TextToGive(r)

\* What is waited for comes or fails: a fetch ends with the link, whichever of
\* its waits it is in; a call returns when nothing answers too, and the mutex
\* it may hold goes to the next; a stream gives what was in the queue when the
\* connection ended.  All that is bounded: if something were waited for for
\* ever, something would be in the end.
WaitsEnd == Waiting ~> ~Waiting
=============================================================================
