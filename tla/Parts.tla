------------------------------- MODULE Parts --------------------------------
(***************************************************************************)
(* The parts of the library that tasks of the program use at the same time *)
(* and that have nothing to do with each other: their instances, and what  *)
(* each of them promises, by the name it has there.  MCSubsystems checks   *)
(* them in one instance, ServiceProofs and SubsystemProofs prove them.     *)
(***************************************************************************)

CONSTANTS
    Clients, NoOne,                                 \* tasks of the program
    Sizes, MaxTests, MaxDrops,                      \* LinkService
    MaxQueries, MaxApp, MaxGivenUp,                 \* Platform
    Readers, NewLine, Texts, Capacity, MaxPackets,  \* Console
    Stations, AngleCapacity, PersistCapacity,       \* Localization
    MaxPersists, MaxAngles,
    MaxPages, Supported, Lists, MaxCalls, MaxChanges,   \* Pages
    MaxSections, DeckSets, MaxUses, MaxFlips,       \* Deck
    Numbers, Thrusts, Lengths, None, MaxSent        \* Commands

VARIABLES
    part,           \* the part that moves
    test, guard, outgoing, incoming, linked, foreign, abandoned, tests,
    drops,
    query, commGuard, asked, versions, appHome, appOwner, appQueue, appGot,
    appSent, online, requests, behind, queries, givenUp,
    arrived, taken, step, console_buffer, line_buffer, console_lines, cast,
    reader, up,
    persist, requested, inbox, told, angles, angleReader, live, ended,
    angleSent, unasked, persists,
    page, list, call, had, written, reachable, calls, changes,
    deck, boots, opening, slot, sections, backend, use, commanded, stored,
    wanted, uses, flips,
    sent, outcome, uplinkUp

Link == INSTANCE LinkService
Plat == INSTANCE Platform
Cons == INSTANCE Console
Loca == INSTANCE Localization
Page == INSTANCE Pages
Decks == INSTANCE Deck
Comm == INSTANCE Commands WITH up <- uplinkUp

-----------------------------------------------------------------------------
(* The safety of a part is asked for where it is the one that moves: the   *)
(* others are in their initial state.                                      *)

\* LinkService: a call takes its own echoes, whoever else pings or tests, and an
\* uplink test that succeeds has had all its packets taken.
TestsApart == part = "link" => Link!TestsApart

\* Platform: an answer is late by the queries that were given up, there is no
\* protocol error without one, and the stream of the app channel is whole.
AnswersKept == part = "platform" => Plat!AnswersKept

\* Console: a stream has no gap between the history and what is broadcast, and
\* lines and buffer are the text.
StreamsWhole == part = "console" => Cons!StreamsWhole

\* Localization: a request names the stations it is for, a call says that the
\* connection is lost only if it is, and a stream of angles misses nothing.
LighthouseTold == part = "localization" => Loca!LighthouseTold

\* Pages: what is read of many pages was there and valid, a write of several
\* writes those and no other, a snapshot has the anchors of its list.
PagesRight == part = "pages" => Page!PagesRight

\* Deck: a command or a write reaches the deck of the section it was for, and
\* the state that is reported is one of the time of the call.
DecksRight == part = "deck" => Decks!DecksRight

\* Commands: no packet can be taken for that of another function or of other
\* arguments, and more thrust is never less.
CommandsRight == part = "commands" => Comm!CommandsRight
=============================================================================
