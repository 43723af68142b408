-------------------------------- MODULE Deck --------------------------------
(***************************************************************************)
(* The memories of decks (deckmem.rs): an object finds the sections, one   *)
(* for each deck that is there, and keeps what does not change; the        *)
(* sections share the backend behind a mutex, and tasks use them at the    *)
(* same time.                                                              *)
(*                                                                         *)
(* A read or a write of the backend is a step: Memory has its requests.    *)
(***************************************************************************)
EXTENDS Naturals, Sequences, FiniteSets

CONSTANTS
    Clients,        \* tasks of the program
    NoOne,          \* the holder of a mutex that is free
    MaxSections,    \* DECKMEM_MAX_SECTIONS (8)
    DeckSets,       \* the decks there may be: what is in the info of each slot
    MaxUses,        \* bound: calls on sections
    MaxFlips        \* bound: times the Crazyflie restarts a deck

Slots == 0..(MaxSections - 1)
Flags == {"valid", "read", "write", "upgrade", "toFirmware", "toBootloader"}

\* What the constants have to be.
ConstantsOK ==
    /\ NoOne \notin Clients
    /\ MaxSections \in Nat \ {0}
    /\ MaxUses \in Nat
    /\ MaxFlips \in Nat
    /\ DeckSets \subseteq [Slots -> [flags : SUBSET Flags, base : Nat]]

VARIABLES
    deck,           \* the decks: the info that stays the same
    boots,          \* for each slot, whether its bootloader is active
    opening,        \* where DeckMemory::new is
    slot,           \* the next slot it looks at
    sections,       \* what was found
    backend,        \* who holds the mutex of the backend
    use,            \* the call of each task
    commanded,      \* history: commands a deck has had: <<slot, bit>>
    stored,         \* history: writes a deck has had: <<slot, offset>>
    wanted,         \* history: what was asked for, in the same way
    uses, flips     \* counters for the bounds

deckVars == <<deck, boots>>
foundVars == <<opening, slot, sections>>
toldVars == <<commanded, stored, wanted>>
vars == <<deckVars, foundVars, backend, use, toldVars, uses, flips>>

Resets == {"reset_to_bootloader", "reset_to_firmware"}
Calls == Resets \union {"read", "write", "bootloader_active"}

\* DECKMEM_INFO_OFFSET, DECKMEM_CMD_OFFSET, and the size of both areas of a slot
InfoAddress(i) == 1 + 32 * i

\* Mutant: the areas are counted by the sections that are found.
CommandAddressOfFound(i) == 4096 + 32 * Len(sections)
CommandAddress(i) == 4096 + 32 * i
CommandBits == 4
ResetToFirmware == 1
ResetToBootloader == 2

\* The last address of a section, relative to its base: the program may not go
\* beyond it, for the library does not know it.
LastOffset == 15

\* External: no other slot has memory where that of a deck is.
Apart ==
    \A d \in DeckSets, i, j \in Slots : "valid" \in d[i].flags /\ i # j =>
        d[i].base + LastOffset < d[j].base \/ d[j].base + LastOffset < d[i].base

\* External: where the Crazyflie has a deck's info, commands and memory.
FwInfo(a) == {i \in Slots : a = 1 + i * 32}
FwCommand(a) == {i \in Slots : a = 4096 + i * 32 + 4}
FwMemory(a) == {i \in Slots : deck[i].base <= a /\ a <= deck[i].base + LastOffset}

NoUse == [what |-> "none", stage |-> "idle", k |-> 1, offset |-> 0, saw |-> {}, flag |-> FALSE,
          outcome |-> "none"]

TypeOK ==
    /\ deck \in DeckSets
    /\ boots \in [Slots -> BOOLEAN]
    /\ slot \in 0..MaxSections /\ opening \in {"version", "sections", "ready", "failed"}
    /\ sections \in Seq([flags : SUBSET Flags, base : Nat, command : Nat, info : Nat])
    /\ backend \in Clients \union {NoOne}
    /\ use \in [Clients -> [what : Calls \union {"none"}, stage : {"idle", "lock", "busy", "sleep"},
                            k : Nat, offset : 0..LastOffset, saw : SUBSET BOOLEAN, flag : BOOLEAN,
                            outcome : {"none", "ok", "memory", "disconnected"}]]
    /\ commanded \subseteq Slots \X {1, 2} /\ stored \subseteq Slots \X (0..LastOffset)
    /\ uses \in 0..MaxUses /\ flips \in 0..MaxFlips

Init ==
    /\ deck \in DeckSets
    /\ boots = [i \in Slots |-> FALSE]
    /\ opening = "version" /\ slot = 0
    /\ sections = <<>>
    /\ backend = NoOne
    /\ use = [t \in Clients |-> NoUse]
    /\ commanded = {} /\ stored = {} /\ wanted = {}
    /\ uses = 0 /\ flips = 0

-----------------------------------------------------------------------------
(* DeckMemory::new *)

\* The version byte is 3, or another; a read may fail too.
ReadVersion ==
    /\ opening = "version"
    /\ opening' \in {"sections", "failed"}
    /\ UNCHANGED <<deckVars, slot, sections, backend, use, toldVars, uses, flips>>

\* The flags of bit field 1 and 2.
\* Mutant: a deck that can be read can be written.
CachedReads(d) == IF "read" \in d.flags THEN d.flags \union {"write"} ELSE d.flags
Cached(d) == d.flags

\* A slot that is not valid is passed over.
ReadSection ==
    /\ opening = "sections"
    /\ \/ LET d == deck[CHOOSE i \in FwInfo(InfoAddress(slot)) : TRUE] IN
          /\ sections' = IF "valid" \notin d.flags THEN sections
                         ELSE Append(sections, [flags |-> Cached(d), base |-> d.base,
                                                command |-> CommandAddress(slot),
                                                info |-> InfoAddress(slot)])
          /\ slot' = slot + 1
          /\ opening' = IF slot + 1 = MaxSections THEN "ready" ELSE opening
       \/ opening' = "failed" /\ UNCHANGED <<sections, slot>>
    /\ UNCHANGED <<deckVars, backend, use, toldVars, uses, flips>>

-----------------------------------------------------------------------------
(* The sections. *)

SectionOf(t) == sections[use[t].k]
At(t, s) == use[t].stage = s

\* What a section must be able to do for a call.
Needs(w) == CASE w = "read" -> {"read"} [] w = "write" -> {"write"}
              [] w = "reset_to_bootloader" -> {"toBootloader"}
              [] w = "reset_to_firmware" -> {"toFirmware"} [] OTHER -> {}

\* The slot a section was made of, by its name.
SlotOf(k) == CHOOSE i \in Slots : "valid" \in deck[i].flags /\
    Cardinality({j \in Slots : j < i /\ "valid" \in deck[j].flags}) = k - 1

Asks(w, k, offset) ==
    CASE w = "write" -> {<<SlotOf(k), w, offset>>}
      [] w = "reset_to_bootloader" -> {<<SlotOf(k), w, ResetToBootloader>>}
      [] w = "reset_to_firmware" -> {<<SlotOf(k), w, ResetToFirmware>>}
      [] OTHER -> {}

Call(t, w, k, offset) ==
    /\ opening = "ready" /\ k \in DOMAIN sections
    /\ At(t, "idle") /\ uses < MaxUses
    /\ uses' = uses + 1
    /\ LET able == Needs(w) \subseteq sections[k].flags IN
        /\ use' = [use EXCEPT ![t] =
              [what |-> w, stage |-> IF able THEN "lock" ELSE "idle", k |-> k, offset |-> offset,
               saw |-> {boots[SlotOf(k)]}, flag |-> FALSE,
               outcome |-> IF able THEN "none" ELSE "memory"]]
        /\ wanted' = wanted \union Asks(w, k, offset)
    /\ UNCHANGED <<deckVars, foundVars, backend, commanded, stored, flips>>

Lock(t) ==
    /\ At(t, "lock")
    /\ backend = NoOne
    /\ backend' = t
    /\ use' = [use EXCEPT ![t].stage = "busy"]
    /\ UNCHANGED <<deckVars, foundVars, toldVars, uses, flips>>

End(t, outcome, flag) ==
    /\ use' = [use EXCEPT ![t].stage = IF outcome = "ok" /\ use[t].what \in Resets
                                        THEN "sleep" ELSE "idle",
                          ![t].outcome = outcome, ![t].flag = flag]
    /\ backend' = NoOne

\* read_info_byte: the Crazyflie is asked each time.
\* Mutant: the section asks for its position in the list.
ReportedByPosition(t, i) == boots[use[t].k - 1]
Reported(t, i) == boots[i]

\* What the request of a task makes the Crazyflie do.
CarriedOut(t) ==
    LET s == SectionOf(t)
        address == s.base + use[t].offset
        bit == IF use[t].what = "reset_to_firmware" THEN ResetToFirmware ELSE ResetToBootloader
    IN  /\ stored' = IF use[t].what # "write" THEN stored
                     ELSE stored \union {<<i, address - deck[i].base>> : i \in FwMemory(address)}
        /\ commanded' = IF use[t].what \notin Resets THEN commanded
                        ELSE commanded \union
                             {<<i, bit>> : i \in FwCommand(s.command + CommandBits)}

Answered(t) ==
    /\ At(t, "busy")
    /\ CarriedOut(t)
    /\ \/ use[t].what # "bootloader_active" /\ End(t, "ok", FALSE)
       \/ /\ use[t].what = "bootloader_active"
          /\ \E i \in FwInfo(SectionOf(t).info) : End(t, "ok", Reported(t, i))
    /\ UNCHANGED <<deckVars, foundVars, wanted, uses, flips>>

\* The request is refused, or the connection is lost or the future dropped,
\* before it is carried out or after.
Fails(t) ==
    /\ At(t, "busy")
    /\ CarriedOut(t) \/ UNCHANGED <<stored, commanded>>
    /\ End(t, "disconnected", FALSE)
    /\ UNCHANGED <<deckVars, foundVars, wanted, uses, flips>>

\* A reset is followed by 10 ms without the mutex.
Slept(t) ==
    /\ At(t, "sleep")
    /\ use' = [use EXCEPT ![t].stage = "idle"]
    /\ UNCHANGED <<deckVars, foundVars, backend, toldVars, uses, flips>>

-----------------------------------------------------------------------------
\* External: a deck goes into its bootloader or out of it.
Flip(i) ==
    /\ flips < MaxFlips
    /\ flips' = flips + 1
    /\ boots' = [boots EXCEPT ![i] = ~@]
    /\ use' = [t \in Clients |-> IF At(t, "idle") THEN use[t]
                                 ELSE [use[t] EXCEPT !.saw = @ \union {boots'[SlotOf(use[t].k)]}]]
    /\ UNCHANGED <<deck, foundVars, backend, toldVars, uses>>

Step(t) == Lock(t) \/ Answered(t) \/ Fails(t) \/ Slept(t)

Next ==
    \/ ReadVersion \/ ReadSection
    \/ \E t \in Clients : \/ \E w \in Calls, k \in 1..MaxSections : Call(t, w, k, LastOffset)
                          \/ Step(t)
    \/ \E i \in Slots : Flip(i)

Spec == Init /\ [][Next]_vars

-----------------------------------------------------------------------------
(* Properties *)

\* What a deck is made to do was asked of the section that has its name, and
\* the deck can do it, wherever the decks are and however many there are
\* (deckmem.rs:427, deckmem.rs:254).
OwnDeck ==
    /\ \A c \in commanded : \E w \in wanted :
          /\ w[1] = c[1] /\ w[3] = c[2]
          /\ Needs(w[2]) \subseteq deck[c[1]].flags
    /\ \A s \in stored : \E w \in wanted :
          w[1] = s[1] /\ w[2] = "write" /\ w[3] = s[2] /\ "write" \in deck[s[1]].flags

\* The state of a deck that is reported is one it had during the call, also
\* after a restart of the deck: it is not kept (deckmem.rs:128).
FlagsFresh ==
    \A t \in Clients : use[t].what = "bootloader_active" /\ use[t].outcome = "ok" =>
        use[t].flag \in use[t].saw

\* What is done to a deck, and what is said of it.
DecksRight == OwnDeck /\ FlagsFresh
=============================================================================
