------------------------------- MODULE Lending -------------------------------
(***************************************************************************)
(* What a Memory object promises about the backends it lends to the tasks  *)
(* of the program: only what is at home is lent, and to one task; only     *)
(* what is lent comes home, and then nobody has it any more; and what is   *)
(* lost, by an opening that fails or with an object that is dropped, is    *)
(* lost for good.  Memory implements this specification.                   *)
(***************************************************************************)

CONSTANTS
    Tasks,          \* tasks of the program
    Mems            \* memories, each with one backend

VARIABLES
    home,           \* the backend of the memory is in the Memory object
    holders         \* the tasks that have it

vars == <<home, holders>>

Init ==
    /\ home = [m \in Mems |-> TRUE]
    /\ holders = [m \in Mems |-> {}]

\* The backend of m goes to those of T, from home or to there.
Goes(m, T, atHome) ==
    /\ home' = [home EXCEPT ![m] = atHome]
    /\ holders' = [holders EXCEPT ![m] = T]

\* open_memory, which may still have to read the memory.
Lend(m, t) == home[m] /\ Goes(m, {t}, FALSE)

\* close_memory, which never finds the backend at home: what it does then, "already
\* closed", is never done.
GiveBack(m) == ~home[m] /\ holders[m] # {} /\ Goes(m, {}, TRUE)

\* An opening fails or is dropped, or an object is dropped.
Lose(m) == (home[m] \/ holders[m] # {}) /\ Goes(m, {}, FALSE)

Next == \E m \in Mems : (\E t \in Tasks : Lend(m, t)) \/ GiveBack(m) \/ Lose(m)

Spec == Init /\ [][Next]_vars
=============================================================================
