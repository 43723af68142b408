----------------------------- MODULE MemoryProofs -----------------------------
(***************************************************************************)
(* What Memory guarantees for any number of tasks, memories and calls,     *)
(* with dropped calls, failed openings and a lost connection: a backend    *)
(* never has two owners, and a read or a write is about its own range.     *)
(***************************************************************************)
EXTENDS Memory, FiniteSetTheorems, SequenceTheorems, QueueProofs, TLAPS

\* The types of what says who has a backend.
OwnTypes ==
    /\ home \in [Mems -> BOOLEAN]
    /\ object \in [Tasks -> Mems \union {NoMem}]
    /\ pc \in [Tasks -> {"idle", "read", "readWait", "write", "writeWait"}]
    /\ job \in [Tasks -> {"open", "read", "write"}]
    /\ mem \in [Tasks -> Mems]

\* The backend is at home and nobody has it, or one task at most does.
OwnInv ==
    /\ OwnTypes
    /\ \A m \in Mems :
          /\ home[m] => \A t \in Tasks : ~Holds(t, m)
          /\ \A s, t \in Tasks : Holds(s, m) /\ Holds(t, m) => s = t

LEMMA InitOwn == Init => OwnInv
<1> SUFFICES ASSUME Init PROVE OwnInv
  OBVIOUS
<1>1. (CHOOSE m \in Mems : TRUE) \in Mems
  BY MemAssumption
<1>2. OwnTypes
  BY <1>1 DEF Init, OwnTypes
<1>3. \A t \in Tasks, m \in Mems : ~Holds(t, m)
  BY MemAssumption DEF Init, Holds
<1> QED BY <1>2, <1>3 DEF OwnInv

\* A step by which no task comes to have a backend, and none goes home.
LEMMA NothingTaken ==
    ASSUME OwnInv, OwnTypes', UNCHANGED home,
           \A t \in Tasks, m \in Mems : Holds(t, m)' => Holds(t, m)
    PROVE  OwnInv'
  BY DEF OwnInv

\* A call that starts or ends without opening anything, or goes on.
LEMMA CallMoves ==
    ASSUME OwnInv, NEW t \in Tasks, UNCHANGED ownVars,
           NEW p \in {"idle", "read", "readWait", "write", "writeWait"},
           pc' = [pc EXCEPT ![t] = p],
           pc[t] = "idle" => job'[t] # "open",
           \/ UNCHANGED <<job, mem>>
           \/ /\ \E j \in {"open", "read", "write"} : job' = [job EXCEPT ![t] = j]
              /\ \E m \in Mems : mem' = [mem EXCEPT ![t] = m]
              /\ job'[t] = "open" => job[t] = "open" /\ mem'[t] = mem[t]
    PROVE  OwnInv'
<1>1. OwnTypes' /\ UNCHANGED <<home, object>>
  BY DEF OwnInv, OwnTypes, ownVars
<1>2. ASSUME NEW s \in Tasks, NEW m \in Mems, Holds(s, m)' PROVE Holds(s, m)
  <2>1. CASE s # t
    BY <1>1, <1>2, <2>1 DEF OwnInv, OwnTypes, Holds
  <2>2. CASE s = t
    BY <1>1, <1>2, <2>2 DEF OwnInv, OwnTypes, Holds
  <2> QED BY <2>1, <2>2
<1> QED BY <1>1, <1>2, NothingTaken

\* The task takes the backend that was at home.
LEMMA Taken ==
    ASSUME OwnInv, NEW t \in Tasks, NEW m \in Mems, home[m], Take(m), OwnTypes',
           \A s \in Tasks, n \in Mems : Holds(s, n)' => Holds(s, n) \/ (s = t /\ n = m)
    PROVE  OwnInv'
<1>1. home' = [home EXCEPT ![m] = FALSE] /\ home \in [Mems -> BOOLEAN]
  BY DEF Take, OwnInv, OwnTypes
<1>2. ASSUME NEW n \in Mems, home'[n] PROVE \A s \in Tasks : ~Holds(s, n)'
  BY <1>1, <1>2 DEF OwnInv
<1>3. ASSUME NEW n \in Mems, NEW r \in Tasks, NEW s \in Tasks, Holds(r, n)', Holds(s, n)'
      PROVE  r = s
  BY <1>3 DEF OwnInv
<1> QED BY <1>2, <1>3 DEF OwnInv

LEMMA OpenInv ==
    ASSUME OwnInv, NEW t \in Tasks, NEW m \in Mems,
           OpenAtOnce(t, m) \/ OpenWrongType(t, m) \/ OpenAndRead(t, m) \/ OpenNone(t, m)
    PROVE  OwnInv'
<1>1. CASE OpenAtOnce(t, m)
  <2>1. /\ object' = [object EXCEPT ![t] = m] /\ object[t] = NoMem
        /\ UNCHANGED <<pc, job, mem>> /\ home[m] /\ Take(m)
    BY <1>1 DEF OpenAtOnce
  <2>2. OwnTypes'
    BY <2>1 DEF OwnInv, OwnTypes, Take
  <2>3. \A s \in Tasks, n \in Mems : Holds(s, n)' => Holds(s, n) \/ (s = t /\ n = m)
    BY <2>1 DEF OwnInv, OwnTypes, Holds
  <2> QED BY <2>1, <2>2, <2>3, Taken
<1>2. CASE OpenWrongType(t, m)
  <2>1. UNCHANGED <<object, pc, job, mem>> /\ home[m] /\ Take(m)
    BY <1>2 DEF OpenWrongType
  <2>2. OwnTypes'
    BY <2>1 DEF OwnInv, OwnTypes, Take
  <2>3. \A s \in Tasks, n \in Mems : Holds(s, n)' => Holds(s, n) \/ (s = t /\ n = m)
    BY <2>1 DEF Holds
  <2> QED BY <2>1, <2>2, <2>3, Taken
<1>3. CASE OpenAndRead(t, m)
  <2>1. /\ pc[t] = "idle" /\ pc' = [pc EXCEPT ![t] = "read"]
        /\ job' = [job EXCEPT ![t] = "open"] /\ mem' = [mem EXCEPT ![t] = m]
        /\ UNCHANGED object /\ home[m] /\ Take(m)
    BY <1>3 DEF OpenAndRead, Called, Opens, Begin
  <2>2. OwnTypes'
    BY <2>1 DEF OwnInv, OwnTypes, Take
  <2>3. \A s \in Tasks, n \in Mems : Holds(s, n)' => Holds(s, n) \/ (s = t /\ n = m)
    BY <2>1 DEF OwnInv, OwnTypes, Holds
  <2> QED BY <2>1, <2>2, <2>3, Taken
<1>4. CASE OpenNone(t, m)
  <2>1. UNCHANGED <<home, object, pc, job, mem>>
    BY <1>4 DEF OpenNone, ownVars
  <2> QED BY <2>1 DEF OwnInv, OwnTypes, Holds
<1> QED BY <1>1, <1>2, <1>3, <1>4

\* The backend goes home from the task that had it, or is dropped with it.
LEMMA CloseInv ==
    ASSUME OwnInv, NEW t \in Tasks, Close(t) \/ DropObject(t)
    PROVE  OwnInv'
<1>1. /\ pc[t] = "idle" /\ object[t] \in Mems
      /\ object' = [object EXCEPT ![t] = NoMem]
      /\ UNCHANGED <<pc, job, mem>>
      /\ home' = [home EXCEPT ![object[t]] = TRUE] \/ UNCHANGED home
  BY DEF Close, DropObject, callVars, OwnInv, OwnTypes
<1>2. OwnTypes'
  BY <1>1 DEF OwnInv, OwnTypes
<1>3. \A s \in Tasks, m \in Mems : Holds(s, m)' => Holds(s, m) /\ ~(s = t /\ m = object[t])
  <2> SUFFICES ASSUME NEW s \in Tasks, NEW m \in Mems, Holds(s, m)'
               PROVE  Holds(s, m) /\ s # t
    OBVIOUS
  <2>1. CASE s = t
    BY <1>1, <2>1, MemAssumption DEF OwnInv, OwnTypes, Holds
  <2>2. CASE s # t
    BY <1>1, <2>2 DEF OwnInv, OwnTypes, Holds
  <2> QED BY <2>1, <2>2
<1>4. ASSUME NEW m \in Mems, m = object[t] PROVE \A s \in Tasks : ~Holds(s, m)'
  <2>1. Holds(t, m)
    BY <1>4 DEF Holds
  <2> QED BY <1>3, <1>4, <2>1 DEF OwnInv
<1>5. ASSUME NEW m \in Mems, home'[m] PROVE \A s \in Tasks : ~Holds(s, m)'
  <2>1. CASE m = object[t]
    BY <1>4, <2>1
  <2>2. CASE m # object[t]
    BY <1>1, <1>3, <1>5, <2>2 DEF OwnInv, OwnTypes
  <2> QED BY <2>1, <2>2
<1>6. ASSUME NEW m \in Mems, NEW r \in Tasks, NEW s \in Tasks, Holds(r, m)', Holds(s, m)'
      PROVE  r = s
  BY <1>3, <1>6 DEF OwnInv
<1> QED BY <1>2, <1>5, <1>6 DEF OwnInv

\* An opening goes on with the backend, hands it to the object, or loses it.
LEMMA OpenGoesOnInv == ASSUME OwnInv, NEW t \in Tasks, OpenGoesOn(t) PROVE OwnInv'
<1>1. pc[t] = "read" /\ job[t] = "open" /\ UNCHANGED home
  BY DEF OpenGoesOn
<1>2. \/ pc' = [pc EXCEPT ![t] = "idle"] /\ UNCHANGED <<job, mem, object>>
      \/ /\ pc' = [pc EXCEPT ![t] = "read"] /\ job' = [job EXCEPT ![t] = "open"]
         /\ mem' = [mem EXCEPT ![t] = mem[t]] /\ UNCHANGED object
      \/ /\ pc' = [pc EXCEPT ![t] = "idle"] /\ UNCHANGED <<job, mem>>
         /\ object' = [object EXCEPT ![t] = mem[t]]
  BY DEF OpenGoesOn, Return, Opens, Begin
<1>3. OwnTypes'
  BY <1>1, <1>2 DEF OwnInv, OwnTypes
<1>4. ASSUME NEW s \in Tasks, NEW m \in Mems, Holds(s, m)' PROVE Holds(s, m)
  <2>1. CASE s # t
    BY <1>2, <1>4, <2>1 DEF OwnInv, OwnTypes, Holds
  <2>2. CASE s = t
    BY <1>1, <1>2, <1>4, <2>2 DEF OwnInv, OwnTypes, Holds
  <2> QED BY <2>1, <2>2
<1> QED BY <1>1, <1>3, <1>4, NothingTaken

LEMMA CallInv ==
    ASSUME OwnInv, NEW t \in Tasks, CallRead(t) \/ CallWrite(t)
    PROVE  OwnInv'
<1>1. PICK m \in Mems, p \in {"read", "write"} :
          /\ pc' = [pc EXCEPT ![t] = p] /\ job' = [job EXCEPT ![t] = p]
          /\ mem' = [mem EXCEPT ![t] = m] /\ UNCHANGED ownVars
  BY DEF CallRead, CallWrite, Begin
<1>2. job'[t] # "open"
  BY <1>1 DEF OwnInv, OwnTypes
<1> QED BY <1>1, <1>2, CallMoves

LEMMA StepInv == ASSUME OwnInv, NEW t \in Tasks, Step(t) \/ Cancel(t) PROVE OwnInv'
<1>1. CASE OpenGoesOn(t)
  BY <1>1, OpenGoesOnInv
<1>2. ASSUME ~OpenGoesOn(t)
      PROVE  /\ UNCHANGED <<ownVars, job, mem>> /\ pc[t] # "idle"
             /\ \E p \in {"idle", "read", "readWait", "write", "writeWait"} :
                   pc' = [pc EXCEPT ![t] = p]
  <2> USE DEF OwnInv, OwnTypes, Return
  <2>1. CASE ReadSend(t) \/ WriteSend(t)
    BY <2>1 DEF ReadSend, WriteSend
  <2>2. CASE ReadDiscard(t) \/ WriteDiscard(t)
    <3>1. UNCHANGED <<ownVars, pc, job, mem>> /\ pc[t] \in {"readWait", "writeWait"}
      BY <2>2 DEF ReadDiscard, WriteDiscard, callVars
    <3>2. pc' = [pc EXCEPT ![t] = pc[t]]
      BY <3>1
    <3> QED BY <3>1, <3>2
  <2>3. CASE ReadAnswered(t)
    BY <2>3 DEF ReadAnswered
  <2>4. CASE WriteAnswered(t)
    BY <2>4 DEF WriteAnswered
  <2>5. CASE ReadDone(t) \/ WriteDone(t) \/ SendError(t) \/ WaitError(t) \/ Cancel(t)
    BY <2>5 DEF ReadDone, WriteDone, SendError, WaitError, Cancel
  <2> QED BY <1>2, <2>1, <2>2, <2>3, <2>4, <2>5 DEF Step
<1>3. CASE ~OpenGoesOn(t)
  <2>1. PICK p \in {"idle", "read", "readWait", "write", "writeWait"} :
            pc' = [pc EXCEPT ![t] = p]
    BY <1>2, <1>3
  <2> QED BY <1>2, <1>3, <2>1, CallMoves
<1> QED BY <1>1, <1>3

LEMMA NextOwn == OwnInv /\ [Next]_vars => OwnInv'
<1> SUFFICES ASSUME OwnInv, [Next]_vars PROVE OwnInv'
  OBVIOUS
<1>1. ASSUME NEW t \in Tasks, NEW m \in Mems,
             OpenAtOnce(t, m) \/ OpenWrongType(t, m) \/ OpenAndRead(t, m) \/ OpenNone(t, m)
      PROVE  OwnInv'
  BY <1>1, OpenInv
<1>2. ASSUME NEW t \in Tasks, Close(t) \/ DropObject(t) PROVE OwnInv'
  BY <1>2, CloseInv
<1>3. ASSUME NEW t \in Tasks, CallRead(t) \/ CallWrite(t) PROVE OwnInv'
  BY <1>3, CallInv
<1>4. ASSUME NEW t \in Tasks, Step(t) \/ Cancel(t) PROVE OwnInv'
  BY <1>4, StepInv
<1>5. CASE FwRequest \/ ConnectionEnds \/ UNCHANGED vars
  <2>1. UNCHANGED <<home, object, pc, job, mem>>
    BY <1>5 DEF FwRequest, ConnectionEnds, vars, ownVars, callVars
  <2> QED BY <2>1 DEF OwnInv, OwnTypes, Holds
<1> QED BY <1>1, <1>2, <1>3, <1>4, <1>5 DEF Next

\* A memory has one backend: it is in the Memory object, or in the object of one
\* task, or in the hands of one task that is opening it (open_memory).
THEOREM OneOwnerAlways == Spec => []OneOwner
<1>1. OwnInv => OneOwner
  <2> SUFFICES ASSUME OwnInv, NEW m \in Mems
               PROVE  Cardinality(Holders[m]) <= IF home[m] THEN 0 ELSE 1
    BY DEF OneOwner
  <2>1. Holders[m] = {t \in Tasks : Holds(t, m)}
    BY DEF Holders
  <2>2. home[m] => Holders[m] = {}
    BY <2>1 DEF OwnInv
  <2>3. Holders[m] = {} \/ \E t \in Tasks : Holders[m] = {t}
    BY <2>1 DEF OwnInv
  <2>4. Cardinality(Holders[m]) \in {0, 1} /\ (home[m] => Cardinality(Holders[m]) = 0)
    BY <2>2, <2>3, FS_EmptySet, FS_Singleton
  <2> QED BY <2>4
<1> QED BY <1>1, InitOwn, NextOwn, PTL DEF Spec

-----------------------------------------------------------------------------
(* The promise of Lending *)

\* A task that opens a memory has no object.
Openers == \A t \in Tasks : pc[t] # "idle" /\ job[t] = "open" => object[t] = NoMem

LentInv == OwnInv /\ Openers

\* A step that leaves every backend where it is.
LEMMA NobodyMoves ==
    ASSUME UNCHANGED home, \A t \in Tasks, m \in Mems : Holds(t, m)' <=> Holds(t, m)
    PROVE  UNCHANGED Lent!vars
<1>1. Holders' = Holders
  BY DEF Holders
<1> QED BY <1>1 DEF Lent!vars

\* A step that moves the backend of m alone.
LEMMA OneMoves ==
    ASSUME NEW m \in Mems, NEW T \in SUBSET Tasks, NEW b \in BOOLEAN,
           home' = [home EXCEPT ![m] = b],
           \A s \in Tasks : Holds(s, m)' <=> s \in T,
           \A s \in Tasks, n \in Mems \ {m} : Holds(s, n)' <=> Holds(s, n)
    PROVE  Lent!Goes(m, T, b)
<1>1. Holders' = [Holders EXCEPT ![m] = T]
  BY DEF Holders
<1> QED BY <1>1 DEF Lent!Goes

\* The task that has a backend drops it: nobody has it any more.
LEMMA HolderLoses ==
    ASSUME OwnInv, NEW t \in Tasks, NEW m \in Mems, Holds(t, m), UNCHANGED home,
           ~Holds(t, m)',
           \A s \in Tasks \ {t} : Holds(s, m)' <=> Holds(s, m),
           \A s \in Tasks, n \in Mems \ {m} : Holds(s, n)' <=> Holds(s, n)
    PROVE  Lent!Lose(m)
<1>1. ~home[m] /\ \A s \in Tasks : ~Holds(s, m)'
  BY DEF OwnInv
<1>2. home' = [home EXCEPT ![m] = FALSE]
  BY <1>1 DEF OwnInv, OwnTypes
<1>3. Lent!Goes(m, {}, FALSE)
  BY <1>1, <1>2, OneMoves
<1>4. Holders[m] # {}
  BY DEF Holders
<1> QED BY <1>3, <1>4 DEF Lent!Lose

LEMMA OpenLends ==
    ASSUME OwnInv, NEW t \in Tasks, NEW m \in Mems,
           OpenAtOnce(t, m) \/ OpenWrongType(t, m) \/ OpenAndRead(t, m) \/ OpenNone(t, m)
    PROVE  [Lent!Next]_(Lent!vars)
<1>1. CASE OpenNone(t, m)
  <2>1. UNCHANGED <<home, object, pc, job, mem>>
    BY <1>1 DEF OpenNone, ownVars
  <2>2. UNCHANGED Lent!vars
    BY <2>1, NobodyMoves DEF Holds
  <2> QED BY <2>2
<1>2. CASE OpenWrongType(t, m)
  <2>1. UNCHANGED <<object, pc, job, mem>> /\ home[m] /\ home' = [home EXCEPT ![m] = FALSE]
    BY <1>2 DEF OpenWrongType, Take
  <2>2. \A s \in Tasks, n \in Mems : Holds(s, n)' <=> Holds(s, n)
    BY <2>1 DEF Holds
  <2>3. \A s \in Tasks : Holds(s, m)' <=> s \in {}
    BY <2>1, <2>2 DEF OwnInv
  <2>4. Lent!Goes(m, {}, FALSE)
    BY <2>1, <2>2, <2>3, OneMoves
  <2> QED BY <2>1, <2>4 DEF Lent!Lose, Lent!Next
<1>3. CASE OpenAtOnce(t, m) \/ OpenAndRead(t, m)
  <2>1. /\ home[m] /\ home' = [home EXCEPT ![m] = FALSE]
        /\ pc[t] = "idle" /\ object[t] = NoMem
        /\ \/ object' = [object EXCEPT ![t] = m] /\ UNCHANGED <<pc, job, mem>>
           \/ /\ pc' = [pc EXCEPT ![t] = "read"] /\ job' = [job EXCEPT ![t] = "open"]
              /\ mem' = [mem EXCEPT ![t] = m] /\ UNCHANGED object
    BY <1>3 DEF OpenAtOnce, OpenAndRead, Called, Opens, Begin, Take
  <2>2. \A n \in Mems : ~Holds(t, n) /\ (Holds(t, n)' <=> n = m)
    BY <2>1, MemAssumption DEF OwnInv, OwnTypes, Holds
  <2>3. \A s \in Tasks \ {t}, n \in Mems : Holds(s, n)' <=> Holds(s, n)
    BY <2>1 DEF OwnInv, OwnTypes, Holds
  <2>4. \A s \in Tasks : Holds(s, m)' <=> s \in {t}
    BY <2>1, <2>2, <2>3 DEF OwnInv
  <2>5. \A s \in Tasks, n \in Mems \ {m} : Holds(s, n)' <=> Holds(s, n)
    BY <2>2, <2>3
  <2>6. Lent!Goes(m, {t}, FALSE)
    BY <2>1, <2>4, <2>5, OneMoves
  <2> QED BY <2>1, <2>6 DEF Lent!Lend, Lent!Next
<1> QED BY <1>1, <1>2, <1>3

LEMMA CloseGivesBack ==
    ASSUME OwnInv, NEW t \in Tasks, Close(t) \/ DropObject(t)
    PROVE  [Lent!Next]_(Lent!vars)
<1>0. PICK m \in Mems : m = object[t]
  BY DEF Close, DropObject, OwnInv, OwnTypes
<1>1. /\ pc[t] = "idle"
      /\ object' = [object EXCEPT ![t] = NoMem]
      /\ UNCHANGED <<pc, job, mem>>
      /\ home' = [home EXCEPT ![m] = TRUE] \/ UNCHANGED home
  BY <1>0 DEF Close, DropObject, callVars
<1>2. Holds(t, m) /\ ~home[m]
  BY <1>0, <1>1 DEF Holds, OwnInv
<1>3. \A n \in Mems : ~Holds(t, n)' /\ (n # m => ~Holds(t, n))
  BY <1>0, <1>1, MemAssumption DEF OwnInv, OwnTypes, Holds
<1>4. \A s \in Tasks \ {t}, n \in Mems : Holds(s, n)' <=> Holds(s, n)
  BY <1>1 DEF OwnInv, OwnTypes, Holds
<1>5. \A s \in Tasks, n \in Mems \ {m} : Holds(s, n)' <=> Holds(s, n)
  BY <1>3, <1>4
<1>6. CASE UNCHANGED home
  <2>1. Lent!Lose(m)
    BY <1>1, <1>2, <1>3, <1>4, <1>5, <1>6, HolderLoses
  <2> QED BY <1>1, <2>1 DEF Lent!Next
<1>7. CASE home' = [home EXCEPT ![m] = TRUE]
  <2>1. \A s \in Tasks : Holds(s, m)' <=> s \in {}
    BY <1>1, <1>2, <1>3, <1>4 DEF OwnInv
  <2>2. Lent!Goes(m, {}, TRUE)
    BY <1>1, <1>5, <1>7, <2>1, OneMoves
  <2>3. Holders[m] # {}
    BY <1>1, <1>2 DEF Holders
  <2> QED BY <1>1, <1>2, <2>2, <2>3 DEF Lent!GiveBack, Lent!Next
<1> QED BY <1>1, <1>6, <1>7

\* A step of a call that opens nothing, or of an opening that goes on.
LEMMA CallStays ==
    ASSUME OwnInv, NEW t \in Tasks, UNCHANGED ownVars,
           NEW p \in {"idle", "read", "readWait", "write", "writeWait"},
           pc' = [pc EXCEPT ![t] = p],
           \/ job[t] # "open" /\ UNCHANGED <<job, mem>>
           \/ p # "idle" /\ pc[t] # "idle" /\ UNCHANGED <<job, mem>>
           \/ /\ pc[t] = "idle"
              /\ \E j \in {"read", "write"} : job' = [job EXCEPT ![t] = j]
              /\ \E m \in Mems : mem' = [mem EXCEPT ![t] = m]
    PROVE  UNCHANGED Lent!vars
<1>1. UNCHANGED <<home, object>>
  BY DEF ownVars
<1>2. ASSUME NEW s \in Tasks, NEW m \in Mems PROVE Holds(s, m)' <=> Holds(s, m)
  <2>1. CASE s # t
    BY <1>1, <2>1 DEF OwnInv, OwnTypes, Holds
  <2>2. CASE s = t
    BY <1>1, <2>2 DEF OwnInv, OwnTypes, Holds
  <2> QED BY <2>1, <2>2
<1> QED BY <1>1, <1>2, NobodyMoves

\* An opening that ends without an object loses the backend.
LEMMA OpeningLoses ==
    ASSUME OwnInv, NEW t \in Tasks, pc[t] # "idle", job[t] = "open",
           pc' = [pc EXCEPT ![t] = "idle"], UNCHANGED <<home, object, job, mem>>,
           object[t] # mem[t]
    PROVE  [Lent!Next]_(Lent!vars)
<1>1. mem[t] \in Mems /\ Holds(t, mem[t])
  BY DEF OwnInv, OwnTypes, Holds
<1>2. ~Holds(t, mem[t])'
  BY DEF OwnInv, OwnTypes, Holds
<1>3. \A s \in Tasks \ {t}, n \in Mems : Holds(s, n)' <=> Holds(s, n)
  BY DEF OwnInv, OwnTypes, Holds
<1>4. \A n \in Mems \ {mem[t]} : Holds(t, n)' <=> Holds(t, n)
  BY DEF OwnInv, OwnTypes, Holds
<1>5. \A s \in Tasks, n \in Mems \ {mem[t]} : Holds(s, n)' <=> Holds(s, n)
  BY <1>3, <1>4
<1>6. Lent!Lose(mem[t])
  BY <1>1, <1>2, <1>3, <1>5, HolderLoses
<1> QED BY <1>1, <1>6 DEF Lent!Next

\* An opening goes on with the backend, hands it to the object, or loses it.
LEMMA OpenGoesOnKeeps ==
    ASSUME LentInv, NEW t \in Tasks, OpenGoesOn(t)
    PROVE  [Lent!Next]_(Lent!vars)
<1>1. /\ pc[t] = "read" /\ job[t] = "open" /\ UNCHANGED home
      /\ object[t] = NoMem /\ object[t] # mem[t] /\ mem[t] \in Mems /\ OwnInv
  BY MemAssumption DEF OpenGoesOn, LentInv, Openers, OwnInv, OwnTypes
<1>2. \/ pc' = [pc EXCEPT ![t] = "idle"] /\ UNCHANGED <<job, mem, object>>
      \/ /\ pc' = [pc EXCEPT ![t] = "read"] /\ job' = [job EXCEPT ![t] = "open"]
         /\ mem' = [mem EXCEPT ![t] = mem[t]] /\ UNCHANGED object
      \/ /\ pc' = [pc EXCEPT ![t] = "idle"] /\ UNCHANGED <<job, mem>>
         /\ object' = [object EXCEPT ![t] = mem[t]]
  BY DEF OpenGoesOn, Return, Opens, Begin
<1>3. CASE pc' = [pc EXCEPT ![t] = "idle"] /\ UNCHANGED <<job, mem, object>>
  BY <1>1, <1>3, OpeningLoses
<1>4. CASE /\ pc' = [pc EXCEPT ![t] = "read"] /\ job' = [job EXCEPT ![t] = "open"]
           /\ mem' = [mem EXCEPT ![t] = mem[t]] /\ UNCHANGED object
  <2>1. UNCHANGED <<ownVars, job, mem>>
    BY <1>1, <1>4 DEF OwnInv, OwnTypes, ownVars
  <2>2. UNCHANGED Lent!vars
    BY <1>1, <1>4, <2>1, CallStays
  <2> QED BY <2>2
<1>5. CASE /\ pc' = [pc EXCEPT ![t] = "idle"] /\ UNCHANGED <<job, mem>>
           /\ object' = [object EXCEPT ![t] = mem[t]]
  <2>1. ASSUME NEW s \in Tasks, NEW m \in Mems PROVE Holds(s, m)' <=> Holds(s, m)
    <3>1. CASE s # t
      BY <1>5, <3>1 DEF OwnInv, OwnTypes, Holds
    <3>2. CASE s = t
      BY <1>1, <1>5, <3>2, MemAssumption DEF OwnInv, OwnTypes, Holds
    <3> QED BY <3>1, <3>2
  <2>2. UNCHANGED Lent!vars
    BY <1>1, <2>1, NobodyMoves
  <2> QED BY <2>2
<1> QED BY <1>2, <1>3, <1>4, <1>5

LEMMA CallKeeps ==
    ASSUME OwnInv, NEW t \in Tasks, CallRead(t) \/ CallWrite(t)
    PROVE  UNCHANGED Lent!vars
<1>1. PICK m \in Mems, p \in {"read", "write"} :
          /\ pc[t] = "idle"
          /\ pc' = [pc EXCEPT ![t] = p] /\ job' = [job EXCEPT ![t] = p]
          /\ mem' = [mem EXCEPT ![t] = m] /\ UNCHANGED ownVars
  BY DEF CallRead, CallWrite, Called, Begin
<1> QED BY <1>1, CallStays

\* A request is sent, an answer is taken or thrown away, or the call ends.
LEMMA StepKeeps ==
    ASSUME LentInv, NEW t \in Tasks, Step(t) \/ Cancel(t), ~OpenGoesOn(t)
    PROVE  [Lent!Next]_(Lent!vars)
<1>1. OwnInv
  BY DEF LentInv
<1>2. /\ UNCHANGED <<ownVars, job, mem>> /\ pc[t] # "idle"
      /\ \E p \in {"idle", "read", "readWait", "write", "writeWait"} :
            pc' = [pc EXCEPT ![t] = p]
  <2> USE DEF OwnInv, OwnTypes, Return
  <2>1. CASE ReadSend(t) \/ WriteSend(t)
    BY <2>1 DEF ReadSend, WriteSend
  <2>2. CASE ReadDiscard(t) \/ WriteDiscard(t)
    <3>1. UNCHANGED <<ownVars, pc, job, mem>> /\ pc[t] \in {"readWait", "writeWait"}
      BY <2>2 DEF ReadDiscard, WriteDiscard, callVars
    <3>2. pc' = [pc EXCEPT ![t] = pc[t]]
      BY <1>1, <3>1
    <3> QED BY <3>1, <3>2
  <2>3. CASE ReadAnswered(t)
    BY <2>3 DEF ReadAnswered
  <2>4. CASE WriteAnswered(t)
    BY <2>4 DEF WriteAnswered
  <2>5. CASE ReadDone(t) \/ WriteDone(t) \/ SendError(t) \/ WaitError(t) \/ Cancel(t)
    BY <2>5 DEF ReadDone, WriteDone, SendError, WaitError, Cancel
  <2> QED BY <2>1, <2>2, <2>3, <2>4, <2>5 DEF Step
<1>3. PICK p \in {"idle", "read", "readWait", "write", "writeWait"} :
          pc' = [pc EXCEPT ![t] = p]
  BY <1>2
<1>4. CASE job[t] # "open" \/ p # "idle"
  <2>1. UNCHANGED Lent!vars
    BY <1>1, <1>2, <1>3, <1>4, CallStays
  <2> QED BY <2>1
<1>5. CASE job[t] = "open" /\ p = "idle"
  <2>1. object[t] # mem[t]
    BY <1>2, <1>5, MemAssumption DEF LentInv, Openers, OwnInv, OwnTypes
  <2>2. pc' = [pc EXCEPT ![t] = "idle"] /\ UNCHANGED <<home, object, job, mem>>
    BY <1>2, <1>3, <1>5 DEF ownVars
  <2> QED BY <1>1, <1>2, <1>5, <2>1, <2>2, OpeningLoses
<1> QED BY <1>4, <1>5

LEMMA InitOpeners == Init => Openers
  BY DEF Init, Openers

\* Only a task that is idle gets an object while it is not opening one, and only
\* a task without an object opens a memory.
LEMMA NextOpeners == ASSUME OwnInv, Openers, [Next]_vars PROVE Openers'
<1>1. ASSUME NEW t \in Tasks, NEW m \in Mems,
             OpenAtOnce(t, m) \/ OpenWrongType(t, m) \/ OpenAndRead(t, m) \/ OpenNone(t, m)
      PROVE  Openers'
  <2>1. /\ pc[t] = "idle" /\ object[t] = NoMem
        /\ \/ UNCHANGED pc /\ UNCHANGED job
              /\ (object' = [object EXCEPT ![t] = m] \/ UNCHANGED object)
           \/ /\ pc' = [pc EXCEPT ![t] = "read"] /\ job' = [job EXCEPT ![t] = "open"]
              /\ UNCHANGED object
    BY <1>1 DEF OpenAtOnce, OpenWrongType, OpenAndRead, OpenNone, Called, Opens, Begin, ownVars
  <2> QED BY <2>1 DEF Openers, OwnInv, OwnTypes
<1>2. ASSUME NEW t \in Tasks, Close(t) \/ DropObject(t) PROVE Openers'
  BY <1>2 DEF Close, DropObject, callVars, Openers, OwnInv, OwnTypes
<1>3. ASSUME NEW t \in Tasks, CallRead(t) \/ CallWrite(t) PROVE Openers'
  <2>1. PICK p \in {"read", "write"} :
            /\ pc' = [pc EXCEPT ![t] = p] /\ job' = [job EXCEPT ![t] = p]
            /\ UNCHANGED ownVars
    BY <1>3 DEF CallRead, CallWrite, Begin
  <2> QED BY <2>1 DEF Openers, OwnInv, OwnTypes, ownVars
<1>4. ASSUME NEW t \in Tasks, Step(t) \/ Cancel(t) PROVE Openers'
  <2>1. CASE OpenGoesOn(t)
    <3>1. /\ pc[t] = "read" /\ job[t] = "open"
          /\ \/ pc' = [pc EXCEPT ![t] = "idle"] /\ UNCHANGED job
                /\ (UNCHANGED object \/ object' = [object EXCEPT ![t] = mem[t]])
             \/ /\ pc' = [pc EXCEPT ![t] = "read"] /\ job' = [job EXCEPT ![t] = "open"]
                /\ UNCHANGED object
      BY <2>1 DEF OpenGoesOn, Return, Opens, Begin
    <3> QED BY <3>1 DEF Openers, OwnInv, OwnTypes
  <2>2. CASE ~OpenGoesOn(t)
    <3>1. /\ UNCHANGED <<ownVars, job>> /\ pc[t] # "idle"
          /\ \A s \in Tasks \ {t} : pc'[s] = pc[s]
      BY <1>4, <2>2 DEF Step, Cancel, Return, ReadSend, ReadDiscard, ReadAnswered, ReadDone,
            WriteSend, WriteDiscard, WriteAnswered, WriteDone, SendError, WaitError, callVars,
            OwnInv, OwnTypes
    <3> QED BY <3>1 DEF Openers, ownVars
  <2> QED BY <2>1, <2>2
<1>5. CASE FwRequest \/ ConnectionEnds \/ UNCHANGED vars
  BY <1>5 DEF FwRequest, ConnectionEnds, vars, ownVars, callVars, Openers
<1> QED BY <1>1, <1>2, <1>3, <1>4, <1>5 DEF Next

LEMMA StepLent == ASSUME LentInv, [Next]_vars PROVE [Lent!Next]_(Lent!vars)
<1>1. OwnInv
  BY DEF LentInv
<1>2. ASSUME NEW t \in Tasks, NEW m \in Mems,
             OpenAtOnce(t, m) \/ OpenWrongType(t, m) \/ OpenAndRead(t, m) \/ OpenNone(t, m)
      PROVE  [Lent!Next]_(Lent!vars)
  BY <1>1, <1>2, OpenLends
<1>3. ASSUME NEW t \in Tasks, Close(t) \/ DropObject(t) PROVE [Lent!Next]_(Lent!vars)
  BY <1>1, <1>3, CloseGivesBack
<1>4. ASSUME NEW t \in Tasks, CallRead(t) \/ CallWrite(t) PROVE [Lent!Next]_(Lent!vars)
  BY <1>1, <1>4, CallKeeps
<1>5. ASSUME NEW t \in Tasks, Step(t) \/ Cancel(t) PROVE [Lent!Next]_(Lent!vars)
  BY <1>5, OpenGoesOnKeeps, StepKeeps
<1>6. CASE FwRequest \/ ConnectionEnds \/ UNCHANGED vars
  <2>1. UNCHANGED <<home, object, pc, job, mem>>
    BY <1>6 DEF FwRequest, ConnectionEnds, vars, ownVars, callVars
  <2>2. UNCHANGED Lent!vars
    BY <2>1, NobodyMoves DEF Holds
  <2> QED BY <2>2
<1> QED BY <1>2, <1>3, <1>4, <1>5, <1>6 DEF Next

LEMMA InitLent == Init => Lent!Init
<1> SUFFICES ASSUME Init PROVE Lent!Init
  OBVIOUS
<1>1. \A t \in Tasks, m \in Mems : ~Holds(t, m)
  BY MemAssumption DEF Init, Holds
<1>2. Holders = [m \in Mems |-> {}]
  BY <1>1 DEF Holders
<1> QED BY <1>2 DEF Init, Lent!Init

\* Memory implements Lending: no backend is in two places, it goes to one task
\* from home only, home from that task only, and what is lost stays lost.
THEOREM LendingImplemented == Spec => LendingKept
<1>1. Init => Lent!Init
  BY InitLent
<1>2. Init => LentInv
  BY InitOwn, InitOpeners DEF LentInv
<1>3. LentInv /\ [Next]_vars => LentInv'
  BY NextOwn, NextOpeners DEF LentInv
<1>4. LentInv /\ [Next]_vars => [Lent!Next]_(Lent!vars)
  BY StepLent
<1> QED BY <1>1, <1>2, <1>3, <1>4, PTL DEF Spec, LendingKept, Lent!Spec

-----------------------------------------------------------------------------
(* Types *)

\* What is read or written is as long as it should be, and the address asked for
\* is that of the current part.
CallOK(t) ==
    /\ from[t] <= cur[t] /\ cur[t] <= End(t)
    /\ pc[t] # "idle" => Len(buf[t]) = length[t]
    /\ pc[t] # "idle" /\ job[t] = "open" => todo[t] # <<>>
    /\ pc[t] \in {"write", "writeWait"} => buf[t] \in Seq(Cells)
    /\ pc[t] = "readWait" => asked[t] = cur[t]
    /\ pc[t] = "writeWait" => from[t] <= asked[t] /\ asked[t] <= cur[t]

CallTypes ==
    /\ pc \in [Tasks -> {"idle", "read", "readWait", "write", "writeWait"}]
    /\ job \in [Tasks -> {"open", "read", "write"}]
    /\ todo \in [Tasks -> Seq(Reads)]
    /\ mem \in [Tasks -> Mems]
    /\ from \in [Tasks -> Nat] /\ length \in [Tasks -> Nat]
    /\ cur \in [Tasks -> Nat] /\ asked \in [Tasks -> Nat]
    /\ buf \in [Tasks -> Seq(Cells \union {0})]
    /\ result \in [Tasks -> {"ok", "none", "error", "disconnected", "panicked"}]
    /\ \A t \in Tasks : CallOK(t)

WireTypes ==
    /\ uplink \in Seq(Requests)
    /\ readQ \in [Mems -> Seq(Answers)] /\ writeQ \in [Mems -> Seq(Answers)]
    /\ content \in [Mems -> [Address -> Cells]]
    /\ before \in [Tasks -> [Address -> Cells]]
    /\ connected \in BOOLEAN
    /\ ~connected => uplink = <<>>
    /\ \A i \in 1..Len(uplink) : uplink[i].op = "write" => Len(uplink[i].data) = uplink[i].n

OtherTypes ==
    /\ home \in [Mems -> BOOLEAN]
    /\ object \in [Tasks -> Mems \union {NoMem}]
    /\ calls \in [Tasks -> Nat] /\ cancels \in Nat

TypeInv == CallTypes /\ WireTypes /\ OtherTypes

LEMMA TypeInvType == TypeInv => TypeOK
<1> SUFFICES ASSUME TypeInv PROVE TypeOK
  OBVIOUS
<1>1. \A t \in Tasks : cur[t] \in from[t]..End(t)
  BY DEF TypeInv, CallTypes, CallOK, End
<1> QED BY <1>1 DEF TypeInv, CallTypes, WireTypes, OtherTypes, TypeOK

LEMMA InitTypes == Init => TypeInv
<1> SUFFICES ASSUME Init PROVE TypeInv
  OBVIOUS
<1>1. (CHOOSE m \in Mems : TRUE) \in Mems
  BY MemAssumption
<1>2. CallTypes
  BY <1>1, EmptyFacts DEF Init, CallTypes, CallOK, End
<1>3. WireTypes
  BY EmptyFacts DEF Init, WireTypes, Cells
<1>4. OtherTypes
  BY DEF Init, OtherTypes
<1> QED BY <1>2, <1>3, <1>4 DEF TypeInv

LEMMA ZerosFacts ==
    ASSUME NEW n \in Nat PROVE Zeros(n) \in Seq(Cells \union {0}) /\ Len(Zeros(n)) = n
  BY DEF Zeros

LEMMA BeginTypes ==
    ASSUME CallTypes, NEW t \in Tasks, NEW p \in {"read", "write"},
           NEW j \in {"open", "read", "write"}, NEW m \in Mems, NEW a \in Nat, NEW n \in Nat,
           NEW cells \in Seq(Cells \union {0}), Len(cells) = n,
           p = "write" => cells \in Seq(Cells),
           Begin(t, p, j, m, a, n, cells), todo' \in [Tasks -> Seq(Reads)],
           j = "open" => todo'[t] # <<>>,
           \A s \in Tasks \ {t} : todo'[s] = todo[s]
    PROVE  CallTypes'
<1>1. /\ pc' \in [Tasks -> {"idle", "read", "readWait", "write", "writeWait"}]
      /\ job' \in [Tasks -> {"open", "read", "write"}]
      /\ mem' \in [Tasks -> Mems]
      /\ from' \in [Tasks -> Nat] /\ length' \in [Tasks -> Nat]
      /\ cur' \in [Tasks -> Nat] /\ asked' \in [Tasks -> Nat]
      /\ buf' \in [Tasks -> Seq(Cells \union {0})]
      /\ result' = result
  BY DEF CallTypes, Begin
<1>2. /\ pc'[t] = p /\ job'[t] = j /\ from'[t] = a /\ length'[t] = n /\ cur'[t] = a
      /\ asked'[t] = a /\ buf'[t] = cells
      /\ \A s \in Tasks \ {t} :
            /\ pc'[s] = pc[s] /\ job'[s] = job[s] /\ from'[s] = from[s]
            /\ length'[s] = length[s] /\ cur'[s] = cur[s] /\ asked'[s] = asked[s]
            /\ buf'[s] = buf[s]
  BY DEF CallTypes, Begin
<1>3. CallOK(t)'
  BY <1>1, <1>2 DEF CallOK, End
<1>4. ASSUME NEW s \in Tasks \ {t} PROVE CallOK(s)'
  <2>1. CallOK(s) /\ job'[s] = job[s]
    BY <1>1, <1>2 DEF CallTypes
  <2> QED BY <1>2, <2>1 DEF CallOK, End
<1> QED BY <1>1, <1>3, <1>4 DEF CallTypes

LEMMA ReturnTypes ==
    ASSUME CallTypes, NEW t \in Tasks,
           NEW r \in {"ok", "none", "error", "disconnected", "panicked"}, Return(t, r)
    PROVE  CallTypes'
<1>1. /\ pc' \in [Tasks -> {"idle", "read", "readWait", "write", "writeWait"}]
      /\ todo' \in [Tasks -> Seq(Reads)]
      /\ from' \in [Tasks -> Nat] /\ length' \in [Tasks -> Nat]
      /\ cur' \in [Tasks -> Nat] /\ asked' \in [Tasks -> Nat]
      /\ buf' \in [Tasks -> Seq(Cells \union {0})]
      /\ result' \in [Tasks -> {"ok", "none", "error", "disconnected", "panicked"}]
      /\ job' = job /\ mem' = mem
  BY EmptyFacts DEF CallTypes, Return
<1>2. /\ pc'[t] = "idle" /\ from'[t] = 0 /\ length'[t] = 0 /\ cur'[t] = 0
      /\ \A s \in Tasks \ {t} :
            /\ pc'[s] = pc[s] /\ from'[s] = from[s] /\ todo'[s] = todo[s]
            /\ length'[s] = length[s] /\ cur'[s] = cur[s] /\ asked'[s] = asked[s]
            /\ buf'[s] = buf[s]
  BY DEF CallTypes, Return
<1>3. CallOK(t)'
  BY <1>1, <1>2 DEF CallOK, End
<1>4. ASSUME NEW s \in Tasks \ {t} PROVE CallOK(s)'
  <2>1. CallOK(s) /\ job'[s] = job[s]
    BY <1>1, <1>2 DEF CallTypes
  <2> QED BY <1>2, <2>1 DEF CallOK, End
<1> QED BY <1>1, <1>3, <1>4 DEF CallTypes

\* The address moves on by what the request asks for, and never past the end.
LEMMA ToTransferFacts ==
    ASSUME CallTypes, NEW t \in Tasks
    PROVE  /\ ToTransfer(t) \in Nat /\ Start(t) \in Nat /\ Advanced(t) \in Nat
           /\ Advanced(t) = cur[t] + ToTransfer(t) /\ Advanced(t) <= End(t)
           /\ Start(t) + ToTransfer(t) <= length[t] /\ from[t] + Start(t) = cur[t]
           /\ cur[t] < End(t) => ToTransfer(t) > 0
<1>1. /\ from[t] \in Nat /\ length[t] \in Nat /\ cur[t] \in Nat /\ MaxRequest \in Nat \ {0}
      /\ from[t] <= cur[t] /\ cur[t] <= from[t] + length[t]
  BY SizeAssumption DEF CallTypes, CallOK, End
<1> QED BY <1>1 DEF ToTransfer, Start, Advanced, End

\* The reads an open makes.
LEMMA ReadsFacts ==
    ASSUME NEW reads \in {OneWireReads(0), OneWireReads(1), EepromReads, DeckReads}
    PROVE  reads \in Seq(Reads) /\ reads # <<>>
<1>1. ASSUME NEW n \in Nat PROVE OneWireReads(n) \in Seq(Reads) /\ OneWireReads(n) # <<>>
  <2>1. 2 + n \in Nat
    BY <1>1
  <2>2. Len(OneWireReads(n)) = 4
    BY DEF OneWireReads
  <2> QED BY <2>1, <2>2, EmptySeq DEF OneWireReads, Reads
<1>2. EepromReads \in Seq(Reads) /\ EepromReads # <<>>
  <2>1. Len(EepromReads) = 1
    BY DEF EepromReads
  <2> QED BY <2>1, SizeAssumption, EmptySeq DEF EepromReads, Reads
<1>3. DeckReads \in Seq(Reads) /\ DeckReads # <<>>
  <2> DEFINE first == <<[addr |-> 0, n |-> 1, checked |-> TRUE]>>
             rest == [k \in 1..(Size - 1) |-> [addr |-> k, n |-> 1, checked |-> FALSE]]
  <2>1. first \in Seq(Reads) /\ Len(first) = 1
    BY DEF Reads
  <2>2. rest \in Seq(Reads) /\ Len(rest) = Size - 1
    BY SizeAssumption DEF Reads
  <2> HIDE DEF first, rest
  <2>3. first \o rest \in Seq(Reads) /\ Len(first \o rest) = Size
    <3> DEFINE all == first \o rest
    <3>1. all \in Seq(Reads) /\ Len(all) = Len(first) + Len(rest)
      BY <2>1, <2>2, ConcatProperties
    <3> HIDE DEF all
    <3>2. Len(all) = Size
      BY <2>1, <2>2, <3>1, SizeAssumption
    <3> QED BY <3>1, <3>2 DEF all
  <2>4. first \o rest # <<>>
    BY <2>3, SizeAssumption, EmptySeq
  <2> QED BY <2>3, <2>4 DEF DeckReads, first, rest
<1> QED BY <1>1, <1>2, <1>3

LEMMA OpenTypes ==
    ASSUME TypeInv, NEW t \in Tasks, NEW m \in Mems,
           OpenAtOnce(t, m) \/ OpenWrongType(t, m) \/ OpenAndRead(t, m) \/ OpenNone(t, m)
    PROVE  TypeInv'
<1>1. WireTypes'
  BY DEF OpenAtOnce, OpenWrongType, OpenAndRead, OpenNone, TypeInv, WireTypes, wireVars, fwVars
<1>2. OtherTypes'
  <2>1. calls' = [calls EXCEPT ![t] = @ + 1] /\ UNCHANGED cancels
    BY DEF OpenAtOnce, OpenWrongType, OpenAndRead, OpenNone, Called
  <2>2. home' \in [Mems -> BOOLEAN]
    BY DEF OpenAtOnce, OpenWrongType, OpenAndRead, OpenNone, Take, ownVars, TypeInv, OtherTypes
  <2>3. object' \in [Tasks -> Mems \union {NoMem}]
    BY DEF OpenAtOnce, OpenWrongType, OpenAndRead, OpenNone, ownVars, TypeInv, OtherTypes
  <2>4. calls' \in [Tasks -> Nat] /\ cancels' \in Nat
    BY <2>1 DEF TypeInv, OtherTypes
  <2> QED BY <2>2, <2>3, <2>4 DEF OtherTypes
<1>3. CASE OpenAtOnce(t, m) \/ OpenWrongType(t, m) \/ OpenNone(t, m)
  <2>1. UNCHANGED <<pc, job, todo, mem, from, length, cur, asked, buf>>
        /\ result' \in [Tasks -> {"ok", "none", "error", "disconnected", "panicked"}]
    BY <1>3 DEF OpenAtOnce, OpenWrongType, OpenNone, TypeInv, CallTypes
  <2>2. CallTypes'
    BY <2>1 DEF TypeInv, CallTypes, CallOK, End
  <2> QED BY <1>1, <1>2, <2>2 DEF TypeInv
<1>4. CASE OpenAndRead(t, m)
  <2>1. PICK reads \in {OneWireReads(0), OneWireReads(1), EepromReads, DeckReads} :
            Opens(t, m, reads)
    BY <1>4 DEF OpenAndRead
  <2>2. reads \in Seq(Reads) /\ reads # <<>> /\ reads[1] \in Reads
    BY ReadsFacts, QueueFacts
  <2>3. reads[1].addr \in Nat /\ reads[1].n \in Nat
    BY <2>2 DEF Reads
  <2>4. CallTypes'
    BY <2>1, <2>2, <2>3, ZerosFacts, BeginTypes DEF Opens, TypeInv, CallTypes
  <2> QED BY <1>1, <1>2, <2>4 DEF TypeInv
<1> QED BY <1>3, <1>4

LEMMA CloseTypes ==
    ASSUME TypeInv, NEW t \in Tasks, Close(t) \/ DropObject(t)
    PROVE  TypeInv'
  BY DEF Close, DropObject, TypeInv, CallTypes, CallOK, End, WireTypes, OtherTypes,
         callVars, wireVars, fwVars, boundVars

LEMMA CallTypesKept ==
    ASSUME TypeInv, NEW t \in Tasks, CallRead(t) \/ CallWrite(t)
    PROVE  TypeInv'
<1>1. CASE CallRead(t)
  <2>1. PICK m \in Mems, x \in Extents : Begin(t, "read", "read", m, x[1], x[2], Zeros(x[2]))
    BY <1>1 DEF CallRead
  <2>2. x[1] \in Nat /\ x[2] \in Nat
    BY ExtentAssumption
  <2>3. UNCHANGED <<todo, ownVars, wireVars, fwVars, connected, cancels>>
        /\ calls' = [calls EXCEPT ![t] = @ + 1]
    BY <1>1 DEF CallRead, Called
  <2>4. CallTypes'
    BY <2>1, <2>2, <2>3, ZerosFacts, BeginTypes DEF TypeInv, CallTypes
  <2> QED BY <2>3, <2>4 DEF TypeInv, WireTypes, OtherTypes, ownVars, wireVars, fwVars
<1>2. CASE CallWrite(t)
  <2>1. PICK m \in Mems, x \in Extents, cells \in Data :
            /\ x[2] = Len(cells) /\ Begin(t, "write", "write", m, x[1], x[2], cells)
            /\ before' = [before EXCEPT ![t] = content[m]]
    BY <1>2 DEF CallWrite
  <2>2. x[1] \in Nat /\ x[2] \in Nat /\ cells \in Seq(Cells) /\ cells \in Seq(Cells \union {0})
    BY ExtentAssumption, DataAssumption
  <2>3. UNCHANGED <<todo, ownVars, wireVars, content, connected, cancels>>
        /\ calls' = [calls EXCEPT ![t] = @ + 1]
    BY <1>2 DEF CallWrite, Called
  <2>4. CallTypes'
    BY <2>1, <2>2, <2>3, BeginTypes DEF TypeInv, CallTypes
  <2> QED BY <2>1, <2>3, <2>4 DEF TypeInv, WireTypes, OtherTypes, ownVars, wireVars
<1> QED BY <1>1, <1>2

LEMMA SentTypes ==
    ASSUME WireTypes, NEW r \in Requests, r.op = "write" => Len(r.data) = r.n, Sent(r),
           UNCHANGED <<readQ, writeQ, fwVars, connected>>
    PROVE  WireTypes'
<1>1. CASE connected
  <2>1. uplink' = Append(uplink, r)
    BY <1>1 DEF Sent
  <2> QED BY <1>1, <2>1, AppendFacts DEF WireTypes, fwVars
<1>2. CASE ~connected
  BY <1>2 DEF Sent, WireTypes, fwVars
<1> QED BY <1>1, <1>2

\* An answer is taken off one of the queues.
LEMMA TakenTypes ==
    ASSUME WireTypes, NEW m \in Mems, UNCHANGED <<uplink, fwVars, connected>>,
           \/ readQ[m] # <<>> /\ readQ' = [readQ EXCEPT ![m] = Tail(@)] /\ UNCHANGED writeQ
           \/ writeQ[m] # <<>> /\ writeQ' = [writeQ EXCEPT ![m] = Tail(@)] /\ UNCHANGED readQ
    PROVE  WireTypes'
<1>1. readQ' \in [Mems -> Seq(Answers)] /\ writeQ' \in [Mems -> Seq(Answers)]
  <2>1. ASSUME NEW q \in Seq(Answers), q # <<>> PROVE Tail(q) \in Seq(Answers)
    BY <2>1, QueueFacts
  <2> QED BY <2>1 DEF WireTypes
<1> QED BY <1>1 DEF WireTypes, fwVars

LEMMA CopiedFacts ==
    ASSUME CallTypes, NEW t \in Tasks, pc[t] # "idle", NEW cells \in Seq(Cells)
    PROVE  /\ Copied(t, cells) \in Seq(Cells \union {0}) /\ Len(Copied(t, cells)) = length[t]
           /\ \A k \in 1..length[t] : Copied(t, cells)[k] =
                 IF k - Start(t) \in 1..Len(cells) THEN cells[k - Start(t)] ELSE buf[t][k]
<1>1. length[t] \in Nat /\ Start(t) \in Nat /\ \A k \in 1..length[t] : buf[t][k] \in Cells \union {0}
  BY ToTransferFacts, QueueFacts DEF CallTypes, CallOK
<1>2. \A i \in 1..Len(cells) : cells[i] \in Cells
  BY QueueFacts
<1>3. \A k \in 1..length[t] : (IF k - Start(t) \in 1..Len(cells)
                             THEN cells[k - Start(t)] ELSE buf[t][k]) \in Cells \union {0}
  BY <1>1, <1>2
<1> QED BY <1>1, <1>3 DEF Copied

LEMMA ReadStepTypes ==
    ASSUME TypeInv, NEW t \in Tasks, ReadSend(t) \/ ReadDiscard(t) \/ ReadAnswered(t) \/ ReadDone(t)
    PROVE  TypeInv'
<1>1. CASE ReadSend(t)
  <2> DEFINE r == [op |-> "read", mem |-> mem[t], addr |-> cur[t], n |-> ToTransfer(t), data |-> <<>>]
  <2>1. r \in Requests /\ r.op = "read"
    BY ToTransferFacts, EmptyFacts DEF TypeInv, CallTypes, Requests
  <2>2. Sent(r) /\ UNCHANGED <<readQ, writeQ, fwVars, connected>>
    BY <1>1 DEF ReadSend
  <2> HIDE DEF r
  <2>3. WireTypes'
    BY <2>1, <2>2, SentTypes DEF TypeInv
  <2>4. CallTypes'
    BY <1>1 DEF ReadSend, TypeInv, CallTypes, CallOK, End
  <2> QED BY <1>1, <2>3, <2>4 DEF ReadSend, TypeInv, OtherTypes, ownVars, boundVars
<1>2. CASE ReadDiscard(t)
  <2>1. WireTypes'
    BY <1>2, TakenTypes DEF ReadDiscard, TypeInv, CallTypes
  <2> QED BY <1>2, <2>1 DEF ReadDiscard, TypeInv, CallTypes, CallOK, End, OtherTypes, callVars, ownVars, boundVars
<1>3. CASE ReadAnswered(t)
  <2>1. WireTypes'
    BY <1>3, TakenTypes DEF ReadAnswered, TypeInv, CallTypes
  <2>2. PICK answer \in Answers : answer = Head(readQ[mem[t]])
    BY <1>3, QueueFacts DEF ReadAnswered, TypeInv, CallTypes, WireTypes
  <2>3. \/ /\ Start(t) + Len(answer.data) <= length[t]
           /\ buf' = [buf EXCEPT ![t] = Copied(t, answer.data)]
           /\ cur' = [cur EXCEPT ![t] = Advanced(t)]
           /\ pc' = [pc EXCEPT ![t] = "read"]
           /\ UNCHANGED <<job, todo, mem, from, length, asked, result>>
        \/ Return(t, "panicked") \/ Return(t, "error")
    BY <1>3, <2>2 DEF ReadAnswered
  <2>4. pc[t] = "readWait" /\ UNCHANGED <<ownVars, boundVars>>
    BY <1>3 DEF ReadAnswered
  <2>5. CallTypes'
    <3>1. CASE Return(t, "panicked") \/ Return(t, "error")
      BY <3>1, ReturnTypes DEF TypeInv
    <3>2. CASE ~(Return(t, "panicked") \/ Return(t, "error"))
      <4>1. PICK b : b = Copied(t, answer.data)
        OBVIOUS
      <4>2. b \in Seq(Cells \union {0}) /\ Len(b) = length[t]
        BY <2>4, <4>1, CopiedFacts DEF Answers, TypeInv
      <4>3. PICK a : a = Advanced(t)
        OBVIOUS
      <4>4. a \in Nat /\ cur[t] <= a /\ a <= End(t)
        BY <4>3, ToTransferFacts DEF TypeInv, CallTypes
      <4>5. /\ buf' = [buf EXCEPT ![t] = b] /\ cur' = [cur EXCEPT ![t] = a]
            /\ pc' = [pc EXCEPT ![t] = "read"]
            /\ UNCHANGED <<job, todo, mem, from, length, asked, result>>
        BY <2>3, <3>2, <4>1, <4>3
      <4>6. CallOK(t)'
        BY <2>4, <4>2, <4>4, <4>5 DEF TypeInv, CallTypes, CallOK, End
      <4>7. ASSUME NEW s \in Tasks \ {t} PROVE CallOK(s)'
        <5>1. CallOK(s) /\ buf'[s] = buf[s] /\ cur'[s] = cur[s] /\ pc'[s] = pc[s]
          BY <4>5 DEF TypeInv, CallTypes
        <5> QED BY <4>5, <5>1 DEF CallOK, End
      <4> QED BY <4>2, <4>4, <4>5, <4>6, <4>7 DEF TypeInv, CallTypes
    <3> QED BY <3>1, <3>2
  <2> QED BY <2>1, <2>4, <2>5 DEF TypeInv, OtherTypes, ownVars, boundVars
<1>4. CASE ReadDone(t)
  <2>1. CallTypes'
    BY <1>4, ReturnTypes DEF ReadDone, TypeInv
  <2> QED BY <1>4, <2>1 DEF ReadDone, TypeInv, WireTypes, OtherTypes, wireVars, fwVars, ownVars, boundVars
<1> QED BY <1>1, <1>2, <1>3, <1>4

LEMMA OpenGoesOnTypes == ASSUME TypeInv, NEW t \in Tasks, OpenGoesOn(t) PROVE TypeInv'
<1>1. pc[t] = "read" /\ job[t] = "open" /\ UNCHANGED <<home, wireVars, fwVars, connected, boundVars>>
  BY DEF OpenGoesOn
<1>2. ASSUME Return(t, "error") \/ Return(t, "ok") PROVE CallTypes'
  BY <1>2, ReturnTypes DEF TypeInv
<1>3. ASSUME Len(todo[t]) > 1, Opens(t, mem[t], Tail(todo[t])) PROVE CallTypes'
  <2>1. todo[t] \in Seq(Reads) /\ todo[t] # <<>>
    BY <1>1 DEF TypeInv, CallTypes, CallOK
  <2>2. PICK reads \in Seq(Reads) : reads = Tail(todo[t])
    BY <2>1, QueueFacts
  <2>3. Len(reads) # 0
    BY <1>3, <2>1, <2>2, QueueFacts
  <2>4. reads # <<>> /\ reads[1] \in Reads
    BY <2>3, QueueFacts, EmptyFacts
  <2>5. reads[1].addr \in Nat /\ reads[1].n \in Nat
    BY <2>4 DEF Reads
  <2>6. CallTypes'
    BY <1>3, <2>2, <2>4, <2>5, ZerosFacts, BeginTypes DEF Opens, TypeInv, CallTypes
  <2> QED BY <2>6
<1>4. CallTypes'
  BY <1>2, <1>3 DEF OpenGoesOn
<1>5. object' = object \/ object' = [object EXCEPT ![t] = mem[t]]
  BY DEF OpenGoesOn
<1>6. object' \in [Tasks -> Mems \union {NoMem}]
  BY <1>5 DEF TypeInv, CallTypes, OtherTypes
<1> QED BY <1>1, <1>4, <1>6 DEF TypeInv, WireTypes, OtherTypes, wireVars, fwVars, boundVars

LEMMA WriteStepTypes ==
    ASSUME TypeInv, NEW t \in Tasks, WriteSend(t) \/ WriteDiscard(t) \/ WriteAnswered(t) \/ WriteDone(t)
    PROVE  TypeInv'
<1>1. CASE WriteSend(t)
  <2> DEFINE part == SubSeq(buf[t], Start(t) + 1, Start(t) + ToTransfer(t))
             r == [op |-> "write", mem |-> mem[t], addr |-> cur[t], n |-> ToTransfer(t), data |-> part]
  <2>1. part \in Seq(Cells) /\ Len(part) = ToTransfer(t)
    <3>1. buf[t] \in Seq(Cells) /\ Len(buf[t]) = length[t]
      BY <1>1 DEF WriteSend, TypeInv, CallTypes, CallOK
    <3> QED BY <3>1, ToTransferFacts, PartFacts DEF TypeInv
  <2> HIDE DEF part
  <2>2. r \in Requests /\ Len(r.data) = r.n
    BY <2>1, ToTransferFacts DEF TypeInv, CallTypes, Requests
  <2>3. Sent(r) /\ UNCHANGED <<readQ, writeQ, fwVars, connected>>
    BY <1>1 DEF WriteSend, part
  <2> HIDE DEF r
  <2>4. WireTypes'
    BY <2>2, <2>3, SentTypes DEF TypeInv
  <2>5. CallTypes'
    <3>1. PICK a : a = Advanced(t)
      OBVIOUS
    <3>2. a \in Nat /\ cur[t] <= a /\ a <= End(t)
      BY <3>1, ToTransferFacts DEF TypeInv, CallTypes
    <3>3. /\ pc[t] = "write" /\ pc' = [pc EXCEPT ![t] = "writeWait"]
          /\ cur' = [cur EXCEPT ![t] = a] /\ asked' = [asked EXCEPT ![t] = cur[t]]
          /\ UNCHANGED <<job, todo, mem, from, length, buf, result>>
      BY <1>1, <3>1 DEF WriteSend
    <3>4. CallOK(t)'
      BY <3>2, <3>3 DEF TypeInv, CallTypes, CallOK, End
    <3>5. ASSUME NEW s \in Tasks \ {t} PROVE CallOK(s)'
      <4>1. CallOK(s) /\ pc'[s] = pc[s] /\ cur'[s] = cur[s] /\ asked'[s] = asked[s]
        BY <3>3 DEF TypeInv, CallTypes
      <4> QED BY <3>3, <4>1 DEF CallOK, End
    <3> QED BY <3>2, <3>3, <3>4, <3>5 DEF TypeInv, CallTypes
  <2> QED BY <1>1, <2>4, <2>5 DEF WriteSend, TypeInv, OtherTypes, ownVars, boundVars
<1>2. CASE WriteDiscard(t)
  <2>1. WireTypes'
    BY <1>2, TakenTypes DEF WriteDiscard, TypeInv, CallTypes
  <2> QED BY <1>2, <2>1 DEF WriteDiscard, TypeInv, CallTypes, CallOK, End, OtherTypes, callVars, ownVars, boundVars
<1>3. CASE WriteAnswered(t)
  <2>1. WireTypes'
    BY <1>3, TakenTypes DEF WriteAnswered, TypeInv, CallTypes
  <2>2. CallTypes'
    <3>1. CASE Return(t, "error")
      BY <3>1, ReturnTypes DEF TypeInv
    <3>2. CASE ~Return(t, "error")
      <4>1. /\ pc[t] = "writeWait" /\ pc' = [pc EXCEPT ![t] = "write"]
            /\ UNCHANGED <<job, todo, mem, from, length, cur, asked, buf, result>>
        BY <1>3, <3>2 DEF WriteAnswered
      <4> QED BY <4>1 DEF TypeInv, CallTypes, CallOK, End
    <3> QED BY <3>1, <3>2
  <2> QED BY <1>3, <2>1, <2>2 DEF WriteAnswered, TypeInv, OtherTypes, ownVars, boundVars
<1>4. CASE WriteDone(t)
  <2>1. CallTypes'
    BY <1>4, ReturnTypes DEF WriteDone, TypeInv
  <2> QED BY <1>4, <2>1 DEF WriteDone, TypeInv, WireTypes, OtherTypes, wireVars, fwVars, ownVars, boundVars
<1> QED BY <1>1, <1>2, <1>3, <1>4

LEMMA EndTypes ==
    ASSUME TypeInv, NEW t \in Tasks, SendError(t) \/ WaitError(t) \/ Cancel(t)
    PROVE  TypeInv'
<1>1. CallTypes'
  BY ReturnTypes DEF SendError, WaitError, Cancel, TypeInv
<1>2. UNCHANGED <<ownVars, wireVars, fwVars, connected, calls>> /\ cancels' \in Nat
  BY DEF SendError, WaitError, Cancel, TypeInv, OtherTypes, boundVars
<1> QED BY <1>1, <1>2 DEF TypeInv, WireTypes, OtherTypes, wireVars, fwVars, ownVars

\* What the Crazyflie writes are cells.
LEMMA WrittenTypes ==
    ASSUME WireTypes, NEW r \in Requests, r.op = "write", Len(r.data) = r.n,
           NEW ok \in BOOLEAN, FwWrite(r, ok)
    PROVE  content' \in [Mems -> [Address -> Cells]]
<1>1. r.mem \in Mems /\ r.addr \in Nat /\ r.n \in Nat /\ \A i \in 1..r.n : r.data[i] \in Cells
  BY QueueFacts DEF Requests
<1>2. Address \subseteq Int
  BY DEF Address
<1>3. \A a \in Address : a \in r.addr..(r.addr + r.n - 1) => r.data[a - r.addr + 1] \in Cells
  <2> SUFFICES ASSUME NEW a \in Address, a \in r.addr..(r.addr + r.n - 1)
               PROVE  a - r.addr + 1 \in 1..r.n
    BY <1>1
  <2> QED BY <1>1, <1>2
<1>4. [a \in Address |-> IF ok /\ a \in r.addr..(r.addr + r.n - 1)
                        THEN r.data[a - r.addr + 1] ELSE content[r.mem][a]] \in [Address -> Cells]
  BY <1>1, <1>3 DEF WireTypes
<1>5. content' = [content EXCEPT ![r.mem] = [a \in Address |->
            IF ok /\ a \in r.addr..(r.addr + r.n - 1) THEN r.data[a - r.addr + 1] ELSE content[r.mem][a]]]
  BY <1>1 DEF FwWrite, WireTypes
<1> QED BY <1>1, <1>4, <1>5 DEF WireTypes

LEMMA FwTypes == ASSUME TypeInv, FwRequest PROVE TypeInv'
<1>1. /\ connected /\ uplink # <<>> /\ uplink' = Tail(uplink)
      /\ UNCHANGED <<ownVars, callVars, before, connected, boundVars>>
  BY DEF FwRequest
<1>2. PICK r \in Requests : r = Head(uplink)
  BY <1>1, QueueFacts DEF TypeInv, WireTypes
<1>3. r.op = "write" => Len(r.data) = r.n
  BY <1>1, <1>2, QueueFacts DEF TypeInv, WireTypes
<1>4. PICK ok \in BOOLEAN : (ok => Inside(r)) /\ (FwRead(r, ok) \/ FwWrite(r, ok))
  BY <1>2 DEF FwRequest
<1>5. uplink' \in Seq(Requests)
      /\ \A i \in 1..Len(uplink') : uplink'[i].op = "write" => Len(uplink'[i].data) = uplink'[i].n
  BY <1>1, QueueFacts DEF TypeInv, WireTypes
<1>6. r.mem \in Mems /\ r.addr \in Nat /\ r.n \in Nat
  BY DEF Requests
<1>7. /\ readQ' \in [Mems -> Seq(Answers)] /\ writeQ' \in [Mems -> Seq(Answers)]
      /\ content' \in [Mems -> [Address -> Cells]]
  <2>1. ASSUME NEW q \in Seq(Answers), NEW x \in Answers PROVE Append(q, x) \in Seq(Answers)
    BY <2>1, AppendFacts
  <2>2. CASE FwRead(r, ok)
    <3> DEFINE cells == IF ok THEN [k \in 1..r.n |-> content[r.mem][r.addr + k - 1]] ELSE <<>>
               x == [addr |-> r.addr, ok |-> ok, data |-> cells]
    <3>1. cells \in Seq(Cells)
      <4>1. CASE ok
        <5>1. \A k \in 1..r.n : r.addr + k - 1 \in Address
          BY <1>4, <1>6, <4>1, SizeAssumption DEF Inside, Address
        <5>2. \A k \in 1..r.n : content[r.mem][r.addr + k - 1] \in Cells
          BY <1>6, <5>1 DEF TypeInv, WireTypes
        <5> QED BY <1>6, <4>1, <5>2
      <4>2. CASE ~ok
        BY <4>2, EmptyFacts
      <4> QED BY <4>1, <4>2
    <3>2. readQ' = [readQ EXCEPT ![r.mem] = Append(@, x)] /\ UNCHANGED <<writeQ, content>>
      BY <2>2 DEF FwRead
    <3> HIDE DEF cells
    <3>3. x \in Answers
      BY <1>6, <3>1 DEF Answers
    <3> HIDE DEF x
    <3> QED BY <1>6, <2>1, <3>2, <3>3 DEF TypeInv, WireTypes
  <2>3. CASE FwWrite(r, ok)
    <3> DEFINE x == [addr |-> r.addr, ok |-> ok, data |-> <<>>]
    <3>1. x \in Answers
      BY <1>6, EmptyFacts DEF Answers
    <3>2. writeQ' = [writeQ EXCEPT ![r.mem] = Append(@, x)] /\ UNCHANGED readQ /\ r.op = "write"
      BY <2>3 DEF FwWrite
    <3> HIDE DEF x
    <3>3. content' \in [Mems -> [Address -> Cells]]
      BY <1>3, <2>3, <3>2, WrittenTypes DEF TypeInv
    <3> QED BY <1>6, <2>1, <3>1, <3>2, <3>3 DEF TypeInv, WireTypes
  <2> QED BY <1>4, <2>2, <2>3
<1>8. WireTypes'
  BY <1>1, <1>5, <1>7 DEF TypeInv, WireTypes
<1> QED BY <1>1, <1>8 DEF TypeInv, CallTypes, CallOK, End, OtherTypes, callVars, ownVars, boundVars

LEMMA EndsTypes == ASSUME TypeInv, ConnectionEnds PROVE TypeInv'
<1>1. PICK m \in Mems : \E i \in 0..Len(readQ[m]), j \in 0..Len(writeQ[m]) :
        /\ readQ' = [readQ EXCEPT ![m] = SubSeq(@, 1, i)]
        /\ writeQ' = [writeQ EXCEPT ![m] = SubSeq(@, 1, j)]
  BY DEF ConnectionEnds
<1>2. ASSUME NEW q \in Seq(Answers), NEW i \in 0..Len(q) PROVE SubSeq(q, 1, i) \in Seq(Answers)
  BY <1>2, PrefixFacts
<1>3. readQ' \in [Mems -> Seq(Answers)] /\ writeQ' \in [Mems -> Seq(Answers)]
  BY <1>1, <1>2 DEF TypeInv, WireTypes
<1>4. uplink' = <<>> /\ connected' = FALSE /\ UNCHANGED <<ownVars, callVars, fwVars, boundVars>>
  BY DEF ConnectionEnds
<1>5. WireTypes'
  <2>1. uplink' \in Seq(Requests) /\ Len(uplink') = 0
    BY <1>4, EmptyFacts
  <2>2. \A i \in 1..Len(uplink') : FALSE
    BY <2>1
  <2>3. UNCHANGED <<content, before>>
    BY <1>4 DEF fwVars
  <2> QED BY <1>3, <1>4, <2>1, <2>2, <2>3 DEF TypeInv, WireTypes
<1> QED BY <1>4, <1>5 DEF TypeInv, CallTypes, CallOK, End, OtherTypes, callVars, ownVars, boundVars

LEMMA NextTypes == TypeInv /\ [Next]_vars => TypeInv'
<1> SUFFICES ASSUME TypeInv, [Next]_vars PROVE TypeInv'
  OBVIOUS
<1>1. CASE UNCHANGED vars
  BY <1>1 DEF vars, ownVars, callVars, wireVars, fwVars, boundVars,
              TypeInv, CallTypes, CallOK, End, WireTypes, OtherTypes
<1>2. ASSUME NEW t \in Tasks, Step(t) PROVE TypeInv'
  BY <1>2, ReadStepTypes, OpenGoesOnTypes, WriteStepTypes, EndTypes DEF Step
<1> QED BY <1>1, <1>2, OpenTypes, CloseTypes, CallTypesKept, EndTypes, FwTypes, EndsTypes DEF Next

\* The state has its types in every behaviour: in particular the address of a
\* transfer never leaves its range, whatever late answers a call takes.
THEOREM TypeCorrect == Spec => []TypeOK
<1> QED BY InitTypes, NextTypes, TypeInvType, PTL DEF Spec

-----------------------------------------------------------------------------
(* One call at a time *)

Busy(t) == pc[t] # "idle"

\* With one call at a time on an object, a memory is used by one call at most,
\* and is open unless that call opens it.
AloneInv ==
    /\ \A s, t \in Tasks : Busy(s) /\ Busy(t) /\ mem[s] = mem[t] => s = t
    /\ \A t \in Tasks : Busy(t) /\ job[t] # "open" => IsOpen(mem[t])
    /\ \A t \in Tasks : Busy(t) /\ job[t] = "open" => object[t] = NoMem

LEMMA UsersEmpty ==
    ASSUME NEW m, MaxShared <= 1, Cardinality(Users(m)) < MaxShared
    PROVE  \A t \in Tasks : Busy(t) => mem[t] # m
<1> DEFINE U == Users(m)
<1>1. IsFiniteSet(U)
  BY TaskAssumption, FS_Subset DEF Users
<1>2. Cardinality(U) \in Nat /\ (Cardinality(U) = 0 <=> U = {})
  BY <1>1, FS_CardinalityType, FS_EmptySet
<1>3. Cardinality(U) < MaxShared
  OBVIOUS
<1> HIDE DEF U
<1>4. U = {}
  BY <1>2, <1>3, BoundAssumption
<1> QED BY <1>4 DEF U, Users, Busy

\* No call begins, and no object goes that a call uses.
LEMMA AloneKept ==
    ASSUME AloneInv,
           \A t \in Tasks : Busy(t)' => Busy(t) /\ mem'[t] = mem[t] /\ job'[t] = job[t],
           \A t \in Tasks : Busy(t)' /\ job[t] # "open" /\ IsOpen(mem[t]) => IsOpen(mem[t])',
           \A t \in Tasks : Busy(t)' /\ job[t] = "open" => object'[t] = object[t]
    PROVE  AloneInv'
<1>1. ASSUME NEW t \in Tasks, Busy(t)', job'[t] # "open" PROVE IsOpen(mem[t])'
  BY <1>1 DEF AloneInv
<1> QED BY <1>1 DEF AloneInv

\* A call begins on a memory nobody uses.
LEMMA AloneBegins ==
    ASSUME AloneInv, NEW t \in Tasks, NEW m \in Mems,
           \A s \in Tasks : Busy(s) => mem[s] # m,
           mem'[t] = m, IF job'[t] = "open" THEN object[t] = NoMem ELSE IsOpen(m), UNCHANGED object,
           \A s \in Tasks \ {t} : pc'[s] = pc[s] /\ mem'[s] = mem[s] /\ job'[s] = job[s]
    PROVE  AloneInv'
<1>1. \A n : IsOpen(n)' <=> IsOpen(n)
  BY DEF IsOpen
<1>2. \A s \in Tasks \ {t} : Busy(s)' <=> Busy(s)
  BY DEF Busy
<1>3. ASSUME NEW r \in Tasks, NEW s \in Tasks, Busy(r)', Busy(s)', mem'[r] = mem'[s] PROVE r = s
  BY <1>2, <1>3 DEF AloneInv
<1>4. ASSUME NEW s \in Tasks, Busy(s)', job'[s] # "open" PROVE IsOpen(mem[s])'
  <2>1. IsOpen(mem'[s])
    BY <1>2, <1>4 DEF AloneInv
  <2> QED BY <2>1 DEF IsOpen
<1>5. ASSUME NEW s \in Tasks, Busy(s)', job'[s] = "open" PROVE object'[s] = NoMem
  BY <1>2, <1>5 DEF AloneInv
<1> QED BY <1>3, <1>4, <1>5 DEF AloneInv

\* Opened objects stay, unless they are closed with no call under way.
LEMMA NextAlone ==
    ASSUME MaxShared <= 1, TypeInv, OwnInv, AloneInv, [Next]_vars
    PROVE  AloneInv'
<1> USE DEF ownVars, callVars
<1>1. ASSUME NEW t \in Tasks, NEW m \in Mems, OpenAtOnce(t, m) \/ OpenWrongType(t, m) \/ OpenNone(t, m)
      PROVE  AloneInv'
  <2>1. UNCHANGED <<pc, mem, job>> /\ \A s \in Tasks, n \in Mems : object[s] = n => object'[s] = n
    BY <1>1, MemAssumption DEF OpenAtOnce, OpenWrongType, OpenNone, TypeInv, OtherTypes
  <2>2. \A s \in Tasks : Busy(s)' => object'[s] = object[s]
    BY <1>1 DEF OpenAtOnce, OpenWrongType, OpenNone, Called, Busy, TypeInv, OtherTypes
  <2> QED BY <2>1, <2>2, AloneKept DEF Busy, IsOpen, TypeInv, CallTypes
<1>2. ASSUME NEW t \in Tasks, NEW m \in Mems, OpenAndRead(t, m) PROVE AloneInv'
  <2>1. \A s \in Tasks : ~Holds(s, m)
    BY <1>2 DEF OpenAndRead, OwnInv
  <2>2. \A s \in Tasks : Busy(s) => mem[s] # m
    BY <2>1 DEF AloneInv, IsOpen, Holds, Busy
  <2>3. /\ mem' = [mem EXCEPT ![t] = m] /\ job' = [job EXCEPT ![t] = "open"] /\ UNCHANGED object
        /\ pc' = [pc EXCEPT ![t] = "read"] /\ object[t] = NoMem
    BY <1>2 DEF OpenAndRead, Opens, Begin
  <2>4. mem'[t] = m /\ job'[t] = "open"
        /\ \A s \in Tasks \ {t} : pc'[s] = pc[s] /\ mem'[s] = mem[s] /\ job'[s] = job[s]
    BY <2>3 DEF TypeInv, CallTypes
  <2> QED BY <2>2, <2>3, <2>4, AloneBegins
<1>3. ASSUME NEW t \in Tasks, CallRead(t) \/ CallWrite(t) PROVE AloneInv'
  <2>1. PICK m \in Mems, j \in {"read", "write"} :
            /\ IsOpen(m) /\ Cardinality(Users(m)) < MaxShared
            /\ mem' = [mem EXCEPT ![t] = m] /\ job' = [job EXCEPT ![t] = j]
            /\ pc' = [pc EXCEPT ![t] = j] /\ UNCHANGED object
    BY <1>3 DEF CallRead, CallWrite, Begin
  <2>2. \A s \in Tasks : Busy(s) => mem[s] # m
    BY <2>1, UsersEmpty
  <2>3. mem'[t] = m /\ job'[t] # "open" /\ \A s \in Tasks \ {t} : pc'[s] = pc[s] /\ mem'[s] = mem[s] /\ job'[s] = job[s]
    BY <2>1 DEF TypeInv, CallTypes
  <2> QED BY <2>1, <2>2, <2>3, AloneBegins
<1>4. ASSUME NEW t \in Tasks, Close(t) \/ DropObject(t) PROVE AloneInv'
  <2>1. /\ UNCHANGED <<pc, mem, job>> /\ object' = [object EXCEPT ![t] = NoMem]
        /\ Users(object[t]) = {}
    BY <1>4 DEF Close, DropObject
  <2>2. \A s \in Tasks : Busy(s) => mem[s] # object[t]
    BY <2>1 DEF Users, Busy
  <2>3. ASSUME NEW s \in Tasks, Busy(s), IsOpen(mem[s]) PROVE IsOpen(mem[s])'
    <3>1. PICK r \in Tasks : object[r] = mem[s]
      BY <2>3 DEF IsOpen
    <3>2. r # t /\ object'[r] = mem'[s]
      BY <2>1, <2>2, <2>3, <3>1 DEF TypeInv, OtherTypes
    <3> QED BY <3>2 DEF IsOpen
  <2>4. \A s \in Tasks : Busy(s)' => object'[s] = object[s]
    BY <1>4, <2>1 DEF Close, DropObject, Busy, TypeInv, OtherTypes
  <2> QED BY <2>1, <2>3, <2>4, AloneKept DEF Busy
<1>5. ASSUME NEW t \in Tasks, OpenGoesOn(t) PROVE AloneInv'
  <2>1. pc[t] = "read" /\ job[t] = "open"
    BY <1>5 DEF OpenGoesOn
  <2>2. \/ pc' = [pc EXCEPT ![t] = "idle"] /\ UNCHANGED <<job, mem, object>>
        \/ /\ pc' = [pc EXCEPT ![t] = "read"] /\ job' = [job EXCEPT ![t] = "open"]
           /\ mem' = [mem EXCEPT ![t] = mem[t]] /\ UNCHANGED object
        \/ /\ pc' = [pc EXCEPT ![t] = "idle"] /\ UNCHANGED <<job, mem>>
           /\ object' = [object EXCEPT ![t] = mem[t]]
    BY <1>5 DEF OpenGoesOn, Return, Opens, Begin
  <2>3. \A s \in Tasks : Busy(s)' => Busy(s) /\ mem'[s] = mem[s] /\ job'[s] = job[s]
    BY <2>1, <2>2 DEF Busy, TypeInv, CallTypes
  <2>4. ASSUME NEW s \in Tasks, IsOpen(mem[s]), Busy(s)', job[s] # "open" PROVE IsOpen(mem[s])'
    <3>1. PICK r \in Tasks : object[r] = mem[s]
      BY <2>4 DEF IsOpen
    <3>2. mem'[s] = mem[s] /\ mem[s] \in Mems
      BY <2>3, <2>4 DEF TypeInv, CallTypes
    <3>3. r # t
      BY <2>1, <3>1, <3>2, MemAssumption DEF AloneInv, Busy
    <3> QED BY <2>2, <3>1, <3>2, <3>3 DEF IsOpen, TypeInv, OtherTypes
  <2>5. \A s \in Tasks : Busy(s)' => object'[s] = object[s]
    BY <2>2 DEF Busy, TypeInv, CallTypes, OtherTypes
  <2> QED BY <2>3, <2>4, <2>5, AloneKept
<1>6. ASSUME UNCHANGED object,
             \A t \in Tasks : Busy(t)' => Busy(t) /\ mem'[t] = mem[t] /\ job'[t] = job[t]
      PROVE  AloneInv'
  <2>1. \A t \in Tasks : Busy(t)' /\ IsOpen(mem[t]) => IsOpen(mem[t])'
    BY <1>6 DEF IsOpen
  <2> QED BY <1>6, <2>1, AloneKept
<1>7. ASSUME NEW t \in Tasks, Step(t) \/ Cancel(t), ~OpenGoesOn(t) PROVE AloneInv'
  <2>1. UNCHANGED <<object, job, mem>> /\ Busy(t)
    BY <1>7 DEF Step, ReadSend, ReadDiscard, ReadAnswered, ReadDone, WriteSend, WriteDiscard,
                WriteAnswered, WriteDone, SendError, WaitError, Cancel, Return, Busy
  <2>2. \A s \in Tasks \ {t} : pc'[s] = pc[s]
    BY <1>7 DEF Step, ReadSend, ReadDiscard, ReadAnswered, ReadDone, WriteSend, WriteDiscard,
                WriteAnswered, WriteDone, SendError, WaitError, Cancel, Return, TypeInv, CallTypes
  <2> QED BY <1>6, <2>1, <2>2 DEF Busy
<1>8. CASE FwRequest \/ ConnectionEnds \/ UNCHANGED vars
  <2>1. UNCHANGED <<object, pc, job, mem>>
    BY <1>8 DEF FwRequest, ConnectionEnds, vars
  <2> QED BY <1>6, <2>1 DEF Busy
<1>9. ASSUME NEW t \in Tasks, Step(t) \/ Cancel(t) PROVE AloneInv'
  BY <1>5, <1>7, <1>9
<1> QED BY <1>1, <1>2, <1>3, <1>4, <1>8, <1>9 DEF Next

-----------------------------------------------------------------------------
(* What is on its way *)

\* The call waits for the answer to this request, and asked what it says.
Asks(t, r) ==
    /\ mem[t] = r.mem /\ asked[t] = r.addr
    /\ \/ r.op = "read" /\ pc[t] = "readWait" /\ r.n = ToTransfer(t)
       \/ /\ r.op = "write" /\ pc[t] = "writeWait" /\ r.addr + r.n = cur[t]
          /\ \A k \in 1..r.n : r.data[k] = buf[t][r.addr - from[t] + k]

\* The call waits for this answer, which says what the memory still holds.
ReadDue(t, m, x) ==
    /\ mem[t] = m /\ pc[t] = "readWait" /\ asked[t] = x.addr
    /\ x.ok => /\ Len(x.data) = ToTransfer(t)
               /\ \A k \in 1..ToTransfer(t) : x.data[k] = content[m][cur[t] + k - 1]

WriteDue(t, m, x) ==
    /\ mem[t] = m /\ pc[t] = "writeWait" /\ asked[t] = x.addr
    /\ x.ok => \A a \in Address : a \in asked[t]..(cur[t] - 1)
                                     => content[m][a] = buf[t][a - from[t] + 1]

\* One request or answer for a memory, for the call that waits.
RequestInv ==
    \A i \in 1..Len(uplink) :
        /\ \A j \in 1..Len(uplink) : uplink[i].mem = uplink[j].mem => i = j
        /\ readQ[uplink[i].mem] = <<>> /\ writeQ[uplink[i].mem] = <<>>
        /\ \E t \in Tasks : Asks(t, uplink[i])

AnswerInv ==
    \A m \in Mems :
        /\ readQ[m] # <<>> => /\ Len(readQ[m]) = 1 /\ writeQ[m] = <<>>
                              /\ \E t \in Tasks : ReadDue(t, m, readQ[m][1])
        /\ writeQ[m] # <<>> => /\ Len(writeQ[m]) = 1 /\ readQ[m] = <<>>
                               /\ \E t \in Tasks : WriteDue(t, m, writeQ[m][1])

ReadOK(t) ==
    pc[t] \in {"read", "readWait"} =>
        \A k \in 1..(cur[t] - from[t]) : buf[t][k] = content[mem[t]][from[t] + k - 1]

WriteOK(t) ==
    pc[t] \in {"write", "writeWait"} =>
        \A a \in Address :
            /\ a \in Acknowledged(t) => content[mem[t]][a] = buf[t][a - from[t] + 1]
            /\ a \notin Reached(t) => content[mem[t]][a] = before[t][a]

LineInv == RequestInv /\ AnswerInv /\ \A t \in Tasks : ReadOK(t) /\ WriteOK(t)

LEMMA InitLine == Init => AloneInv /\ LineInv
<1> SUFFICES ASSUME Init PROVE AloneInv /\ LineInv
  OBVIOUS
<1>1. Len(uplink) = 0
  BY EmptyFacts DEF Init
<1>2. RequestInv
  BY <1>1 DEF RequestInv
<1>3. \A t \in Tasks : pc[t] = "idle"
  BY DEF Init
<1> QED BY <1>2, <1>3 DEF Init, AloneInv, Busy, LineInv, AnswerInv, ReadOK, WriteOK

\* Nothing is on its way for the memory.
Quiet(m) ==
    /\ \A i \in 1..Len(uplink) : uplink[i].mem # m
    /\ readQ[m] = <<>> /\ writeQ[m] = <<>>

LEMMA UnusedQuiet ==
    ASSUME LineInv, NEW m \in Mems, \A t \in Tasks : Busy(t) => mem[t] # m
    PROVE  Quiet(m)
  BY DEF LineInv, RequestInv, AnswerInv, Asks, ReadDue, WriteDue, Busy, Quiet

\* Nothing, while its only call does not wait.
LEMMA ActiveQuiet ==
    ASSUME TypeInv, AloneInv, LineInv, NEW t \in Tasks, pc[t] \in {"read", "write"}
    PROVE  Quiet(mem[t])
<1>1. ASSUME NEW s \in Tasks, pc[s] \in {"readWait", "writeWait"} PROVE mem[s] # mem[t]
  BY <1>1 DEF AloneInv, Busy
<1> QED BY <1>1 DEF LineInv, RequestInv, AnswerInv, Asks, ReadDue, WriteDue, Quiet, TypeInv, CallTypes

\* What a call is, its progress included, to the others.
Same(s) ==
    /\ pc'[s] = pc[s] /\ mem'[s] = mem[s] /\ from'[s] = from[s] /\ length'[s] = length[s]
    /\ cur'[s] = cur[s] /\ asked'[s] = asked[s] /\ buf'[s] = buf[s] /\ before'[s] = before[s]

LEMMA SameFacts ==
    ASSUME NEW s \in Tasks, Same(s), UNCHANGED content
    PROVE  /\ \A r : Asks(s, r) => Asks(s, r)'
           /\ \A m, x : ReadDue(s, m, x) => ReadDue(s, m, x)'
           /\ \A m, x : WriteDue(s, m, x) => WriteDue(s, m, x)'
           /\ ReadOK(s) => ReadOK(s)'
           /\ WriteOK(s) => WriteOK(s)'
  BY DEF Same, Asks, ReadDue, WriteDue, ToTransfer, End, ReadOK, WriteOK, Acknowledged, Reached

\* One call begins, goes on or ends with nothing on its way.
LEMMA QuietLine ==
    ASSUME TypeInv, LineInv, NEW t \in Tasks, UNCHANGED <<wireVars, content>>,
           pc[t] = "idle" \/ Quiet(mem[t]),
           \A s \in Tasks \ {t} : Same(s),
           ReadOK(t)' /\ WriteOK(t)'
    PROVE  LineInv'
<1>1. RequestInv'
  <2> SUFFICES ASSUME NEW i \in 1..Len(uplink) PROVE \E s \in Tasks : Asks(s, uplink[i])'
    BY DEF RequestInv, LineInv, wireVars
  <2>1. PICK s \in Tasks : Asks(s, uplink[i])
    BY DEF LineInv, RequestInv
  <2>2. s # t
    BY <2>1 DEF Quiet, Asks
  <2>3. Asks(s, uplink[i])'
    BY <2>1, <2>2, SameFacts DEF Same, Asks, ToTransfer, End, wireVars
  <2> QED BY <2>3
<1>2. AnswerInv'
  <2> SUFFICES ASSUME NEW m \in Mems
               PROVE  /\ readQ[m] # <<>> => \E s \in Tasks : ReadDue(s, m, readQ[m][1])'
                      /\ writeQ[m] # <<>> => \E s \in Tasks : WriteDue(s, m, writeQ[m][1])'
    BY DEF AnswerInv, LineInv, wireVars
  <2>1. ASSUME readQ[m] # <<>> PROVE \E s \in Tasks : ReadDue(s, m, readQ[m][1])'
    <3>1. PICK s \in Tasks : ReadDue(s, m, readQ[m][1])
      BY <2>1 DEF LineInv, AnswerInv
    <3>2. s # t
      BY <2>1, <3>1 DEF Quiet, ReadDue
    <3> QED BY <3>1, <3>2 DEF Same, ReadDue, ToTransfer, End, wireVars
  <2>2. ASSUME writeQ[m] # <<>> PROVE \E s \in Tasks : WriteDue(s, m, writeQ[m][1])'
    <3>1. PICK s \in Tasks : WriteDue(s, m, writeQ[m][1])
      BY <2>2 DEF LineInv, AnswerInv
    <3>2. s # t
      BY <2>2, <3>1 DEF Quiet, WriteDue
    <3> QED BY <3>1, <3>2 DEF Same, WriteDue, wireVars
  <2> QED BY <2>1, <2>2
<1>3. ASSUME NEW s \in Tasks PROVE ReadOK(s)' /\ WriteOK(s)'
  <2>1. CASE s = t
    BY <2>1
  <2>2. CASE s # t
    <3>1. Same(s) /\ ReadOK(s) /\ WriteOK(s) /\ UNCHANGED content
      BY <2>2 DEF LineInv
    <3> QED BY <3>1, SameFacts
  <2> QED BY <2>1, <2>2
<1> QED BY <1>1, <1>2, <1>3 DEF LineInv

\* A call sends the next request, and nothing is on its way for its memory.
LEMMA SentLine ==
    ASSUME TypeInv, LineInv, NEW t \in Tasks, Quiet(mem[t]), pc[t] \in {"read", "write"},
           NEW r \in Requests, Sent(r), r.mem = mem[t], Asks(t, r)',
           UNCHANGED <<readQ, writeQ, content>>,
           \A s \in Tasks \ {t} : Same(s),
           ReadOK(t)' /\ WriteOK(t)'
    PROVE  LineInv'
<1>1. uplink \in Seq(Requests) /\ (uplink' = uplink \/ uplink' = Append(uplink, r))
  BY DEF Sent, TypeInv, WireTypes
<1>2. \A i \in 1..Len(uplink') : (i \in 1..Len(uplink) /\ uplink'[i] = uplink[i])
                                 \/ (i = Len(uplink) + 1 /\ uplink'[i] = r)
  BY <1>1, AppendFacts
<1>3. RequestInv'
  <2>1. ASSUME NEW i \in 1..Len(uplink) PROVE uplink[i].mem # r.mem
    BY <2>1 DEF Quiet
  <2>2. ASSUME NEW i \in 1..Len(uplink') PROVE /\ \E s \in Tasks : Asks(s, uplink[i])'
                                               /\ readQ[uplink[i].mem]' = <<>>
                                               /\ writeQ[uplink[i].mem]' = <<>>
    <3>1. PICK x : x = uplink'[i]
      OBVIOUS
    <3>2. /\ \E s \in Tasks : Asks(s, x)'
          /\ readQ[x.mem] = <<>> /\ writeQ[x.mem] = <<>>
      <4>1. CASE i \in 1..Len(uplink) /\ uplink'[i] = uplink[i]
        <5>1. x = uplink[i] /\ \E s \in Tasks : Asks(s, uplink[i])
          BY <3>1, <4>1 DEF LineInv, RequestInv
        <5>2. PICK s \in Tasks : Asks(s, x)
          BY <5>1
        <5>3. s # t
          BY <5>2 DEF Asks
        <5>4. Asks(s, x)'
          BY <5>2, <5>3, SameFacts
        <5> QED BY <4>1, <5>1, <5>4 DEF LineInv, RequestInv
      <4>2. CASE i = Len(uplink) + 1 /\ uplink'[i] = r
        <5>1. x = r
          BY <3>1, <4>2
        <5> QED BY <5>1 DEF Quiet
      <4> QED BY <1>2, <2>2, <4>1, <4>2
    <3> QED BY <3>1, <3>2
  <2>3. ASSUME NEW i \in 1..Len(uplink'), NEW j \in 1..Len(uplink'), uplink'[i].mem = uplink'[j].mem
        PROVE  i = j
    BY <1>2, <2>1, <2>3 DEF LineInv, RequestInv
  <2> QED BY <2>2, <2>3 DEF RequestInv
<1>4. AnswerInv'
  <2> SUFFICES ASSUME NEW m \in Mems
               PROVE  /\ readQ[m] # <<>> => \E s \in Tasks : ReadDue(s, m, readQ[m][1])'
                      /\ writeQ[m] # <<>> => \E s \in Tasks : WriteDue(s, m, writeQ[m][1])'
    BY DEF AnswerInv, LineInv
  <2>1. ASSUME readQ[m] # <<>> PROVE \E s \in Tasks : ReadDue(s, m, readQ[m][1])'
    <3>1. PICK s \in Tasks : ReadDue(s, m, readQ[m][1])
      BY <2>1 DEF LineInv, AnswerInv
    <3>2. s # t
      BY <3>1 DEF ReadDue
    <3> QED BY <3>1, <3>2 DEF Same, ReadDue, ToTransfer, End
  <2>2. ASSUME writeQ[m] # <<>> PROVE \E s \in Tasks : WriteDue(s, m, writeQ[m][1])'
    <3>1. PICK s \in Tasks : WriteDue(s, m, writeQ[m][1])
      BY <2>2 DEF LineInv, AnswerInv
    <3>2. s # t
      BY <3>1 DEF WriteDue
    <3> QED BY <3>1, <3>2 DEF Same, WriteDue
  <2> QED BY <2>1, <2>2
<1>5. ASSUME NEW s \in Tasks PROVE ReadOK(s)' /\ WriteOK(s)'
  <2>1. CASE s = t
    BY <2>1
  <2>2. CASE s # t
    <3>1. Same(s) /\ ReadOK(s) /\ WriteOK(s)
      BY <2>2 DEF LineInv
    <3> QED BY <3>1, SameFacts
  <2> QED BY <2>1, <2>2
<1> QED BY <1>3, <1>4, <1>5 DEF LineInv

\* A call takes the answer it waits for, the only one there is.
LEMMA TakenLine ==
    ASSUME TypeInv, AloneInv, LineInv, NEW t \in Tasks, UNCHANGED <<uplink, content>>,
           \/ /\ pc[t] = "readWait" /\ readQ[mem[t]] # <<>> /\ UNCHANGED writeQ
              /\ readQ' = [readQ EXCEPT ![mem[t]] = Tail(@)]
           \/ /\ pc[t] = "writeWait" /\ writeQ[mem[t]] # <<>> /\ UNCHANGED readQ
              /\ writeQ' = [writeQ EXCEPT ![mem[t]] = Tail(@)],
           \A s \in Tasks \ {t} : Same(s),
           ReadOK(t)' /\ WriteOK(t)'
    PROVE  LineInv'
<1>1. PICK m \in Mems : m = mem[t]
  BY DEF TypeInv, CallTypes
<1>2. readQ'[m] = <<>> /\ writeQ'[m] = <<>> /\ \A i \in 1..Len(uplink) : uplink[i].mem # m
  <2>1. \A i \in 1..Len(uplink) : uplink[i].mem # m
    BY <1>1 DEF LineInv, RequestInv
  <2>2. ASSUME NEW q \in Seq(Answers), Len(q) = 1, q # <<>> PROVE Tail(q) = <<>>
    BY <2>2, QueueFacts, EmptySeq
  <2>3. readQ[m] \in Seq(Answers) /\ writeQ[m] \in Seq(Answers)
    BY DEF TypeInv, WireTypes
  <2>4. readQ[m] # <<>> => writeQ[m] = <<>> /\ Len(readQ[m]) = 1
    BY DEF LineInv, AnswerInv
  <2>5. writeQ[m] # <<>> => readQ[m] = <<>> /\ Len(writeQ[m]) = 1
    BY DEF LineInv, AnswerInv
  <2>6. readQ' = [readQ EXCEPT ![m] = Tail(@)] /\ readQ[m] # <<>> => readQ'[m] = Tail(readQ[m])
    BY DEF TypeInv, WireTypes
  <2>7. writeQ' = [writeQ EXCEPT ![m] = Tail(@)] /\ writeQ[m] # <<>> => writeQ'[m] = Tail(writeQ[m])
    BY DEF TypeInv, WireTypes
  <2> QED BY <1>1, <2>1, <2>2, <2>3, <2>4, <2>5, <2>6, <2>7
<1>3. \A n \in Mems \ {m} : readQ'[n] = readQ[n] /\ writeQ'[n] = writeQ[n]
  BY <1>1 DEF TypeInv, WireTypes
<1>4. RequestInv'
  <2>1. ASSUME NEW i \in 1..Len(uplink)
        PROVE  /\ readQ'[uplink[i].mem] = <<>> /\ writeQ'[uplink[i].mem] = <<>>
               /\ \E s \in Tasks : Asks(s, uplink[i])'
    <3>1. uplink[i].mem \in Mems
      <4>1. uplink[i] \in Requests
        BY <2>1, QueueFacts DEF TypeInv, WireTypes
      <4> QED BY <4>1 DEF Requests
    <3>2. PICK x : x = uplink[i]
      OBVIOUS
    <3>3. PICK s \in Tasks : Asks(s, x)
      BY <3>2 DEF LineInv, RequestInv
    <3>4. s # t
      BY <1>1, <1>2, <3>2, <3>3 DEF Asks
    <3>5. Asks(s, x)'
      BY <3>3, <3>4, SameFacts
    <3> QED BY <1>2, <1>3, <3>1, <3>2, <3>5 DEF LineInv, RequestInv
  <2> QED BY <2>1 DEF LineInv, RequestInv
<1>5. AnswerInv'
  <2> SUFFICES ASSUME NEW n \in Mems \ {m}
               PROVE  /\ readQ[n] # <<>> => \E s \in Tasks : ReadDue(s, n, readQ[n][1])'
                      /\ writeQ[n] # <<>> => \E s \in Tasks : WriteDue(s, n, writeQ[n][1])'
    BY <1>2, <1>3 DEF AnswerInv, LineInv
  <2>1. ASSUME readQ[n] # <<>> PROVE \E s \in Tasks : ReadDue(s, n, readQ[n][1])'
    <3>1. PICK x : x = readQ[n][1]
      OBVIOUS
    <3>2. PICK s \in Tasks : ReadDue(s, n, x)
      BY <2>1, <3>1 DEF LineInv, AnswerInv
    <3>3. s # t
      BY <1>1, <3>2 DEF ReadDue
    <3>4. ReadDue(s, n, x)'
      BY <3>2, <3>3, SameFacts
    <3>5. readQ'[n][1] = x
      BY <1>3, <3>1
    <3> QED BY <3>4, <3>5 DEF ReadDue
  <2>2. ASSUME writeQ[n] # <<>> PROVE \E s \in Tasks : WriteDue(s, n, writeQ[n][1])'
    <3>1. PICK x : x = writeQ[n][1]
      OBVIOUS
    <3>2. PICK s \in Tasks : WriteDue(s, n, x)
      BY <2>2, <3>1 DEF LineInv, AnswerInv
    <3>3. s # t
      BY <1>1, <3>2 DEF WriteDue
    <3>4. WriteDue(s, n, x)'
      BY <3>2, <3>3, SameFacts
    <3>5. writeQ'[n][1] = x
      BY <1>3, <3>1
    <3> QED BY <3>4, <3>5 DEF WriteDue
  <2> QED BY <2>1, <2>2
<1>6. ASSUME NEW s \in Tasks PROVE ReadOK(s)' /\ WriteOK(s)'
  <2>1. CASE s = t
    BY <2>1
  <2>2. CASE s # t
    <3>1. Same(s) /\ ReadOK(s) /\ WriteOK(s)
      BY <2>2 DEF LineInv
    <3> QED BY <3>1, SameFacts
  <2> QED BY <2>1, <2>2
<1> QED BY <1>4, <1>5, <1>6 DEF LineInv

\* The answer at the head is the one its call waits for.
LEMMA DueFacts ==
    ASSUME TypeInv, AloneInv, LineInv, NEW t \in Tasks
    PROVE  /\ pc[t] = "readWait" /\ readQ[mem[t]] # <<>>
                 => ReadDue(t, mem[t], Head(readQ[mem[t]]))
           /\ pc[t] = "writeWait" /\ writeQ[mem[t]] # <<>>
                 => WriteDue(t, mem[t], Head(writeQ[mem[t]]))
<1>1. mem[t] \in Mems /\ readQ[mem[t]] \in Seq(Answers) /\ writeQ[mem[t]] \in Seq(Answers)
  BY DEF TypeInv, CallTypes, WireTypes
<1>2. ASSUME pc[t] = "readWait", readQ[mem[t]] # <<>>
      PROVE  ReadDue(t, mem[t], Head(readQ[mem[t]]))
  <2>1. Head(readQ[mem[t]]) = readQ[mem[t]][1]
    BY <1>1, <1>2, QueueFacts
  <2>2. PICK s \in Tasks : ReadDue(s, mem[t], readQ[mem[t]][1])
    BY <1>1, <1>2 DEF LineInv, AnswerInv
  <2>3. s = t
    BY <1>2, <2>2 DEF AloneInv, Busy, ReadDue
  <2> QED BY <2>1, <2>2, <2>3
<1>3. ASSUME pc[t] = "writeWait", writeQ[mem[t]] # <<>>
      PROVE  WriteDue(t, mem[t], Head(writeQ[mem[t]]))
  <2>1. Head(writeQ[mem[t]]) = writeQ[mem[t]][1]
    BY <1>1, <1>3, QueueFacts
  <2>2. PICK s \in Tasks : WriteDue(s, mem[t], writeQ[mem[t]][1])
    BY <1>1, <1>3 DEF LineInv, AnswerInv
  <2>3. s = t
    BY <1>3, <2>2 DEF AloneInv, Busy, WriteDue
  <2> QED BY <2>1, <2>2, <2>3
<1> QED BY <1>2, <1>3

LEMMA UnchangedLine ==
    ASSUME LineInv,
           UNCHANGED <<pc, mem, from, length, cur, asked, buf, before, wireVars, content>>
    PROVE  LineInv'
<1>1. \A s \in Tasks : Same(s)
  BY DEF Same
<1>2. RequestInv'
  BY DEF LineInv, RequestInv, Asks, ToTransfer, End, wireVars
<1>3. AnswerInv'
  BY DEF LineInv, AnswerInv, ReadDue, WriteDue, ToTransfer, End, wireVars
<1> QED BY <1>1, <1>2, <1>3, SameFacts DEF LineInv

\* A call that has begun has done nothing yet.
LEMMA BegunLine ==
    ASSUME TypeInv, LineInv, NEW t \in Tasks,
           NEW p \in {"read", "write"}, NEW j, NEW m \in Mems, NEW a \in Nat, NEW n, NEW cells,
           Begin(t, p, j, m, a, n, cells), UNCHANGED <<wireVars, content>>,
           pc[t] = "idle" \/ Quiet(mem[t]),
           \A s \in Tasks \ {t} : before'[s] = before[s],
           p = "write" => before'[t] = content[m]
    PROVE  LineInv'
<1>1. \A s \in Tasks \ {t} : Same(s)
  BY DEF Begin, Same, TypeInv, CallTypes
<1>2. /\ pc'[t] = p /\ mem'[t] = m /\ from'[t] = a /\ cur'[t] = a
  BY DEF Begin, TypeInv, CallTypes
<1>3. ReadOK(t)'
  BY <1>2 DEF ReadOK
<1>4. WriteOK(t)'
  BY <1>2 DEF WriteOK, Acknowledged, Reached
<1> QED BY <1>1, <1>3, <1>4, QuietLine

LEMMA ReturnedLine ==
    ASSUME TypeInv, LineInv, NEW t \in Tasks, NEW r, Return(t, r),
           UNCHANGED <<wireVars, fwVars>>, pc[t] = "idle" \/ Quiet(mem[t])
    PROVE  LineInv'
<1>1. \A s \in Tasks \ {t} : Same(s)
  BY DEF Return, Same, TypeInv, CallTypes, fwVars
<1>2. pc'[t] = "idle"
  BY DEF Return, TypeInv, CallTypes
<1>3. ReadOK(t)' /\ WriteOK(t)'
  BY <1>2 DEF ReadOK, WriteOK
<1> QED BY <1>1, <1>3, QuietLine DEF fwVars

LEMMA OpenLine ==
    ASSUME TypeInv, LineInv, NEW t \in Tasks, NEW m \in Mems,
           OpenAtOnce(t, m) \/ OpenWrongType(t, m) \/ OpenAndRead(t, m) \/ OpenNone(t, m)
    PROVE  LineInv'
<1>1. CASE OpenAtOnce(t, m) \/ OpenWrongType(t, m) \/ OpenNone(t, m)
  BY <1>1, UnchangedLine DEF OpenAtOnce, OpenWrongType, OpenNone, fwVars
<1>2. CASE OpenAndRead(t, m)
  <2>1. PICK reads \in {OneWireReads(0), OneWireReads(1), EepromReads, DeckReads} :
            Opens(t, m, reads)
    BY <1>2 DEF OpenAndRead
  <2>2. reads[1] \in Reads
    BY ReadsFacts, QueueFacts
  <2>3. reads[1].addr \in Nat
    BY <2>2 DEF Reads
  <2> QED BY <1>2, <2>1, <2>3, BegunLine DEF OpenAndRead, Called, Opens, fwVars
<1> QED BY <1>1, <1>2

LEMMA CallLine ==
    ASSUME TypeInv, LineInv, NEW t \in Tasks, CallRead(t) \/ CallWrite(t)
    PROVE  LineInv'
<1>1. CASE CallRead(t)
  <2>1. PICK m \in Mems, x \in Extents : Begin(t, "read", "read", m, x[1], x[2], Zeros(x[2]))
    BY <1>1 DEF CallRead
  <2>2. x[1] \in Nat
    BY ExtentAssumption
  <2> QED BY <1>1, <2>1, <2>2, BegunLine DEF CallRead, Called, fwVars
<1>2. CASE CallWrite(t)
  <2>1. PICK m \in Mems, x \in Extents, cells \in Data :
            /\ Begin(t, "write", "write", m, x[1], x[2], cells)
            /\ before' = [before EXCEPT ![t] = content[m]]
    BY <1>2 DEF CallWrite
  <2>2. x[1] \in Nat
    BY ExtentAssumption
  <2>3. before'[t] = content[m] /\ \A s \in Tasks \ {t} : before'[s] = before[s]
    BY <2>1 DEF TypeInv, WireTypes
  <2> QED BY <1>2, <2>1, <2>2, <2>3, BegunLine DEF CallWrite, Called
<1> QED BY <1>1, <1>2

LEMMA ReadStepLine ==
    ASSUME TypeInv, AloneInv, LineInv, NEW t \in Tasks,
           ReadSend(t) \/ ReadDiscard(t) \/ ReadAnswered(t) \/ ReadDone(t) \/ OpenGoesOn(t)
    PROVE  LineInv'
<1>1. CASE ReadSend(t)
  <2>1. PICK r \in Requests :
            r = [op |-> "read", mem |-> mem[t], addr |-> cur[t], n |-> ToTransfer(t), data |-> <<>>]
    BY ToTransferFacts, EmptyFacts DEF TypeInv, CallTypes, Requests
  <2>2. /\ Sent(r) /\ pc[t] = "read" /\ pc' = [pc EXCEPT ![t] = "readWait"]
        /\ asked' = [asked EXCEPT ![t] = cur[t]]
        /\ UNCHANGED <<mem, from, length, cur, buf, readQ, writeQ, content, before>>
    BY <1>1, <2>1 DEF ReadSend, fwVars
  <2>3. \A s \in Tasks \ {t} : Same(s)
    BY <2>2 DEF Same, TypeInv, CallTypes
  <2>4. Asks(t, r)'
    BY <2>1, <2>2 DEF Asks, ToTransfer, End, TypeInv, CallTypes
  <2>5. ReadOK(t)' /\ WriteOK(t)'
    BY <2>2 DEF LineInv, ReadOK, WriteOK, TypeInv, CallTypes
  <2>6. Quiet(mem[t]) /\ r.mem = mem[t]
    BY <2>1, <2>2, ActiveQuiet
  <2> QED BY <2>2, <2>3, <2>4, <2>5, <2>6, SentLine
<1>2. CASE ReadDiscard(t)
  <2>1. ReadDue(t, mem[t], Head(readQ[mem[t]]))
    BY <1>2, DueFacts DEF ReadDiscard
  <2> QED BY <1>2, <2>1 DEF ReadDiscard, Matches, ReadDue
<1>3. CASE ReadAnswered(t)
  <2>1. /\ pc[t] = "readWait" /\ readQ[mem[t]] # <<>> /\ readQ' = [readQ EXCEPT ![mem[t]] = Tail(@)]
        /\ UNCHANGED <<uplink, writeQ, content, before>>
    BY <1>3 DEF ReadAnswered, fwVars
  <2>2. PICK x : x = Head(readQ[mem[t]])
    OBVIOUS
  <2>3. ReadDue(t, mem[t], x)
    BY <2>1, <2>2, DueFacts
  <2>4. CASE Return(t, "panicked") \/ Return(t, "error")
    <3>1. \A s \in Tasks \ {t} : Same(s)
      BY <2>1, <2>4 DEF Return, Same, TypeInv, CallTypes
    <3>2. ReadOK(t)' /\ WriteOK(t)'
      BY <2>4 DEF Return, ReadOK, WriteOK, TypeInv, CallTypes
    <3> QED BY <2>1, <3>1, <3>2, TakenLine
  <2>5. CASE ~(Return(t, "panicked") \/ Return(t, "error"))
    <3>1. /\ x.ok /\ pc' = [pc EXCEPT ![t] = "read"]
          /\ buf' = [buf EXCEPT ![t] = Copied(t, x.data)]
          /\ cur' = [cur EXCEPT ![t] = Advanced(t)]
          /\ UNCHANGED <<mem, from, length, asked>>
      BY <1>3, <2>2, <2>5 DEF ReadAnswered
    <3>2. \A s \in Tasks \ {t} : Same(s)
      BY <2>1, <3>1 DEF Same, TypeInv, CallTypes
    <3>3. x.data \in Seq(Cells)
      <4>1. readQ[mem[t]] \in Seq(Answers)
        BY DEF TypeInv, CallTypes, WireTypes
      <4>2. x \in Answers
        BY <2>1, <2>2, <4>1, QueueFacts
      <4> QED BY <4>2 DEF Answers
    <3>4. /\ pc'[t] = "read" /\ mem'[t] = mem[t] /\ from'[t] = from[t]
          /\ cur'[t] = cur[t] + ToTransfer(t) /\ buf'[t] = Copied(t, x.data)
      BY <3>1 DEF TypeInv, CallTypes, Advanced
    <3>5. Len(x.data) = ToTransfer(t)
          /\ \A k \in 1..ToTransfer(t) : x.data[k] = content[mem[t]][cur[t] + k - 1]
      BY <2>3, <3>1 DEF ReadDue
    <3>6. ASSUME NEW k \in 1..(cur'[t] - from[t])
          PROVE  buf'[t][k] = content[mem[t]][from[t] + k - 1]
      <4>1. /\ from[t] \in Nat /\ cur[t] \in Nat /\ Start(t) \in Nat /\ ToTransfer(t) \in Nat
            /\ length[t] \in Nat /\ Start(t) = cur[t] - from[t]
            /\ Start(t) + ToTransfer(t) <= length[t]
        BY ToTransferFacts DEF TypeInv, CallTypes, Start
      <4>2. k \in 1..length[t] /\ k \in 1..(Start(t) + ToTransfer(t)) /\ k \in Nat
        BY <3>4, <3>6, <4>1
      <4>3. buf'[t][k] = IF k - Start(t) \in 1..ToTransfer(t) THEN x.data[k - Start(t)] ELSE buf[t][k]
        BY <2>1, <3>3, <3>4, <3>5, <4>2, CopiedFacts DEF TypeInv
      <4>4. CASE k - Start(t) \in 1..ToTransfer(t)
        <5>1. buf'[t][k] = content[mem[t]][cur[t] + (k - Start(t)) - 1]
          BY <3>5, <4>3, <4>4
        <5>2. cur[t] + (k - Start(t)) - 1 = from[t] + k - 1
          BY <4>1, <4>2
        <5> QED BY <5>1, <5>2
      <4>5. CASE k - Start(t) \notin 1..ToTransfer(t)
        <5>1. k \in 1..(cur[t] - from[t])
          BY <4>1, <4>2, <4>5
        <5> QED BY <2>1, <4>3, <4>5, <5>1 DEF LineInv, ReadOK
      <4> QED BY <4>4, <4>5
    <3>7. ReadOK(t)' /\ WriteOK(t)'
      BY <2>1, <3>4, <3>6 DEF ReadOK, WriteOK
    <3> QED BY <2>1, <3>2, <3>7, TakenLine
  <2> QED BY <2>4, <2>5
<1>4. CASE ReadDone(t)
  <2>1. Quiet(mem[t])
    BY <1>4, ActiveQuiet DEF ReadDone
  <2> QED BY <1>4, <2>1, ReturnedLine DEF ReadDone
<1>5. CASE OpenGoesOn(t)
  <2>1. pc[t] = "read" /\ job[t] = "open" /\ UNCHANGED <<wireVars, fwVars>> /\ Quiet(mem[t])
    BY <1>5, ActiveQuiet DEF OpenGoesOn
  <2>2. ASSUME Return(t, "error") \/ Return(t, "ok") PROVE LineInv'
    BY <2>1, <2>2, ReturnedLine
  <2>3. ASSUME Len(todo[t]) > 1, Opens(t, mem[t], Tail(todo[t])) PROVE LineInv'
    <3>1. todo[t] \in Seq(Reads) /\ todo[t] # <<>> /\ mem[t] \in Mems
      BY <2>1 DEF TypeInv, CallTypes, CallOK
    <3>2. PICK reads \in Seq(Reads) : reads = Tail(todo[t])
      BY <3>1, QueueFacts
    <3>3. Len(reads) # 0
      BY <2>3, <3>1, <3>2, QueueFacts
    <3>4. reads[1] \in Reads
      BY <3>3, QueueFacts, EmptyFacts
    <3>5. reads[1].addr \in Nat
      BY <3>4 DEF Reads
    <3> QED BY <2>1, <2>3, <3>1, <3>2, <3>5, BegunLine DEF Opens, fwVars
  <2> QED BY <1>5, <2>2, <2>3 DEF OpenGoesOn
<1> QED BY <1>1, <1>2, <1>3, <1>4, <1>5

LEMMA WriteStepLine ==
    ASSUME TypeInv, AloneInv, LineInv, NEW t \in Tasks,
           WriteSend(t) \/ WriteDiscard(t) \/ WriteAnswered(t) \/ WriteDone(t)
    PROVE  LineInv'
<1>1. CASE WriteSend(t)
  <2>1. buf[t] \in Seq(Cells) /\ Len(buf[t]) = length[t] /\ pc[t] = "write"
    BY <1>1 DEF WriteSend, TypeInv, CallTypes, CallOK
  <2>2. /\ from[t] \in Nat /\ cur[t] \in Nat /\ Start(t) \in Nat /\ ToTransfer(t) \in Nat
        /\ Start(t) = cur[t] - from[t] /\ Start(t) + ToTransfer(t) <= length[t]
    BY ToTransferFacts DEF TypeInv, CallTypes, Start
  <2>3. PICK part : part = SubSeq(buf[t], Start(t) + 1, Start(t) + ToTransfer(t))
    OBVIOUS
  <2>4. part \in Seq(Cells) /\ \A i \in 1..ToTransfer(t) : part[i] = buf[t][Start(t) + i]
    <3>1. PICK from0 \in Nat, n \in Nat : from0 = Start(t) /\ n = ToTransfer(t)
      BY <2>2
    <3>2. from0 + n <= Len(buf[t])
      BY <2>1, <2>2, <3>1
    <3>3. /\ SubSeq(buf[t], from0 + 1, from0 + n) \in Seq(Cells)
          /\ \A i \in 1..n : SubSeq(buf[t], from0 + 1, from0 + n)[i] = buf[t][from0 + i]
      BY <2>1, <3>2, PartFacts
    <3> QED BY <2>3, <3>1, <3>3
  <2>5. PICK r \in Requests :
            r = [op |-> "write", mem |-> mem[t], addr |-> cur[t], n |-> ToTransfer(t), data |-> part]
    BY <2>2, <2>4 DEF TypeInv, CallTypes, Requests
  <2>6. /\ Sent(r) /\ pc' = [pc EXCEPT ![t] = "writeWait"]
        /\ asked' = [asked EXCEPT ![t] = cur[t]]
        /\ cur' = [cur EXCEPT ![t] = cur[t] + ToTransfer(t)]
        /\ UNCHANGED <<mem, from, length, buf, readQ, writeQ, content, before>>
    BY <1>1, <2>3, <2>5 DEF WriteSend, fwVars, Advanced
  <2>7. \A s \in Tasks \ {t} : Same(s)
    BY <2>6 DEF Same, TypeInv, CallTypes
  <2>8. /\ pc'[t] = "writeWait" /\ asked'[t] = cur[t] /\ cur'[t] = cur[t] + ToTransfer(t)
        /\ mem'[t] = mem[t] /\ from'[t] = from[t] /\ buf'[t] = buf[t]
    BY <2>6 DEF TypeInv, CallTypes
  <2>9. Asks(t, r)'
    <3>1. \A k \in 1..r.n : r.data[k] = buf[t][r.addr - from[t] + k]
      BY <2>2, <2>4, <2>5
    <3> QED BY <2>5, <2>8, <3>1 DEF Asks
  <2>10. ReadOK(t)' /\ WriteOK(t)'
    <3>1. WriteOK(t) /\ Reached(t) \subseteq Reached(t)' /\ Acknowledged(t)' = Acknowledged(t)
      BY <2>1, <2>2, <2>8 DEF LineInv, Reached, Acknowledged
    <3> QED BY <2>1, <2>6, <2>8, <3>1 DEF ReadOK, WriteOK
  <2>11. Quiet(mem[t]) /\ r.mem = mem[t]
    BY <2>1, <2>5, ActiveQuiet
  <2> QED BY <2>1, <2>6, <2>7, <2>9, <2>10, <2>11, SentLine
<1>2. CASE WriteDiscard(t)
  <2>1. WriteDue(t, mem[t], Head(writeQ[mem[t]]))
    BY <1>2, DueFacts DEF WriteDiscard
  <2> QED BY <1>2, <2>1 DEF WriteDiscard, Matches, WriteDue
<1>3. CASE WriteAnswered(t)
  <2>1. /\ pc[t] = "writeWait" /\ writeQ[mem[t]] # <<>> /\ writeQ' = [writeQ EXCEPT ![mem[t]] = Tail(@)]
        /\ UNCHANGED <<uplink, readQ, content, before>>
    BY <1>3 DEF WriteAnswered, fwVars
  <2>2. PICK x : x = Head(writeQ[mem[t]])
    OBVIOUS
  <2>3. WriteDue(t, mem[t], x)
    BY <2>1, <2>2, DueFacts
  <2>4. CASE Return(t, "error")
    <3>1. \A s \in Tasks \ {t} : Same(s)
      BY <2>1, <2>4 DEF Return, Same, TypeInv, CallTypes
    <3>2. ReadOK(t)' /\ WriteOK(t)'
      BY <2>4 DEF Return, ReadOK, WriteOK, TypeInv, CallTypes
    <3> QED BY <2>1, <3>1, <3>2, TakenLine
  <2>5. CASE ~Return(t, "error")
    <3>1. /\ x.ok /\ pc' = [pc EXCEPT ![t] = "write"]
          /\ UNCHANGED <<mem, from, length, cur, asked, buf>>
      BY <1>3, <2>2, <2>5 DEF WriteAnswered, StatusOk
    <3>2. \A s \in Tasks \ {t} : Same(s)
      BY <2>1, <3>1 DEF Same, TypeInv, CallTypes
    <3>3. pc'[t] = "write"
      BY <3>1 DEF TypeInv, CallTypes
    <3>4. WriteOK(t)'
      <4>1. Reached(t)' = Reached(t) /\ Acknowledged(t)' = from[t]..(cur[t] - 1)
        BY <3>1, <3>3 DEF Reached, Acknowledged
      <4>2. /\ from[t] \in Nat /\ asked[t] \in Nat /\ cur[t] \in Nat
            /\ from[t] <= asked[t] /\ asked[t] <= cur[t]
        BY <2>1 DEF TypeInv, CallTypes, CallOK
      <4>3. ASSUME NEW a \in Address, a \in from[t]..(cur[t] - 1)
            PROVE  content[mem[t]][a] = buf[t][a - from[t] + 1]
        <5>1. CASE a \in from[t]..(asked[t] - 1)
          BY <2>1, <5>1 DEF LineInv, WriteOK, Acknowledged
        <5>2. CASE a \in asked[t]..(cur[t] - 1)
          BY <2>3, <3>1, <5>2 DEF WriteDue
        <5> QED BY <4>2, <4>3, <5>1, <5>2
      <4>4. WriteOK(t) /\ pc[t] = "writeWait"
        BY <2>1 DEF LineInv
      <4> QED BY <2>1, <3>1, <4>1, <4>3, <4>4 DEF WriteOK
    <3>5. ReadOK(t)'
      BY <3>3 DEF ReadOK
    <3> QED BY <2>1, <3>2, <3>4, <3>5, TakenLine
  <2> QED BY <2>4, <2>5
<1>4. CASE WriteDone(t)
  <2>1. Quiet(mem[t])
    BY <1>4, ActiveQuiet DEF WriteDone
  <2> QED BY <1>4, <2>1, ReturnedLine DEF WriteDone
<1> QED BY <1>1, <1>2, <1>3, <1>4

LEMMA ErrorLine ==
    ASSUME TypeInv, AloneInv, LineInv, NEW t \in Tasks, SendError(t) \/ WaitError(t)
    PROVE  LineInv'
<1>1. CASE SendError(t)
  <2>1. Quiet(mem[t])
    BY <1>1, ActiveQuiet DEF SendError
  <2> QED BY <1>1, <2>1, ReturnedLine DEF SendError
<1>2. CASE WaitError(t)
  <2>1. Len(uplink) = 0
    BY <1>2, EmptyFacts DEF WaitError, TypeInv, WireTypes
  <2>2. mem[t] \in Mems /\ Busy(t)
    BY <1>2 DEF WaitError, Busy, TypeInv, CallTypes
  <2>3. readQ[mem[t]] = <<>> /\ writeQ[mem[t]] = <<>>
    <3>1. ASSUME readQ[mem[t]] # <<>> PROVE pc[t] = "readWait"
      BY <2>2, <3>1 DEF LineInv, AnswerInv, ReadDue, AloneInv, Busy
    <3>2. ASSUME writeQ[mem[t]] # <<>> PROVE pc[t] = "writeWait"
      BY <2>2, <3>2 DEF LineInv, AnswerInv, WriteDue, AloneInv, Busy
    <3> QED BY <1>2, <3>1, <3>2 DEF WaitError
  <2>4. Quiet(mem[t])
    BY <2>1, <2>3 DEF Quiet
  <2> QED BY <1>2, <2>4, ReturnedLine DEF WaitError
<1> QED BY <1>1, <1>2

\* The Crazyflie deals with the oldest request.
LEMMA FwLine == ASSUME TypeInv, AloneInv, LineInv, FwRequest PROVE LineInv'
<1>1. /\ uplink \in Seq(Requests) /\ uplink # <<>> /\ uplink' = Tail(uplink)
      /\ UNCHANGED <<callVars, before>>
  BY DEF FwRequest, TypeInv, WireTypes
<1>2. PICK r \in Requests : r = Head(uplink)
  BY <1>1, QueueFacts
<1>3. r = uplink[1] /\ 1 \in 1..Len(uplink)
      /\ \A i \in 1..Len(uplink') : uplink'[i] = uplink[i + 1] /\ i + 1 \in 1..Len(uplink) /\ i + 1 # 1
  BY <1>1, <1>2, QueueFacts
<1>4. PICK ok \in BOOLEAN : (ok => Inside(r)) /\ (FwRead(r, ok) \/ FwWrite(r, ok))
  BY <1>2 DEF FwRequest
<1>5. /\ readQ[r.mem] = <<>> /\ writeQ[r.mem] = <<>>
      /\ \A i \in 1..Len(uplink') : uplink'[i].mem # r.mem
  BY <1>3 DEF LineInv, RequestInv
<1>6. PICK t \in Tasks : Asks(t, r)
  BY <1>3 DEF LineInv, RequestInv
<1>7. r.mem \in Mems /\ r.addr \in Nat /\ r.n \in Nat
  BY DEF Requests
<1>8. /\ \A n \in Mems \ {r.mem} : readQ'[n] = readQ[n] /\ writeQ'[n] = writeQ[n] /\ content'[n] = content[n]
  BY <1>4, <1>7 DEF FwRead, FwWrite, TypeInv, WireTypes
<1>9. RequestInv'
  <2>1. ASSUME NEW i \in 1..Len(uplink')
        PROVE  /\ readQ'[uplink'[i].mem] = <<>> /\ writeQ'[uplink'[i].mem] = <<>>
               /\ \E s \in Tasks : Asks(s, uplink[i])'
    <3>1. PICK x \in Requests : x = uplink'[i] /\ x = uplink[i + 1]
      BY <1>1, <1>3, <2>1, QueueFacts
    <3>2. readQ[x.mem] = <<>> /\ writeQ[x.mem] = <<>> /\ \E s \in Tasks : Asks(s, x)
      BY <1>3, <2>1, <3>1 DEF LineInv, RequestInv
    <3>3. x.mem \in Mems /\ x.mem # r.mem
      BY <1>5, <2>1, <3>1 DEF Requests
    <3>4. \A s \in Tasks : Asks(s, x) => Asks(s, x)'
      BY <1>1 DEF callVars, Asks, ToTransfer, End
    <3> QED BY <1>8, <3>1, <3>2, <3>3, <3>4
  <2>2. ASSUME NEW i \in 1..Len(uplink'), NEW j \in 1..Len(uplink'), uplink'[i].mem = uplink'[j].mem
        PROVE  i = j
    <3>1. i + 1 = j + 1
      BY <1>3, <2>2 DEF LineInv, RequestInv
    <3>2. Len(uplink') \in Nat
      BY <1>1, QueueFacts
    <3> QED BY <3>1, <3>2
  <2> QED BY <2>1, <2>2 DEF RequestInv
\* What the answer says.
<1>10. /\ readQ'[r.mem] # <<>> => /\ Len(readQ'[r.mem]) = 1 /\ writeQ'[r.mem] = <<>>
                                 /\ ReadDue(t, r.mem, readQ[r.mem][1])'
       /\ writeQ'[r.mem] # <<>> => /\ Len(writeQ'[r.mem]) = 1 /\ readQ'[r.mem] = <<>>
                                  /\ WriteDue(t, r.mem, writeQ[r.mem][1])'
  <2>0. ASSUME NEW x PROVE Len(Append(<<>>, x)) = 1 /\ Append(<<>>, x)[1] = x
    OBVIOUS
  <2>1. CASE FwRead(r, ok)
    <3> DEFINE cells == IF ok THEN [k \in 1..r.n |-> content[r.mem][r.addr + k - 1]] ELSE <<>>
    <3>1. PICK x : x = [addr |-> r.addr, ok |-> ok, data |-> cells]
      OBVIOUS
    <3>2. /\ readQ' = [readQ EXCEPT ![r.mem] = Append(@, x)] /\ UNCHANGED <<writeQ, content>>
          /\ r.op = "read"
      BY <2>1, <3>1 DEF FwRead
    <3>3. readQ'[r.mem] = Append(<<>>, x) /\ writeQ'[r.mem] = <<>>
      BY <1>5, <1>7, <3>2 DEF TypeInv, WireTypes
    <3>4. readQ'[r.mem][1] = x /\ Len(readQ'[r.mem]) = 1
      BY <2>0, <3>3
    <3>5. mem[t] = r.mem /\ asked[t] = r.addr /\ pc[t] = "readWait" /\ r.n = ToTransfer(t) /\ cur[t] = r.addr
      BY <1>6, <3>2 DEF Asks, TypeInv, CallTypes, CallOK
    <3>6. x.ok => Len(x.data) = r.n /\ \A k \in 1..r.n : x.data[k] = content[r.mem][cur[t] + k - 1]
      BY <1>7, <3>1, <3>5
    <3>7. x.addr = r.addr
      BY <3>1
    <3>8. ReadDue(t, r.mem, x)'
      <4>1. ReadDue(t, r.mem, x)
        BY <3>5, <3>6, <3>7 DEF ReadDue
      <4>2. UNCHANGED content
        BY <3>2
      <4> QED BY <1>1, <4>1, <4>2 DEF ReadDue, callVars, ToTransfer, End
    <3> QED BY <3>3, <3>4, <3>8
  <2>2. CASE FwWrite(r, ok)
    <3>1. PICK x : x = [addr |-> r.addr, ok |-> ok, data |-> <<>>]
      OBVIOUS
    <3>2. writeQ' = [writeQ EXCEPT ![r.mem] = Append(@, x)] /\ UNCHANGED readQ /\ r.op = "write"
      BY <2>2, <3>1 DEF FwWrite
    <3>3. writeQ'[r.mem] = Append(<<>>, x) /\ readQ'[r.mem] = <<>>
      BY <1>5, <1>7, <3>2 DEF TypeInv, WireTypes
    <3>4. writeQ'[r.mem][1] = x /\ Len(writeQ'[r.mem]) = 1
      BY <2>0, <3>3
    <3>5. /\ mem[t] = r.mem /\ asked[t] = r.addr /\ pc[t] = "writeWait" /\ r.addr + r.n = cur[t]
          /\ \A k \in 1..r.n : r.data[k] = buf[t][r.addr - from[t] + k]
      BY <1>6, <3>2 DEF Asks
    <3>6. from[t] \in Nat
      BY DEF TypeInv, CallTypes
    <3>7. ASSUME ok = TRUE, NEW a \in Address, a \in r.addr..(cur[t] - 1)
          PROVE  content'[r.mem][a] = buf[t][a - from[t] + 1]
      <4>1. content'[r.mem][a] = r.data[a - r.addr + 1]
        BY <1>7, <2>2, <3>5, <3>7 DEF FwWrite, TypeInv, WireTypes
      <4>2. a - r.addr + 1 \in 1..r.n /\ r.addr - from[t] + (a - r.addr + 1) = a - from[t] + 1
        BY <1>7, <3>5, <3>6, <3>7
      <4> QED BY <3>5, <4>1, <4>2
    <3>8. WriteDue(t, r.mem, x)'
      BY <1>1, <3>1, <3>5, <3>7 DEF WriteDue, callVars
    <3> QED BY <3>3, <3>4, <3>8
  <2> QED BY <1>4, <2>1, <2>2
<1>11. AnswerInv'
  <2> SUFFICES ASSUME NEW m \in Mems \ {r.mem}
               PROVE  /\ readQ[m] # <<>> => \E s \in Tasks : ReadDue(s, m, readQ[m][1])'
                      /\ writeQ[m] # <<>> => \E s \in Tasks : WriteDue(s, m, writeQ[m][1])'
    BY <1>8, <1>10 DEF AnswerInv, LineInv
  <2>1. ASSUME readQ[m] # <<>> PROVE \E s \in Tasks : ReadDue(s, m, readQ[m][1])'
    <3>1. PICK s \in Tasks : ReadDue(s, m, readQ[m][1])
      BY <2>1 DEF LineInv, AnswerInv
    <3> QED BY <1>1, <1>8, <3>1 DEF callVars, ReadDue, ToTransfer, End
  <2>2. ASSUME writeQ[m] # <<>> PROVE \E s \in Tasks : WriteDue(s, m, writeQ[m][1])'
    <3>1. PICK s \in Tasks : WriteDue(s, m, writeQ[m][1])
      BY <2>2 DEF LineInv, AnswerInv
    <3> QED BY <1>1, <1>8, <3>1 DEF callVars, WriteDue
  <2> QED BY <2>1, <2>2
<1>12. ASSUME NEW s \in Tasks PROVE ReadOK(s)' /\ WriteOK(s)'
  <2>1. ReadOK(s) /\ WriteOK(s) /\ mem[s] \in Mems
    BY DEF LineInv, TypeInv, CallTypes
  <2>2. Same(s)
    BY <1>1 DEF Same, callVars
  <2>3. CASE UNCHANGED content
    BY <2>1, <2>2, <2>3, SameFacts
  <2>4. CASE mem[s] # r.mem
    <3>1. content'[mem[s]] = content[mem[s]]
      BY <1>8, <2>1, <2>4
    <3> QED BY <2>1, <2>2, <3>1 DEF Same, ReadOK, WriteOK, Acknowledged, Reached
  <2>5. CASE mem[s] = r.mem /\ FwWrite(r, ok)
    <3>1. /\ mem[t] = r.mem /\ asked[t] = r.addr /\ pc[t] = "writeWait" /\ r.addr + r.n = cur[t]
      BY <1>6, <2>5 DEF Asks, FwWrite
    <3>2. Busy(s) => s = t
      BY <2>5, <3>1 DEF AloneInv, Busy
    <3>3. pc'[s] = pc[s] /\ (pc[s] \in {"read", "readWait", "write", "writeWait"} => s = t /\ pc[s] = "writeWait")
      BY <2>2, <3>1, <3>2 DEF Busy, Same
    <3>4. ReadOK(s)'
      BY <3>3 DEF ReadOK
    <3>5. ASSUME s = t PROVE WriteOK(t)'
      <4>1. Acknowledged(t)' = Acknowledged(t) /\ Reached(t)' = Reached(t)
        BY <1>1 DEF callVars, Acknowledged, Reached
      <4>2. /\ from[t] \in Nat /\ asked[t] \in Nat /\ cur[t] \in Nat
            /\ from[t] <= asked[t] /\ asked[t] <= cur[t]
        BY <3>1 DEF TypeInv, CallTypes, CallOK
      <4>3. ASSUME NEW a \in Address, a \in Acknowledged(t) \/ a \notin Reached(t)
            PROVE  content'[r.mem][a] = content[r.mem][a]
        <5>2. Acknowledged(t) = from[t]..(asked[t] - 1) /\ Reached(t) = from[t]..(cur[t] - 1)
          BY <3>1 DEF Acknowledged, Reached
        <5>3. a \in Nat
          BY <4>3, SizeAssumption DEF Address
        <5>1. a \notin r.addr..(r.addr + r.n - 1)
          <6>1. a \in Acknowledged(t) => a < asked[t]
            BY <4>2, <5>2, <5>3
          <6>2. a \notin Reached(t) => a < from[t] \/ a >= cur[t]
            BY <4>2, <5>2, <5>3
          <6>3. a < r.addr \/ a >= r.addr + r.n
            BY <3>1, <4>2, <4>3, <5>3, <6>1, <6>2
          <6> QED BY <1>7, <5>3, <6>3
        <5> QED BY <1>7, <2>5, <5>1 DEF FwWrite, TypeInv, WireTypes
      <4> QED BY <1>1, <2>1, <3>1, <3>5, <4>1, <4>3 DEF WriteOK, callVars
    <3>6. CASE s = t
      BY <3>4, <3>5, <3>6
    <3>7. CASE s # t
      BY <3>3, <3>4, <3>7 DEF WriteOK
    <3> QED BY <3>6, <3>7
  <2> QED BY <1>4, <2>3, <2>4, <2>5 DEF FwRead
<1> QED BY <1>9, <1>11, <1>12 DEF LineInv

\* What is on its way gets lost, from the back.
LEMMA EndsLine == ASSUME TypeInv, LineInv, ConnectionEnds PROVE LineInv'
<1>1. PICK m \in Mems : \E i \in 0..Len(readQ[m]), j \in 0..Len(writeQ[m]) :
        /\ readQ' = [readQ EXCEPT ![m] = SubSeq(@, 1, i)]
        /\ writeQ' = [writeQ EXCEPT ![m] = SubSeq(@, 1, j)]
  BY DEF ConnectionEnds
<1>2. uplink' = <<>> /\ UNCHANGED <<callVars, fwVars>>
  BY DEF ConnectionEnds
<1>3. RequestInv'
  <2>1. Len(uplink') = 0
    BY <1>2, EmptyFacts
  <2> QED BY <2>1 DEF RequestInv
<1>4. ASSUME NEW q \in Seq(Answers), q # <<>> => Len(q) = 1, NEW i \in 0..Len(q)
      PROVE  SubSeq(q, 1, i) = q \/ SubSeq(q, 1, i) = <<>>
  <2>1. SubSeq(q, 1, i) \in Seq(Answers) /\ Len(SubSeq(q, 1, i)) = i /\ Len(q) \in Nat
        /\ \A k \in 1..i : SubSeq(q, 1, i)[k] = q[k]
    BY PrefixFacts, QueueFacts
  <2>2. i = 0 \/ i = Len(q)
    <3>1. q = <<>> => Len(q) = 0
      BY EmptyFacts
    <3>2. Len(q) = 0 \/ Len(q) = 1
      BY <1>4, <3>1
    <3> QED BY <1>4, <2>1, <3>2
  <2>3. CASE i = 0
    BY <2>1, <2>3, EmptySeq
  <2>4. CASE i = Len(q)
    BY <2>1, <2>4, SeqEqual
  <2> QED BY <2>2, <2>3, <2>4
<1>5. \A n \in Mems : /\ readQ'[n] = readQ[n] \/ readQ'[n] = <<>>
                      /\ writeQ'[n] = writeQ[n] \/ writeQ'[n] = <<>>
  <2>1. \A n \in Mems : /\ readQ[n] \in Seq(Answers) /\ writeQ[n] \in Seq(Answers)
                        /\ readQ[n] # <<>> => Len(readQ[n]) = 1
                        /\ writeQ[n] # <<>> => Len(writeQ[n]) = 1
    BY DEF TypeInv, WireTypes, LineInv, AnswerInv
  <2>2. PICK i \in 0..Len(readQ[m]), j \in 0..Len(writeQ[m]) :
            /\ readQ' = [readQ EXCEPT ![m] = SubSeq(@, 1, i)]
            /\ writeQ' = [writeQ EXCEPT ![m] = SubSeq(@, 1, j)]
    BY <1>1
  <2>3. SubSeq(readQ[m], 1, i) = readQ[m] \/ SubSeq(readQ[m], 1, i) = <<>>
    BY <1>4, <2>1
  <2>4. SubSeq(writeQ[m], 1, j) = writeQ[m] \/ SubSeq(writeQ[m], 1, j) = <<>>
    BY <1>4, <2>1
  <2> QED BY <2>2, <2>3, <2>4 DEF TypeInv, WireTypes
<1>6. AnswerInv'
  <2> SUFFICES ASSUME NEW n \in Mems
               PROVE  /\ readQ'[n] # <<>> => /\ Len(readQ'[n]) = 1 /\ writeQ'[n] = <<>>
                                             /\ \E s \in Tasks : ReadDue(s, n, readQ[n][1])'
                      /\ writeQ'[n] # <<>> => /\ Len(writeQ'[n]) = 1 /\ readQ'[n] = <<>>
                                              /\ \E s \in Tasks : WriteDue(s, n, writeQ[n][1])'
    BY DEF AnswerInv
  <2>1. ASSUME readQ'[n] # <<>> PROVE \E s \in Tasks : ReadDue(s, n, readQ[n][1])'
    <3>1. readQ'[n] = readQ[n]
      BY <1>5, <2>1
    <3>2. PICK s \in Tasks : ReadDue(s, n, readQ[n][1])
      BY <2>1, <3>1 DEF LineInv, AnswerInv
    <3> QED BY <1>2, <3>1, <3>2 DEF callVars, fwVars, ReadDue, ToTransfer, End
  <2>2. ASSUME writeQ'[n] # <<>> PROVE \E s \in Tasks : WriteDue(s, n, writeQ[n][1])'
    <3>1. writeQ'[n] = writeQ[n]
      BY <1>5, <2>2
    <3>2. PICK s \in Tasks : WriteDue(s, n, writeQ[n][1])
      BY <2>2, <3>1 DEF LineInv, AnswerInv
    <3> QED BY <1>2, <3>1, <3>2 DEF callVars, fwVars, WriteDue
  <2> QED BY <1>5, <2>1, <2>2 DEF LineInv, AnswerInv
<1>7. \A s \in Tasks : ReadOK(s)' /\ WriteOK(s)'
  <2>1. \A s \in Tasks : Same(s)
    BY <1>2 DEF Same, callVars, fwVars
  <2> QED BY <1>2, <2>1, SameFacts DEF LineInv, fwVars
<1> QED BY <1>3, <1>6, <1>7 DEF LineInv

LEMMA NextLine ==
    ASSUME TypeInv, AloneInv, cancels = 0 => LineInv, [Next]_vars
    PROVE  cancels' = 0 => LineInv'
<1> SUFFICES ASSUME cancels' = 0 PROVE LineInv'
  OBVIOUS
<1>1. ASSUME cancels' = cancels PROVE LineInv
  BY <1>1
<1>2. CASE UNCHANGED vars
  <2>1. LineInv
    BY <1>1, <1>2 DEF vars, boundVars
  <2> QED BY <1>2, <2>1, UnchangedLine DEF vars, callVars, fwVars
<1>3. ASSUME NEW t \in Tasks, NEW m \in Mems,
             OpenAtOnce(t, m) \/ OpenWrongType(t, m) \/ OpenAndRead(t, m) \/ OpenNone(t, m)
      PROVE  LineInv'
  <2>1. LineInv
    BY <1>1, <1>3 DEF OpenAtOnce, OpenWrongType, OpenAndRead, OpenNone, Called
  <2> QED BY <1>3, <2>1, OpenLine
<1>4. ASSUME NEW t \in Tasks, Close(t) \/ DropObject(t) PROVE LineInv'
  <2>1. LineInv
    BY <1>1, <1>4 DEF Close, DropObject, boundVars
  <2> QED BY <1>4, <2>1, UnchangedLine DEF Close, DropObject, callVars, fwVars
<1>5. ASSUME NEW t \in Tasks, CallRead(t) \/ CallWrite(t) PROVE LineInv'
  <2>1. LineInv
    BY <1>1, <1>5 DEF CallRead, CallWrite, Called
  <2> QED BY <1>5, <2>1, CallLine
<1>6. ASSUME NEW t \in Tasks, Step(t) PROVE LineInv'
  <2>1. LineInv
    BY <1>1, <1>6 DEF Step, ReadSend, ReadDiscard, ReadAnswered, ReadDone, OpenGoesOn, WriteSend,
                      WriteDiscard, WriteAnswered, WriteDone, SendError, WaitError, boundVars
  <2> QED BY <1>6, <2>1, ReadStepLine, WriteStepLine, ErrorLine DEF Step
<1>7. ASSUME NEW t \in Tasks, Cancel(t) PROVE FALSE
  BY <1>7 DEF Cancel, TypeInv, OtherTypes
<1>8. CASE FwRequest \/ ConnectionEnds
  <2>1. LineInv
    BY <1>1, <1>8 DEF FwRequest, ConnectionEnds, boundVars
  <2> QED BY <1>8, <2>1, FwLine, EndsLine
<1> QED BY <1>2, <1>3, <1>4, <1>5, <1>6, <1>7, <1>8 DEF Next

SafeInv == TypeInv /\ OwnInv /\ AloneInv /\ (cancels = 0 => LineInv)

LEMMA InitSafe == Init => SafeInv
  BY InitTypes, InitOwn, InitLine DEF SafeInv

LEMMA NextSafe == ASSUME MaxShared <= 1 PROVE SafeInv /\ [Next]_vars => SafeInv'
  BY NextTypes, NextOwn, NextAlone, NextLine DEF SafeInv

\* With one call at a time on an object, and until a call is dropped, what a
\* read has collected is what the memory holds, part by part
\* (MemoryBackend::read).
THEOREM ReadsRight == MaxShared <= 1 => (Spec => []ReadAgrees)
<1> SUFFICES ASSUME MaxShared <= 1 PROVE Spec => []ReadAgrees
  OBVIOUS
<1>1. SafeInv => ReadAgrees
  BY DEF SafeInv, LineInv, ReadOK, ReadAgrees
<1> QED BY <1>1, InitSafe, NextSafe, PTL DEF Spec

\* With one call at a time on an object, and until a call is dropped, a write
\* touches nothing but its own range, and what it has written is all that was
\* acknowledged and perhaps the part on its way (MemoryBackend::write).
THEOREM WritesRight == MaxShared <= 1 => (Spec => []WritePrefix)
<1> SUFFICES ASSUME MaxShared <= 1 PROVE Spec => []WritePrefix
  OBVIOUS
<1>1. SafeInv => WritePrefix
  BY DEF SafeInv, LineInv, WriteOK, WritePrefix
<1> QED BY <1>1, InitSafe, NextSafe, PTL DEF Spec
=============================================================================
