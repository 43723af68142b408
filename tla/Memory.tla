------------------------------- MODULE Memory -------------------------------
(***************************************************************************)
(* The memory subsystem: the backends a Memory object keeps for the        *)
(* memories of the Crazyflie, the objects made from them by open_memory    *)
(* and initialize_memory, and the reads and writes made through these,     *)
(* request by request.                                                     *)
(*                                                                         *)
(* A backend is moved out of the Memory object into the object that is     *)
(* opened, and back by close_memory.  Its reads and writes borrow it, so   *)
(* they may overlap when the program shares the object between tasks; the  *)
(* answers of the Crazyflie come in one queue for the reads and one for    *)
(* the writes of each memory.                                              *)
(***************************************************************************)
EXTENDS Naturals, Sequences, FiniteSets

CONSTANTS
    Tasks,          \* tasks of the program
    Mems,           \* memories of the Crazyflie
    NoMem,          \* the memory of a task that has no object
    Size,           \* number of cells of a memory
    MaxRequest,     \* MEM_MAX_REQUEST_SIZE
    Extents,        \* address and length of the program's reads and writes
    Data,           \* what it writes: sequences of cells
    Header,         \* the first cell of a memory with a valid header
    Junk,           \* any other content of a cell, except zero
    MaxShared,      \* calls the program makes at the same time on one object
    MaxCalls,       \* bound: calls made by one task
    MaxCancels      \* bound: calls whose future is dropped

Cells == {Header, Junk}
Address == 0..(Size - 1)

ASSUME SizeAssumption == Size \in Nat \ {0} /\ MaxRequest \in Nat \ {0}
ASSUME CellAssumption == Header # Junk /\ 0 \notin Cells
ASSUME TaskAssumption == IsFiniteSet(Tasks)
ASSUME MemAssumption == Mems # {} /\ NoMem \notin Mems
ASSUME ExtentAssumption == Extents \subseteq Nat \X (Nat \ {0})
ASSUME DataAssumption == \A d \in Data : d \in Seq(Cells)
ASSUME BoundAssumption ==
    MaxShared \in Nat /\ MaxCalls \in Nat /\ MaxCancels \in Nat

VARIABLES
    home,           \* the backend is in the Memory object
    object,         \* the memory whose object the task owns
    pc,             \* where each task is
    job,            \* what its call does
    todo,           \* reads an open has still to make, the current one first
    mem,            \* memory the call is about
    from,           \* first address of the transfer
    length,         \* its number of cells
    cur,            \* current_address
    asked,          \* address in the request whose answer is awaited
    buf,            \* the cells read so far, or those to be written
    result,         \* how the task's last call ended
    uplink,         \* requests on their way to the Crazyflie
    readQ, writeQ,  \* answers that have come in, for each memory
    content,        \* the memories of the Crazyflie
    before,         \* history: content of the memory when the write started
    connected,      \* the connection is up
    calls, cancels  \* counters for the bounds

ownVars == <<home, object>>
callVars == <<pc, job, todo, mem, from, length, cur, asked, buf, result>>
wireVars == <<uplink, readQ, writeQ>>
fwVars == <<content, before>>
boundVars == <<calls, cancels>>
vars == <<ownVars, callVars, wireVars, fwVars, connected, boundVars>>

Requests == [op : {"read", "write"}, mem : Mems, addr : Nat, n : Nat, data : Seq(Cells)]
Answers == [addr : Nat, ok : BOOLEAN, data : Seq(Cells)]
Reads == [addr : Nat, n : Nat, checked : BOOLEAN]

\* address + length
End(t) == from[t] + length[t]

TypeOK ==
    /\ home \in [Mems -> BOOLEAN]
    /\ object \in [Tasks -> Mems \union {NoMem}]
    /\ pc \in [Tasks -> {"idle", "read", "readWait", "write", "writeWait"}]
    /\ job \in [Tasks -> {"open", "read", "write"}]
    /\ todo \in [Tasks -> Seq(Reads)]
    /\ mem \in [Tasks -> Mems]
    /\ from \in [Tasks -> Nat]
    /\ length \in [Tasks -> Nat]
    /\ \A t \in Tasks : cur[t] \in from[t]..End(t)
    /\ asked \in [Tasks -> Nat]
    /\ buf \in [Tasks -> Seq(Cells \union {0})]
    /\ result \in [Tasks -> {"ok", "none", "error", "disconnected", "panicked"}]
    /\ uplink \in Seq(Requests)
    /\ readQ \in [Mems -> Seq(Answers)]
    /\ writeQ \in [Mems -> Seq(Answers)]
    /\ content \in [Mems -> [Address -> Cells]]
    /\ before \in [Tasks -> [Address -> Cells]]
    /\ connected \in BOOLEAN
    /\ calls \in [Tasks -> Nat] /\ cancels \in Nat

\* Memory::new has fetched the list of memories and made their backends.
Init ==
    /\ home = [m \in Mems |-> TRUE]
    /\ object = [t \in Tasks |-> NoMem]
    /\ pc = [t \in Tasks |-> "idle"]
    /\ job = [t \in Tasks |-> "read"]
    /\ todo = [t \in Tasks |-> <<>>]
    /\ mem \in [Tasks -> {CHOOSE m \in Mems : TRUE}]
    /\ from = [t \in Tasks |-> 0]
    /\ length = [t \in Tasks |-> 0]
    /\ cur = [t \in Tasks |-> 0]
    /\ asked = [t \in Tasks |-> 0]
    /\ buf = [t \in Tasks |-> <<>>]
    /\ result = [t \in Tasks |-> "ok"]
    /\ uplink = <<>>
    /\ readQ = [m \in Mems |-> <<>>] /\ writeQ = [m \in Mems |-> <<>>]
    /\ content \in [Mems -> {[a \in Address |-> Header], [a \in Address |-> Junk]}]
    /\ before = [t \in Tasks |-> [a \in Address |-> Junk]]
    /\ connected = TRUE
    /\ calls = [t \in Tasks |-> 0] /\ cancels = 0

-----------------------------------------------------------------------------
(* What a call is made of. *)

Called(t) ==
    /\ pc[t] = "idle"
    /\ calls[t] < MaxCalls
    /\ calls' = [calls EXCEPT ![t] = @ + 1]
    /\ UNCHANGED cancels

\* The transfer of n cells at address a; the state of an ended call is gone.
Begin(t, p, j, m, a, n, cells) ==
    /\ pc' = [pc EXCEPT ![t] = p]
    /\ job' = [job EXCEPT ![t] = j]
    /\ mem' = [mem EXCEPT ![t] = m]
    /\ from' = [from EXCEPT ![t] = a]
    /\ length' = [length EXCEPT ![t] = n]
    /\ cur' = [cur EXCEPT ![t] = a]
    /\ asked' = [asked EXCEPT ![t] = a]
    /\ buf' = [buf EXCEPT ![t] = cells]
    /\ UNCHANGED result

Zeros(n) == [k \in 1..n |-> 0]

Return(t, r) ==
    /\ pc' = [pc EXCEPT ![t] = "idle"]
    /\ result' = [result EXCEPT ![t] = r]
    /\ from' = [from EXCEPT ![t] = 0]
    /\ length' = [length EXCEPT ![t] = 0]
    /\ cur' = [cur EXCEPT ![t] = 0]
    /\ asked' = [asked EXCEPT ![t] = 0]
    /\ buf' = [buf EXCEPT ![t] = <<>>]
    /\ todo' = [todo EXCEPT ![t] = <<>>]
    /\ UNCHANGED <<job, mem>>

\* min(MEM_MAX_REQUEST_SIZE, address + length - current_address)
ToTransfer(t) ==
    IF End(t) - cur[t] < MaxRequest THEN End(t) - cur[t] ELSE MaxRequest

\* current_address += to_read
\* Mutant: the address moves on by the size of a whole part.
AdvancedByMax(t) == cur[t] + MaxRequest
Advanced(t) == cur[t] + ToTransfer(t)

\* uplink.send_async: an error once the uplink task is gone; when contact is
\* lost it may still be there, and the packet goes nowhere.
Sent(r) == uplink' = IF connected THEN Append(uplink, r) ELSE uplink

\* The calls that use the backend of m, and the object made from it.
Users(m) == {t \in Tasks : pc[t] # "idle" /\ mem[t] = m}
IsOpen(m) == \E t \in Tasks : object[t] = m

-----------------------------------------------------------------------------
(* open_memory, initialize_memory and close_memory *)

\* backends[memory_id].lock().await.take()
\* Mutant: the backend stays where it is.
TakeCopy(m) == UNCHANGED home
Take(m) == home' = [home EXCEPT ![m] = FALSE]

\* RawMemory, and the memories that are not read when they are opened; every
\* type but DeckMemory when it is initialized.
OpenAtOnce(t, m) ==
    /\ Called(t)
    /\ object[t] = NoMem
    /\ home[m]
    /\ Take(m)
    /\ object' = [object EXCEPT ![t] = m]
    /\ result' = [result EXCEPT ![t] = "ok"]
    /\ UNCHANGED <<pc, job, todo, mem, from, length, cur, asked, buf, wireVars, fwVars, connected>>

\* "Wrong type of memory!": the backend goes with the error.
OpenWrongType(t, m) ==
    /\ Called(t)
    /\ object[t] = NoMem
    /\ home[m]
    /\ Take(m)
    /\ result' = [result EXCEPT ![t] = "error"]
    /\ UNCHANGED <<object, pc, job, todo, mem, from, length, cur, asked, buf, wireVars, fwVars,
                   connected>>

\* What a memory of each type is read by when it is opened: address, length and
\* whether the open fails unless the content is right.
\* A header, the header of the elements, the elements, as many as the latter
\* says (perhaps none), and their checksum.
OneWireReads(n) ==
    <<[addr |-> 0, n |-> 1, checked |-> TRUE], [addr |-> 1, n |-> 1, checked |-> TRUE],
      [addr |-> 2, n |-> n, checked |-> FALSE], [addr |-> 2 + n, n |-> 1, checked |-> TRUE]>>
EepromReads == <<[addr |-> 0, n |-> Size, checked |-> TRUE]>>
\* The version, then the sections; one that is not valid is passed over.
DeckReads ==
    <<[addr |-> 0, n |-> 1, checked |-> TRUE]>>
      \o [k \in 1..(Size - 1) |-> [addr |-> k, n |-> 1, checked |-> FALSE]]

\* The next read of an open.
Opens(t, m, reads) ==
    /\ Begin(t, "read", "open", m, reads[1].addr, reads[1].n, Zeros(reads[1].n))
    /\ todo' = [todo EXCEPT ![t] = reads]

OpenAndRead(t, m) ==
    /\ Called(t)
    /\ object[t] = NoMem
    /\ home[m]
    /\ Take(m)
    /\ \E reads \in {OneWireReads(0), OneWireReads(1), EepromReads, DeckReads} :
           Opens(t, m, reads)
    /\ UNCHANGED <<object, wireVars, fwVars, connected>>

OpenNone(t, m) ==
    /\ Called(t)
    /\ object[t] = NoMem
    /\ ~home[m]
    /\ result' = [result EXCEPT ![t] = "none"]
    /\ UNCHANGED <<ownVars, pc, job, todo, mem, from, length, cur, asked, buf, wireVars, fwVars,
                   connected>>

\* close_memory takes the object, so no call borrows it.
Close(t) ==
    /\ pc[t] = "idle"
    /\ object[t] # NoMem
    /\ Users(object[t]) = {}
    /\ home' = [home EXCEPT ![object[t]] = TRUE]
    /\ object' = [object EXCEPT ![t] = NoMem]
    /\ UNCHANGED <<callVars, wireVars, fwVars, connected, boundVars>>

\* The object is dropped without being closed, and its backend with it.
DropObject(t) ==
    /\ pc[t] = "idle"
    /\ object[t] # NoMem
    /\ Users(object[t]) = {}
    /\ object' = [object EXCEPT ![t] = NoMem]
    /\ UNCHANGED <<home, callVars, wireVars, fwVars, connected, boundVars>>

-----------------------------------------------------------------------------
(* MemoryBackend::read *)

CallRead(t) ==
    \E m \in Mems, x \in Extents :
        /\ Called(t)
        /\ IsOpen(m) /\ Cardinality(Users(m)) < MaxShared
        /\ Begin(t, "read", "read", m, x[1], x[2], Zeros(x[2]))
        /\ UNCHANGED <<todo, ownVars, wireVars, fwVars, connected>>

ReadSend(t) ==
    /\ pc[t] = "read"
    /\ cur[t] < End(t)
    /\ Sent([op |-> "read", mem |-> mem[t], addr |-> cur[t], n |-> ToTransfer(t),
             data |-> <<>>])
    /\ asked' = [asked EXCEPT ![t] = cur[t]]
    /\ pc' = [pc EXCEPT ![t] = "readWait"]
    /\ UNCHANGED <<ownVars, job, todo, mem, from, length, cur, buf, result, readQ, writeQ,
                   fwVars, connected, boundVars>>

\* The pattern of wait_packet: the answers for other addresses are thrown away.
\* Mutant: the address looked for is that of the whole transfer.
MatchesStart(t, answer) == answer.addr = from[t]
Matches(t, answer) == answer.addr = asked[t]

ReadDiscard(t) ==
    /\ pc[t] = "readWait"
    /\ readQ[mem[t]] # <<>>
    /\ ~Matches(t, Head(readQ[mem[t]]))
    /\ readQ' = [readQ EXCEPT ![mem[t]] = Tail(@)]
    /\ UNCHANGED <<ownVars, callVars, uplink, writeQ, fwVars, connected, boundVars>>

\* data[start..end].copy_from_slice(read_data), with its end from the answer.
\* Mutant: every part is copied to the beginning.
StartAtZero(t) == 0
Start(t) == cur[t] - from[t]

Copied(t, cells) ==
    [k \in 1..length[t] |-> IF k - Start(t) \in 1..Len(cells)
                            THEN cells[k - Start(t)] ELSE buf[t][k]]

\* The answer to the request: copied, refused, or too long for the buffer.
ReadAnswered(t) ==
    /\ pc[t] = "readWait"
    /\ readQ[mem[t]] # <<>>
    /\ readQ' = [readQ EXCEPT ![mem[t]] = Tail(@)]
    /\ LET answer == Head(readQ[mem[t]]) IN
        /\ Matches(t, answer)
        /\ \/ /\ answer.ok /\ Start(t) + Len(answer.data) <= length[t]
              /\ buf' = [buf EXCEPT ![t] = Copied(t, answer.data)]
              /\ cur' = [cur EXCEPT ![t] = Advanced(t)]
              /\ pc' = [pc EXCEPT ![t] = "read"]
              /\ UNCHANGED <<job, todo, mem, from, length, asked, result>>
           \/ answer.ok /\ Start(t) + Len(answer.data) > length[t] /\ Return(t, "panicked")
           \/ ~answer.ok /\ Return(t, "error")
    /\ UNCHANGED <<ownVars, uplink, writeQ, fwVars, connected, boundVars>>

\* The content that was read is what it should be.
Valid(t) == \A k \in 1..length[t] : buf[t][k] = Header

\* The transfer is over, and a plain read with it.
ReadDone(t) ==
    /\ pc[t] = "read"
    /\ cur[t] >= End(t)
    /\ job[t] = "read"
    /\ Return(t, "ok")
    /\ UNCHANGED <<ownVars, wireVars, fwVars, connected, boundVars>>

\* An open goes on with its next read, fails, or has its object.
OpenGoesOn(t) ==
    /\ pc[t] = "read"
    /\ cur[t] >= End(t)
    /\ job[t] = "open"
    /\ \/ /\ Head(todo[t]).checked /\ ~Valid(t)
          /\ Return(t, "error") /\ UNCHANGED object
       \/ /\ Head(todo[t]).checked => Valid(t)
          /\ Len(todo[t]) > 1
          /\ Opens(t, mem[t], Tail(todo[t])) /\ UNCHANGED object
       \/ /\ Head(todo[t]).checked => Valid(t)
          /\ Len(todo[t]) = 1
          /\ object' = [object EXCEPT ![t] = mem[t]]
          /\ Return(t, "ok")
    /\ UNCHANGED <<home, wireVars, fwVars, connected, boundVars>>

-----------------------------------------------------------------------------
(* MemoryBackend::write *)

CallWrite(t) ==
    \E m \in Mems, x \in Extents, cells \in Data :
        /\ Called(t)
        /\ x[2] = Len(cells)
        /\ IsOpen(m) /\ Cardinality(Users(m)) < MaxShared
        /\ Begin(t, "write", "write", m, x[1], x[2], cells)
        /\ before' = [before EXCEPT ![t] = content[m]]
        /\ UNCHANGED <<todo, ownVars, wireVars, content, connected>>

\* The address moves on, and the progress is reported, before the answer.
WriteSend(t) ==
    /\ pc[t] = "write"
    /\ cur[t] < End(t)
    /\ Sent([op |-> "write", mem |-> mem[t], addr |-> cur[t], n |-> ToTransfer(t),
             data |-> SubSeq(buf[t], Start(t) + 1, Start(t) + ToTransfer(t))])
    /\ asked' = [asked EXCEPT ![t] = cur[t]]
    /\ cur' = [cur EXCEPT ![t] = Advanced(t)]
    /\ pc' = [pc EXCEPT ![t] = "writeWait"]
    /\ UNCHANGED <<ownVars, job, todo, mem, from, length, buf, result, readQ, writeQ,
                   fwVars, connected, boundVars>>

WriteDiscard(t) ==
    /\ pc[t] = "writeWait"
    /\ writeQ[mem[t]] # <<>>
    /\ ~Matches(t, Head(writeQ[mem[t]]))
    /\ writeQ' = [writeQ EXCEPT ![mem[t]] = Tail(@)]
    /\ UNCHANGED <<ownVars, callVars, uplink, readQ, fwVars, connected, boundVars>>

\* Mutant: the status of a write is not looked at.
StatusIgnored(answer) == TRUE
StatusOk(answer) == answer.ok

WriteAnswered(t) ==
    /\ pc[t] = "writeWait"
    /\ writeQ[mem[t]] # <<>>
    /\ writeQ' = [writeQ EXCEPT ![mem[t]] = Tail(@)]
    /\ LET answer == Head(writeQ[mem[t]]) IN
        /\ Matches(t, answer)
        /\ \/ /\ StatusOk(answer)
              /\ pc' = [pc EXCEPT ![t] = "write"]
              /\ UNCHANGED <<job, todo, mem, from, length, cur, asked, buf, result>>
           \/ ~StatusOk(answer) /\ Return(t, "error")
    /\ UNCHANGED <<ownVars, uplink, readQ, fwVars, connected, boundVars>>

WriteDone(t) ==
    /\ pc[t] = "write"
    /\ cur[t] >= End(t)
    /\ Return(t, "ok")
    /\ UNCHANGED <<ownVars, wireVars, fwVars, connected, boundVars>>

-----------------------------------------------------------------------------
(* Errors and dropped calls; a backend that is being opened is dropped too. *)

SendError(t) ==
    /\ pc[t] \in {"read", "write"} /\ cur[t] < End(t)
    /\ ~connected
    /\ Return(t, "disconnected")
    /\ UNCHANGED <<ownVars, wireVars, fwVars, connected, boundVars>>

WaitError(t) ==
    /\ \/ pc[t] = "readWait" /\ readQ[mem[t]] = <<>>
       \/ pc[t] = "writeWait" /\ writeQ[mem[t]] = <<>>
    /\ ~connected
    /\ Return(t, "disconnected")
    /\ UNCHANGED <<ownVars, wireVars, fwVars, connected, boundVars>>

Cancel(t) ==
    /\ pc[t] # "idle"
    /\ cancels < MaxCancels
    /\ cancels' = cancels + 1
    /\ Return(t, "error")
    /\ UNCHANGED <<ownVars, wireVars, fwVars, connected, calls>>

-----------------------------------------------------------------------------
(* External: the Crazyflie and the connection. *)

Inside(r) == r.addr + r.n <= Size

\* A request may be refused, and is when it goes past the end.
FwRead(r, ok) ==
    /\ r.op = "read"
    /\ readQ' = [readQ EXCEPT ![r.mem] = Append(@,
            [addr |-> r.addr, ok |-> ok,
             data |-> IF ok THEN [k \in 1..r.n |-> content[r.mem][r.addr + k - 1]]
                      ELSE <<>>])]
    /\ UNCHANGED <<writeQ, content>>

FwWrite(r, ok) ==
    /\ r.op = "write"
    /\ writeQ' = [writeQ EXCEPT ![r.mem] = Append(@,
            [addr |-> r.addr, ok |-> ok, data |-> <<>>])]
    /\ content' = [content EXCEPT ![r.mem] = [a \in Address |->
            IF ok /\ a \in r.addr..(r.addr + r.n - 1)
            THEN r.data[a - r.addr + 1] ELSE @[a]]]
    /\ UNCHANGED readQ

FwRequest ==
    /\ connected
    /\ uplink # <<>>
    /\ uplink' = Tail(uplink)
    /\ \E ok \in BOOLEAN :
        /\ ok => Inside(Head(uplink))
        /\ FwRead(Head(uplink), ok) \/ FwWrite(Head(uplink), ok)
    /\ UNCHANGED <<ownVars, callVars, before, connected, boundVars>>

\* Requests are lost, and so are answers that have not come in.
ConnectionEnds ==
    /\ connected
    /\ connected' = FALSE
    /\ uplink' = <<>>
    /\ \E m \in Mems : \E i \in 0..Len(readQ[m]), j \in 0..Len(writeQ[m]) :
        /\ readQ' = [readQ EXCEPT ![m] = SubSeq(@, 1, i)]
        /\ writeQ' = [writeQ EXCEPT ![m] = SubSeq(@, 1, j)]
    /\ UNCHANGED <<ownVars, callVars, fwVars, boundVars>>

-----------------------------------------------------------------------------
Step(t) ==
    \/ ReadSend(t) \/ ReadDiscard(t) \/ ReadAnswered(t) \/ ReadDone(t)
    \/ OpenGoesOn(t)
    \/ WriteSend(t) \/ WriteDiscard(t) \/ WriteAnswered(t) \/ WriteDone(t)
    \/ SendError(t) \/ WaitError(t)

Next ==
    \/ \E t \in Tasks :
        \/ \E m \in Mems : OpenAtOnce(t, m) \/ OpenWrongType(t, m)
                             \/ OpenAndRead(t, m) \/ OpenNone(t, m)
        \/ Close(t) \/ DropObject(t) \/ CallRead(t) \/ CallWrite(t) \/ Step(t) \/ Cancel(t)
    \/ FwRequest \/ ConnectionEnds

Spec == Init /\ [][Next]_vars

\* A call goes on when it can, and the Crazyflie answers what it gets.
Fairness == (\A t \in Tasks : WF_vars(Step(t))) /\ WF_vars(FwRequest)

FairSpec == Spec /\ Fairness

-----------------------------------------------------------------------------
(* Properties *)

\* A task has the backend of m: in its object, or in the call that opens it.
Holds(t, m) ==
    \/ object[t] = m
    \/ pc[t] # "idle" /\ job[t] = "open" /\ mem[t] = m

Holders == [m \in Mems |-> {t \in Tasks : Holds(t, m)}]

\* A memory has one backend: it is in the Memory object, or in the object of one
\* task, or in the hands of one task that is opening it (open_memory).
OneOwner == \A m \in Mems : Cardinality(Holders[m]) <= IF home[m] THEN 0 ELSE 1

\* The object keeps the promise of Lending: no backend is ever in two places, it
\* goes to one task from home only (open_memory) and home from that task only
\* (close_memory), and one that is lost is never seen again.
Lent == INSTANCE Lending WITH holders <- Holders
LendingKept == Lent!Spec

\* What a read has collected is what the memory holds, in parts of at most
\* MEM_MAX_REQUEST_SIZE, as long as no two calls share an object and none has
\* been dropped half way: its late answer would be taken for the one to a new
\* request for the same address (MemoryBackend::read).
ReadAgrees ==
    cancels = 0 => \A t \in Tasks : pc[t] \in {"read", "readWait"} =>
        \A k \in 1..(cur[t] - from[t]) :
            k <= length[t] => buf[t][k] = content[mem[t]][from[t] + k - 1]

\* A write touches nothing but its own range, and whatever comes of it what it
\* has written is a first part of its data: all that was acknowledged, and
\* perhaps the part on its way; until a call is dropped (MemoryBackend::write).
Acknowledged(t) == from[t]..((IF pc[t] = "writeWait" THEN asked[t] ELSE cur[t]) - 1)
Reached(t) == from[t]..(cur[t] - 1)

WritePrefix ==
    cancels = 0 => \A t \in Tasks : pc[t] \in {"write", "writeWait"} =>
        \A a \in Address :
            LET written == content[mem[t]][a] IN
            /\ a \in Acknowledged(t) => written = buf[t][a - from[t] + 1]
            /\ a \notin Reached(t) => written = before[t][a]

\* Every call returns: a read or a write finds its answer or an error, also
\* after a call that was dropped half way.
CallsReturn == \A t \in Tasks : pc[t] # "idle" ~> pc[t] = "idle"
=============================================================================
