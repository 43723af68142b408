------------------------------ MODULE Console -------------------------------
(***************************************************************************)
(* The console (console.rs): a task keeps the text that comes in, cuts it  *)
(* into lines, and broadcasts both; a stream starts with the history and   *)
(* goes on with what is broadcast.                                         *)
(*                                                                         *)
(* The text is that of the packets 1, 2, ... and a text stream gives the   *)
(* numbers of the packets; a line stream gives the numbers of the lines,   *)
(* whose characters are in console_lines.                                  *)
(***************************************************************************)
EXTENDS Broadcast, FiniteSets, SequencesExt

CONSTANTS
    Readers,        \* streams the program opens
    NewLine,        \* the character a line ends with
    Texts,          \* what a packet may hold
    Capacity,       \* of the broadcast channels (1000)
    MaxPackets      \* bound: packets of the Crazyflie

\* What the constants have to be.
ConstantsOK ==
    /\ Capacity \in Nat \ {0}
    /\ MaxPackets \in Nat
    /\ \A x \in Texts : x \in Seq(Range(x))

VARIABLES
    arrived,        \* packets that have come in, the first `taken` of which
    taken,          \* the task has taken
    step,           \* where the task is
    console_buffer, \* number of packets in the history of the text
    line_buffer,    \* characters after the last line
    console_lines,  \* the history of the lines
    cast,           \* what has been broadcast, on each channel
    reader,         \* the streams
    up              \* the connection is up

taskVars == <<taken, step, console_buffer, line_buffer, console_lines, cast>>
vars == <<arrived, taskVars, reader, up>>

Channels == {"text", "line"}

TypeOK ==
    /\ arrived \in Seq(Texts) /\ taken \in 0..Len(arrived)
    /\ step \in {"recv", "text", "line", "cast", "ended"}
    /\ console_buffer \in 0..taken
    /\ line_buffer \in Seq(Range(FlattenSeq(arrived)))
    /\ cast \in [Channels -> Seq(Nat)]
    /\ reader \in [Readers -> [channel : Channels \union {"none"}, history : BOOLEAN,
                               first : Nat, next : Nat, got : Seq(Nat), lagged : BOOLEAN]]
    /\ up \in BOOLEAN

Init ==
    /\ arrived = <<>> /\ taken = 0
    /\ step = "recv"
    /\ console_buffer = 0 /\ line_buffer = <<>> /\ console_lines = <<>>
    /\ cast = [c \in Channels |-> <<>>]
    /\ reader = [r \in Readers |-> [channel |-> "none", history |-> FALSE, first |-> 1,
                                    next |-> 0, got |-> <<>>, lagged |-> FALSE]]
    /\ up = TRUE

-----------------------------------------------------------------------------
(* The console task. *)

\* What the history of a channel holds: 1, 2, ..., History(c).
History(c) == IF c = "text" THEN console_buffer ELSE Len(console_lines)

\* The text of the packet goes to the history.
Keep ==
    /\ step = "recv"
    /\ taken < Len(arrived)
    /\ taken' = taken + 1
    /\ console_buffer' = console_buffer + 1
    /\ step' = "text"
    /\ UNCHANGED <<arrived, line_buffer, console_lines, cast, reader, up>>

CastText ==
    /\ step = "text"
    /\ cast' = [cast EXCEPT !["text"] = Append(@, taken)]
    /\ step' = "line"
    /\ UNCHANGED <<arrived, taken, console_buffer, line_buffer, console_lines, reader, up>>

\* line_buffer.split_once("\n"): what is before and after the first newline.
\* Mutant: what is after it is dropped.
RestDropped(b, i) == <<>>
Rest(b, i) == SubSeq(b, i + 1, Len(b))

\* One line is taken out of the buffer, if there is one.
CutLine ==
    LET b == line_buffer \o arrived[taken]
        ends == {i \in DOMAIN b : b[i] = NewLine}
    IN  /\ step = "line"
        /\ \/ /\ ends = {}
              /\ line_buffer' = b
              /\ step' = "recv"
              /\ UNCHANGED console_lines
           \/ \E i \in ends :
                 /\ \A j \in ends : i <= j
                 /\ line_buffer' = Rest(b, i)
                 /\ console_lines' = Append(console_lines, SubSeq(b, 1, i - 1))
                 /\ step' = "cast"
        /\ UNCHANGED <<arrived, taken, console_buffer, cast, reader, up>>

CastLine ==
    /\ step = "cast"
    /\ cast' = [cast EXCEPT !["line"] = Append(@, Len(console_lines))]
    /\ step' = "recv"
    /\ UNCHANGED <<arrived, taken, console_buffer, line_buffer, console_lines, reader, up>>

\* The queue is closed and empty.
\* Mutant: the task stops with packets in the queue.
DrainedAlways == TRUE
Drained == taken = Len(arrived)

TaskEnds ==
    /\ step = "recv"
    /\ ~up
    /\ Drained
    /\ step' = "ended"
    /\ UNCHANGED <<arrived, taken, console_buffer, line_buffer, console_lines, cast, reader, up>>

-----------------------------------------------------------------------------
(* The streams. *)

\* Mutant: the receiver is cloned, and gets what is in the channel.
PositionClone(c) == Dropped(cast[c], Capacity)
Position(c) == NewReceiver(cast[c])

\* stream, line_stream, stream_no_history, line_stream_no_history.  The history
\* is copied and the receiver made with the history's mutex held.
Open(r, c, h) ==
    /\ reader[r].channel = "none"
    /\ reader' = [reader EXCEPT ![r] =
          [channel |-> c, history |-> h, next |-> Position(c), lagged |-> FALSE,
           first |-> IF h THEN 1 ELSE Position(c) + 1,
           got |-> IF h THEN [i \in 1..History(c) |-> i] ELSE <<>>]]
    /\ UNCHANGED <<arrived, taskVars, up>>

\* A stream skips what has overflowed.
ReadNext(r) ==
    LET c == reader[r].channel
        n == reader[r].next
    IN  /\ c # "none"
        /\ \/ /\ Ready(cast[c], Capacity, n)
              /\ reader' = [reader EXCEPT ![r].next = n + 1,
                                          ![r].got = Append(@, Message(cast[c], n))]
           \/ /\ Overflowed(cast[c], Capacity, n)
              /\ reader' = [reader EXCEPT ![r].next = Dropped(cast[c], Capacity),
                                          ![r].lagged = TRUE]
        /\ UNCHANGED <<arrived, taskVars, up>>

-----------------------------------------------------------------------------
\* External: the Crazyflie, and the end of the connection.
Arrive(x) ==
    /\ up
    /\ Len(arrived) < MaxPackets
    /\ arrived' = Append(arrived, x)
    /\ UNCHANGED <<taskVars, reader, up>>

Lose == up /\ up' = FALSE /\ UNCHANGED <<arrived, taskVars, reader>>

Task == Keep \/ CastText \/ CutLine \/ CastLine \/ TaskEnds

Next ==
    \/ Task \/ Lose
    \/ \E x \in Texts : Arrive(x)
    \/ \E r \in Readers : \/ \E c \in Channels, h \in BOOLEAN : Open(r, c, h)
                          \/ ReadNext(r)

Spec == Init /\ [][Next]_vars

\* The task and the readers go on when they can.
Fairness == WF_vars(Task) /\ \A r \in Readers : WF_vars(ReadNext(r))

-----------------------------------------------------------------------------
(* Properties *)

\* What a stream has given and will give of what the history has now.
Given(r) ==
    LET s == reader[r]
        log == cast[s.channel]
    IN  s.got \o SubSeq(log, s.next + 1, Len(log))
              \o [i \in 1..(History(s.channel) - Len(log)) |-> Len(log) + i]

\* first, first + 1, ..., n, once each but for a repetition of one of them.
Seamed(s, first, n) ==
    LET whole == [i \in 1..(n - first + 1) |-> first + i - 1]
    IN  \/ s = whole
        \/ \E k \in first..n :
              s = SubSeq(whole, 1, k - first + 1) \o SubSeq(whole, k - first + 1, Len(whole))

\* A stream that keeps up loses nothing between the history and what is
\* broadcast, whenever it is opened; what comes in at that moment is given at
\* most twice, and the order is kept (console.rs:131, console.rs:99).
Gapless ==
    \A r \in Readers :
        LET c == reader[r].channel
        IN  c # "none" /\ ~reader[r].lagged /\ ~Overflowed(cast[c], Capacity, reader[r].next)
                => Seamed(Given(r), reader[r].first, History(c))

\* The lines and what is left in the buffer are the text, to the character,
\* however it is cut into packets (console.rs:104).
LinesExact ==
    FlattenSeq([i \in DOMAIN console_lines |-> Append(console_lines[i], NewLine)]) \o line_buffer
        = FlattenSeq(SubSeq(arrived, 1, IF step \in {"text", "line"} THEN taken - 1 ELSE taken))

\* Neither a stream nor a line loses any text.
StreamsWhole == Gapless /\ LinesExact

\* The stream has not given yet some text that came in since it was opened.
TextToGive(r) ==
    reader[r].channel = "text" /\ ~reader[r].lagged /\
    \E i \in reader[r].first..Len(arrived) : i \notin Range(reader[r].got)
=============================================================================
