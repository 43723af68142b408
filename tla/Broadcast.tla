------------------------------ MODULE Broadcast -----------------------------
(***************************************************************************)
(* A channel of the crate async_broadcast in overflow mode, as console.rs  *)
(* and localization.rs use it: a message is never refused, the oldest one  *)
(* makes room when capacity messages are kept.  A channel is the sequence  *)
(* of all messages ever broadcast; a receiver is the number of messages    *)
(* before the next one it will get.                                        *)
(***************************************************************************)
EXTENDS Naturals, Sequences

\* Messages that were dropped to make room.
Dropped(log, capacity) == IF Len(log) > capacity THEN Len(log) - capacity ELSE 0

\* A message the receiver has not got has been dropped.
Overflowed(log, capacity, next) == next < Dropped(log, capacity)

\* There is a message for the receiver, and which one.
Ready(log, capacity, next) == Dropped(log, capacity) <= next /\ next < Len(log)
Message(log, next) == log[next + 1]

\* A new_receiver() gets what comes from now on; a clone() gets what the
\* receiver it is made of would get.
NewReceiver(log) == Len(log)
=============================================================================
