------------------------------- MODULE Session -------------------------------
(***************************************************************************)
(* What a Crazyflie object promises the program that uses it, whatever     *)
(* runs behind it: packets the object has taken from its subsystems are    *)
(* handed to the radio link in the order they were taken, none twice, and  *)
(* once a call of disconnect() has returned nothing is taken and nothing   *)
(* is handed over any more.  Connection implements this specification.     *)
(***************************************************************************)
EXTENDS Naturals, Sequences

CONSTANT Packets    \* what the subsystems may ask the object to send

VARIABLES
    accepted,       \* packets taken from the subsystems, in order
    sent,           \* packets handed to the link, in order
    closed          \* a call of disconnect() has returned

vars == <<accepted, sent, closed>>

Init == accepted = <<>> /\ sent = <<>> /\ closed = FALSE

\* A subsystem's send_async returns Ok.
Accept(p) ==
    /\ ~closed
    /\ accepted' = Append(accepted, p)
    /\ UNCHANGED <<sent, closed>>

\* The link takes the oldest packet it has not been given.
HandOver ==
    /\ ~closed
    /\ Len(sent) < Len(accepted)
    /\ sent' = Append(sent, accepted[Len(sent) + 1])
    /\ UNCHANGED <<accepted, closed>>

\* disconnect() returns; what was accepted and not handed over is lost.
Close == closed' = TRUE /\ UNCHANGED <<accepted, sent>>

Next == (\E p \in Packets : Accept(p)) \/ HandOver \/ Close

Spec == Init /\ [][Next]_vars
=============================================================================
