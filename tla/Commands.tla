------------------------------ MODULE Commands ------------------------------
(***************************************************************************)
(* The calls that send one packet and wait for nothing: setpoints          *)
(* (commander.rs), the high-level commander (high_level_commander.rs),     *)
(* emergency stops and external positions (localization.rs), the commands  *)
(* of the platform and the app channel (platform.rs).                      *)
(*                                                                         *)
(* What can go wrong is that the Crazyflie takes one for another: it goes  *)
(* by the port, the channel and most often the first byte.  A float is the *)
(* four bytes of an integer.  The arguments of a call differ from the      *)
(* usual ones in one place.                                                *)
(***************************************************************************)
EXTENDS Integers, Sequences

CONSTANTS
    Numbers,        \* floats tried, a sequence, the usual one first
    Thrusts,        \* percentages of thrust tried, a sequence
    Lengths,        \* lengths of packets of the app channel tried, a sequence
    None,           \* Option::None
    MaxSent

\* The integers a float is the bytes of, but for that whose opposite is not one.
FloatMax == 2147483647
FloatBits == -FloatMax..FloatMax

\* What the constants have to be.
ConstantsOK ==
    /\ Numbers \in Seq(FloatBits)
    /\ Numbers # <<>>
    /\ None \notin Int
    /\ Thrusts \in Seq(Int)
    /\ Thrusts # <<>>
    /\ Lengths \in Seq(Nat)
    /\ Lengths # <<>>
    /\ MaxSent \in Nat

VARIABLES
    sent,       \* the packets of the calls that were Ok, with the calls
    outcome,    \* of the last call
    up          \* the uplink task is there

vars == <<sent, outcome, up>>

COMMANDER_PORT == 3
LOCALIZATION_PORT == 6
GENERIC_SETPOINT_PORT == 7
HL_COMMANDER_PORT == 8
PLATFORM_PORT == 13

APPCHANNEL_MTU == 31

-----------------------------------------------------------------------------
(* Payloads. *)

\* The first bytes of a number, and those of the first n of some floats.
Places == <<1, 256, 65536, 16777216>>
Bytes(n, size) == [k \in 1..size |-> (n \div Places[k]) % 256]
Float(v) == Bytes(v, 4)
Floats(vs, n) == [k \in 1..(4 * n) |-> Float(vs[(k + 3) \div 4])[((k + 3) % 4) + 1]]
Flag(b) == IF b THEN <<1>> ELSE <<0>>

Flags == <<FALSE, TRUE>>
Groups == <<None, 0, 3>>
Otherwise(option, default) == IF option = None THEN default ELSE option

\* The arguments tried: each choice in its place, the rest usual.
Variants(choices) ==
    {[k \in DOMAIN choices |-> IF k = at[1] THEN choices[k][at[2]] ELSE choices[k][1]] :
        at \in {p \in (DOMAIN choices) \X (1..10) : p[2] <= Len(choices[p[1]])}}

\* The packet goes to the uplink queue, which has no bound, or finds it closed.
Send(op, args, port, channel, payload) ==
    /\ Len(sent) < MaxSent
    /\ IF up
       THEN /\ sent' = Append(sent, [op |-> op, args |-> args, port |-> port,
                                     channel |-> channel, payload |-> payload])
            /\ outcome' = "Ok"
       ELSE outcome' = "Disconnected" /\ UNCHANGED sent
    /\ UNCHANGED up

Refuse(error) == Len(sent) < MaxSent /\ outcome' = error /\ UNCHANGED <<sent, up>>

-----------------------------------------------------------------------------
(* commander.rs *)

Thrusts16 == <<0, 65535>>

setpoint_rpyt ==
    \E a \in Variants(<<Numbers, Numbers, Numbers, Thrusts16>>) :
        Send("rpyt", a, COMMANDER_PORT, 0,
             Floats(<<a[1], -a[2], a[3]>>, 3) \o Bytes(a[4], 2))

\* Position, velocity_world, zdistance and hover.
SetpointTypes == [position |-> 7, velocity_world |-> 8, zdistance |-> 9, hover |-> 10]
SetpointOfFour ==
    \E op \in DOMAIN SetpointTypes :
        \E a \in Variants(<<Numbers, Numbers, Numbers, Numbers>>) :
            Send(op, a, GENERIC_SETPOINT_PORT, 0, <<SetpointTypes[op]>> \o Floats(a, 4))

\* Mutant: a cast that keeps the low bits.
Thrust16Wrapping(percentage) == (10001 + (percentage * 49999) \div 100) % 65536

\* The cast to u16 stops at its ends.
Thrust16(percentage) ==
    LET thrust == 10001 + (percentage * 49999) \div 100
    IN  IF thrust < 0 THEN 0 ELSE IF thrust > 65535 THEN 65535 ELSE thrust

setpoint_manual ==
    \E a \in Variants(<<Numbers, Numbers, Numbers, Thrusts, Flags>>) :
        Send("manual", a, GENERIC_SETPOINT_PORT, 0,
             <<11>> \o Floats(a, 3) \o Bytes(Thrust16(a[4]), 2) \o Flag(a[5]))

setpoint_stop == Send("stop", <<>>, GENERIC_SETPOINT_PORT, 0, <<0>>)

\* Mutant: the channel of the setpoints.
SetpointChannel == 0

GENERIC_CMD_CHANNEL == 1

notify_setpoint_stop ==
    \E ms \in {0, 500} :
        Send("notify", <<ms>>, GENERIC_SETPOINT_PORT, GENERIC_CMD_CHANNEL,
             <<0>> \o Bytes(ms, 4))

-----------------------------------------------------------------------------
(* high_level_commander.rs *)

ALL_GROUPS == 0
Group(option) == <<Otherwise(option, ALL_GROUPS)>>

HighLevel(op, args, payload) == Send(op, args, HL_COMMANDER_PORT, 0, payload)

set_group_mask == \E g \in {0, 3} : HighLevel("set_group_mask", <<g>>, <<0, g>>)

stop == \E a \in Variants(<<Groups>>) : HighLevel("hl_stop", a, <<3>> \o Group(a[1]))

\* Mutant: the flag is forgotten.
TowardsForgetful(type, a) ==
    <<type>> \o Group(a[4]) \o Float(a[1]) \o Float(Otherwise(a[2], 0))
      \o Flag(FALSE) \o Float(a[3])

Towards(type, a) ==
    <<type>> \o Group(a[4]) \o Float(a[1]) \o Float(Otherwise(a[2], 0))
      \o Flag(a[2] = None) \o Float(a[3])

HeightChoices == <<Numbers, <<None>> \o Numbers, Numbers, Groups>>
take_off == \E a \in Variants(HeightChoices) : HighLevel("take_off", a, Towards(7, a))
land == \E a \in Variants(HeightChoices) : HighLevel("land", a, Towards(8, a))

go_to ==
    \E a \in Variants(<<Numbers, Numbers, Numbers, Numbers, Numbers, Flags, Flags, Groups>>) :
        HighLevel("go_to", a,
            <<12>> \o Group(a[8]) \o Flag(a[6]) \o Flag(a[7]) \o Floats(a, 5))

\* Angles are in eighths of a turn; a radius may not be negative.
spiral ==
    \E a \in Variants(<< <<0, 8, -8, 9, -9>>, Numbers, Numbers, Numbers, Numbers,
                        Flags, Flags, Groups>>) :
        IF a[1] \notin -8..8 \/ a[2] < 0 \/ a[3] < 0
        THEN Refuse("InvalidArgument")
        ELSE HighLevel("spiral", a,
                <<11>> \o Group(a[8]) \o Flag(a[6]) \o Flag(a[7]) \o Floats(a, 5))

TRAJECTORY_LOCATION_MEM == 1
TRAJECTORY_TYPE_POLY4D == 0

Offsets == <<0, 1, 70000>>

define_trajectory ==
    \E a \in Variants(<< <<0, 1>>, Offsets, <<1, 2>>, <<None, 0, 1>> >>) :
        HighLevel("define_trajectory", a,
            <<6, a[1], TRAJECTORY_LOCATION_MEM, Otherwise(a[4], TRAJECTORY_TYPE_POLY4D)>>
              \o Bytes(a[2], 4) \o <<a[3]>>)

start_trajectory ==
    \E a \in Variants(<< <<0, 1>>, Numbers, Flags, Flags, Flags, Groups>>) :
        HighLevel("start_trajectory", a,
            <<13>> \o Group(a[6]) \o Flag(a[3]) \o Flag(a[4]) \o Flag(a[5])
              \o <<a[1]>> \o Float(a[2]))

-----------------------------------------------------------------------------
(* localization.rs and platform.rs *)

POSITION_CHANNEL == 0
GENERIC_CHANNEL == 1

send_emergency_stop == Send("emergency", <<>>, LOCALIZATION_PORT, GENERIC_CHANNEL, <<3>>)

send_emergency_stop_watchdog ==
    Send("watchdog", <<>>, LOCALIZATION_PORT, GENERIC_CHANNEL, <<4>>)

send_external_position ==
    \E a \in Variants(<<Numbers, Numbers, Numbers>>) :
        Send("external_position", a, LOCALIZATION_PORT, POSITION_CHANNEL, Floats(a, 3))

send_external_pose ==
    \E a \in Variants([k \in 1..7 |-> Numbers]) :
        Send("external_pose", a, LOCALIZATION_PORT, GENERIC_CHANNEL, <<8>> \o Floats(a, 7))

\* The library does not look at the length of the data.
send_short_lpp_packet ==
    \E a \in Variants(<< <<0, 3>>, << <<>>, <<3>>, <<0, 0>> >> >>) :
        Send("lpp", a, LOCALIZATION_PORT, GENERIC_CHANNEL, <<2, a[1]>> \o a[2])

\* set_cont_wave and send_arming_request.
Switches == [cont_wave |-> 0, arming |-> 1]
Switch ==
    \E op \in DOMAIN Switches, activate \in BOOLEAN :
        Send(op, <<activate>>, PLATFORM_PORT, 0, <<Switches[op]>> \o Flag(activate))

send_crash_recovery_request == Send("recovery", <<>>, PLATFORM_PORT, 0, <<2>>)

APP_CHANNEL == 2

\* AppChannelPacket::try_from, and the packet put in the sink.
AppSend ==
    \E n \in {Lengths[k] : k \in DOMAIN Lengths} :
        IF n > APPCHANNEL_MTU
        THEN Refuse("AppchannelPacketTooLarge")
        ELSE Send("app", <<n>>, PLATFORM_PORT, APP_CHANNEL, [k \in 1..n |-> 0])

\* The uplink task ends.
Lost == up /\ up' = FALSE /\ UNCHANGED <<sent, outcome>>

-----------------------------------------------------------------------------

Init == sent = <<>> /\ outcome = "Ok" /\ up = TRUE

Next ==
    \/ setpoint_rpyt \/ SetpointOfFour \/ setpoint_manual \/ setpoint_stop
    \/ notify_setpoint_stop
    \/ set_group_mask \/ stop \/ take_off \/ land \/ go_to \/ spiral
    \/ define_trajectory \/ start_trajectory
    \/ send_emergency_stop \/ send_emergency_stop_watchdog
    \/ send_external_position \/ send_external_pose \/ send_short_lpp_packet
    \/ Switch \/ send_crash_recovery_request \/ AppSend
    \/ Lost

Spec == Init /\ [][Next]_vars

-----------------------------------------------------------------------------

\* Packets have a port of four bits, a channel of two, and bytes.
TypeOK ==
    /\ outcome \in {"Ok", "Disconnected", "InvalidArgument", "AppchannelPacketTooLarge"}
    /\ up \in BOOLEAN
    /\ \A k \in DOMAIN sent :
          /\ sent[k].port \in 0..15 /\ sent[k].channel \in 0..3
          /\ \A j \in DOMAIN sent[k].payload : sent[k].payload[j] \in 0..255

\* What the Crazyflie goes by.  Setpoints of the oldest kind, external
\* positions and packets for an app have no type: their channel is their own.
Untyped == {<<COMMANDER_PORT, 0>>, <<LOCALIZATION_PORT, POSITION_CHANNEL>>,
            <<PLATFORM_PORT, APP_CHANNEL>>}
Key(p) == <<p.port, p.channel>> \o
    IF <<p.port, p.channel>> \in Untyped THEN <<>> ELSE SubSeq(p.payload, 1, 1)

\* An argument that is left out is its documented default, if it has one, and
\* percentages past either end of the thrust are the same.
Clip(percentage) ==
    IF percentage < -21 THEN -21 ELSE IF percentage > 112 THEN 112 ELSE percentage
Meaning(p) ==
    CASE p.op = "hl_stop" -> Group(p.args[1])
      [] p.op = "manual" -> [p.args EXCEPT ![4] = Clip(@)]
      [] p.op \in {"take_off", "land"} -> [p.args EXCEPT ![4] = Otherwise(@, ALL_GROUPS)]
      [] p.op \in {"go_to", "spiral"} -> [p.args EXCEPT ![8] = Otherwise(@, ALL_GROUPS)]
      [] p.op = "start_trajectory" -> [p.args EXCEPT ![6] = Otherwise(@, ALL_GROUPS)]
      [] p.op = "define_trajectory" ->
            [p.args EXCEPT ![4] = Otherwise(@, TRAJECTORY_TYPE_POLY4D)]
      [] OTHER -> p.args

\* No two calls of different functions send packets the Crazyflie could take
\* for one another: the end of low-level setpoints is not a stop of the
\* motors, a stop of the high-level commander is not that of the commander.
CommandsApart ==
    \A j, k \in DOMAIN sent : sent[j].op # sent[k].op => Key(sent[j]) # Key(sent[k])

\* Two calls of one function send the same packet exactly if they mean the
\* same: "yaw None" is not a yaw of 0, and a group mask or a trajectory type
\* that is left out is the default.
ArgumentsTold ==
    \A j, k \in DOMAIN sent :
        sent[j].op = sent[k].op =>
            (sent[j].payload = sent[k].payload <=> Meaning(sent[j]) = Meaning(sent[k]))

\* "Map thrust percentage to Crazyflie thrust value (10001 to 60000)"
\* (commander.rs:205): from 0 to 100 it is in this range, and nowhere does
\* more mean less.
ThrustMonotone ==
    \A j, k \in DOMAIN sent :
        LET Of(p) == p.payload[14] + 256 * p.payload[15]
            percentage(p) == p.args[4]
        IN  sent[j].op = "manual" /\ sent[k].op = "manual" =>
                /\ percentage(sent[j]) <= percentage(sent[k]) => Of(sent[j]) <= Of(sent[k])
                /\ (0 <= percentage(sent[j]) /\ percentage(sent[j]) <= 100) =>
                      (10001 <= Of(sent[j]) /\ Of(sent[j]) <= 60000)

\* What the Crazyflie makes of a packet is what was called.
CommandsRight == CommandsApart /\ ArgumentsTold /\ ThrustMonotone
=============================================================================
