----------------------------- MODULE Trajectory -----------------------------
(***************************************************************************)
(* The trajectories written to the trajectory memory (trajectory.rs): the  *)
(* compressed format, whose segments say themselves how long they are, and *)
(* the uncompressed one of fixed size.                                     *)
(*                                                                         *)
(* A coordinate stands scaled, as the format has it (millimetres, tenths   *)
(* of a degree, milliseconds), and in halves, so that there are fractions. *)
(***************************************************************************)
EXTENDS Integers, Sequences, SequencesExt

CONSTANTS
    Starts,         \* starting points tried: x, y, z and yaw
    Pieces,         \* segments tried: a duration, and four lists of coefficients
    MaxSegments

\* What the constants have to be.
ConstantsOK ==
    /\ Starts \subseteq [1..4 -> Int]
    /\ \A p \in Pieces : DOMAIN p = {"duration", "axes"}
    /\ MaxSegments \in Nat

VARIABLES
    first,      \* the CompressedStart
    path,       \* the segments that could be made
    refused,    \* the last one could not
    format,     \* the one that was asked for, or "none"
    bytes       \* what was written, Nothing, or Error

vars == <<first, path, refused, format, bytes>>

Nothing == <<-1>>
Error == <<-2>>
NaN == 2143289344   \* its bits

Sign(h) == IF h < 0 THEN -1 ELSE 1
Truncated(h) == Sign(h) * ((Sign(h) * h) \div 2)

LittleEndian(n, size) == [k \in 1..size |-> (n \div 256^(k - 1)) % 256]

-----------------------------------------------------------------------------
(* Compressed. *)

\* Both comparisons with a NaN are false, and its cast is 0.
Representable(c) == c = NaN \/ (c >= 2 * (-32768) /\ c <= 2 * 32767)
Encode(c) == LittleEndian(IF c = NaN THEN 0 ELSE Truncated(c), 2)

PackElement(e) == FlattenSeq([k \in 1..Len(e) |-> Encode(e[k])])

PackStart(start) ==
    IF \A k \in 1..4 : Representable(start[k]) THEN PackElement(start) ELSE Error

ElementLengths == {0, 1, 3, 7}
validate(e) == Len(e) \in ElementLengths

encode_type(e) ==
    CASE Len(e) = 0 -> 0 [] Len(e) = 1 -> 1 [] Len(e) = 3 -> 2 [] Len(e) = 7 -> 3

\* The cast to u16 stops at its ends.
Milliseconds(d) ==
    IF d = NaN \/ d < 0 THEN 0
    ELSE IF Truncated(d) > 65535 THEN 65535 ELSE Truncated(d)

\* Mutant: the types of the axes in the other order.
ElementTypesReversed(axes) ==
      encode_type(axes[4]) + 4 * encode_type(axes[3])
    + 16 * encode_type(axes[2]) + 64 * encode_type(axes[1])

ElementTypes(axes) ==
      encode_type(axes[1]) + 4 * encode_type(axes[2])
    + 16 * encode_type(axes[3]) + 64 * encode_type(axes[4])

PackSegment(p) ==
    IF \A a \in 1..4 : \A k \in DOMAIN p.axes[a] : Representable(p.axes[a][k])
    THEN <<ElementTypes(p.axes)>> \o LittleEndian(Milliseconds(p.duration), 2)
           \o FlattenSeq([a \in 1..4 |-> PackElement(p.axes[a])])
    ELSE Error

-----------------------------------------------------------------------------
(* Uncompressed.  The bits of a float stand for it. *)

\* Poly::from_slice: eight coefficients, the rest cut off or 0.
FromSlice(e) == [k \in 1..8 |-> IF k <= Len(e) THEN e[k] ELSE 0]

PackPoly(e) == FlattenSeq([k \in 1..8 |-> LittleEndian(FromSlice(e)[k], 4)])

\* Mutant: the duration before the polynomials.
PackPoly4DFront(p) ==
    LittleEndian(p.duration, 4) \o FlattenSeq([a \in 1..4 |-> PackPoly(p.axes[a])])

PackPoly4D(p) ==
    FlattenSeq([a \in 1..4 |-> PackPoly(p.axes[a])]) \o LittleEndian(p.duration, 4)

-----------------------------------------------------------------------------

Init ==
    /\ first \in Starts /\ path = <<>> /\ refused = FALSE
    /\ format = "none" /\ bytes = Nothing

\* CompressedSegment::new; a Poly4D of the same lists always can be made.
NewSegment(p) ==
    /\ format = "none" /\ ~refused /\ Len(path) < MaxSegments
    /\ IF \A a \in 1..4 : validate(p.axes[a])
       THEN path' = Append(path, p) /\ UNCHANGED refused
       ELSE refused' = TRUE /\ UNCHANGED path
    /\ UNCHANGED <<first, format, bytes>>

\* The first that cannot be packed ends the call with nothing written.
write_compressed ==
    /\ format = "none" /\ format' = "compressed"
    /\ LET parts == <<PackStart(first)>> \o [k \in 1..Len(path) |-> PackSegment(path[k])]
       IN  bytes' = IF \E k \in DOMAIN parts : parts[k] = Error
                    THEN Error ELSE FlattenSeq(parts)
    /\ UNCHANGED <<first, path, refused>>

\* The polynomials may have any number of coefficients.
write_uncompressed(ps) ==
    /\ format = "none" /\ path = <<>>
    /\ format' = "uncompressed" /\ path' = ps
    /\ bytes' = FlattenSeq([k \in DOMAIN ps |-> PackPoly4D(ps[k])])
    /\ UNCHANGED <<first, refused>>

Next ==
    \/ write_compressed
    \/ \E p \in Pieces : NewSegment(p) \/ write_uncompressed(<<p, p>>)

Spec == Init /\ [][Next]_vars

-----------------------------------------------------------------------------
(* Reading the memory back, as the Crazyflie has to.                       *)

Number16(b) == LET n == b[1] + 256 * b[2] IN IF n > 32767 THEN n - 65536 ELSE n

NumbersAt(b, from, count) ==
    [k \in 1..count |-> Number16(SubSeq(b, from + 2 * k - 2, from + 2 * k - 1))]

Counts == <<0, 1, 3, 7>>

\* The segments in b: the first byte says how many numbers each axis has.
RECURSIVE ReadSegments(_)
ReadSegments(b) ==
    IF b = <<>> THEN <<>>
    ELSE LET n == [a \in 1..4 |-> Counts[1 + ((b[1] \div 4^(a - 1)) % 4)]]
             at == <<4, 4 + 2 * n[1], 4 + 2 * (n[1] + n[2]), 4 + 2 * (n[1] + n[2] + n[3])>>
             next == at[4] + 2 * n[4]
         IN  <<[duration |-> b[2] + 256 * b[3],
                axes |-> [a \in 1..4 |-> NumbersAt(b, at[a], n[a])]]>>
               \o ReadSegments(SubSeq(b, next, Len(b)))

\* Within one unit, and not farther from zero; a NaN is 0.
Close(n, c) ==
    IF c = NaN THEN n = 0
    ELSE /\ 2 * n - c \in {-1, 0, 1}
         /\ IF c < 0 THEN 2 * n >= c ELSE 2 * n <= c

CloseAll(ns, cs) == Len(ns) = Len(cs) /\ \A k \in DOMAIN cs : Close(ns[k], cs[k])

InRange(c) == c = NaN \/ c \in (-65536)..65534

WholeInRange ==
    /\ \A k \in 1..4 : InRange(first[k])
    /\ \A s \in DOMAIN path, a \in 1..4 :
          \A k \in DOMAIN path[s].axes[a] : InRange(path[s].axes[a][k])

\* Bytes are bytes, and what was made is a list of segments.
TypeOK ==
    /\ first \in Starts /\ Len(path) <= MaxSegments
    /\ bytes \in {Nothing, Error} \/ \A k \in DOMAIN bytes : bytes[k] \in 0..255

\* A compressed trajectory that is written reads back as the start and the
\* segments it was made of, each coordinate within one unit: no segment takes
\* bytes of the next, whatever their lengths.  "Returns an error if any
\* coordinate is out of the representable range" (trajectory.rs:250), and
\* then only.
CompressedReadsBack ==
    format = "compressed" =>
        IF ~WholeInRange THEN bytes = Error
        ELSE LET segments == ReadSegments(SubSeq(bytes, 9, Len(bytes)))
             IN  /\ CloseAll(NumbersAt(bytes, 1, 4), first)
                 /\ Len(segments) = Len(path)
                 /\ \A s \in DOMAIN path :
                       /\ segments[s].duration = Milliseconds(path[s].duration)
                       /\ \A a \in 1..4 : CloseAll(segments[s].axes[a], path[s].axes[a])

\* A piece of an uncompressed trajectory is 132 bytes, and each coefficient
\* lies at the place of its axis and its power, whatever came before.
UncompressedInPlace ==
    format = "uncompressed" =>
        /\ Len(bytes) = 132 * Len(path)
        /\ \A s \in DOMAIN path, a \in 1..4, k \in 1..8 :
              LET at == 132 * (s - 1) + 32 * (a - 1) + 4 * (k - 1)
                  e == path[s].axes[a]
              IN  SubSeq(bytes, at + 1, at + 4)
                    = LittleEndian(IF k \in DOMAIN e THEN e[k] ELSE 0, 4)

\* Both formats of a trajectory.
TrajectoriesRight == CompressedReadsBack /\ UncompressedInPlace
=============================================================================
