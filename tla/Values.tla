------------------------------- MODULE Values -------------------------------
(***************************************************************************)
(* The typed values of value.rs: what they become as a double, as bytes,   *)
(* and back.  Parameters are set and read as doubles by set_lossy and      *)
(* get_lossy (param.rs), log samples come as bytes (log.rs).               *)
(*                                                                         *)
(* A number is <<"finite", h>>, which is h halves, <<"inf", 1>>,           *)
(* <<"inf", -1>> or <<"nan", 0>>.  The widths of the types and the         *)
(* precision of the floating point types are parameters: TLC keeps 8 and   *)
(* 16 bits, and makes the wider types narrower in the same order (f16 <    *)
(* u16, f32 < u32 < f64 < u64).  A byte of a type that was made narrower   *)
(* is a digit of as many bits as fit.                                      *)
(*                                                                         *)
(* A behaviour is one call: its arguments, then its answer.                *)
(***************************************************************************)
EXTENDS Integers, Sequences

CONSTANTS
    Width,      \* bits of each integer type, named as in ValueType
    Precision,  \* significant bits of each floating point type
    Samples     \* the numbers tried

Unsigned == {"U8", "U16", "U32", "U64"}
Signed == {"I8", "I16", "I32", "I64"}
IntTypes == Unsigned \union Signed
FloatTypes == {"F16", "F32", "F64"}
ValueTypes == IntTypes \union FloatTypes

\* What the constants have to be.
ConstantsOK ==
    /\ Width \in [IntTypes -> Nat]
    /\ Precision \in [FloatTypes -> Nat]
    /\ Samples \subseteq {"finite", "inf", "nan"} \X Int

VARIABLES
    call,       \* what was asked, or NotAsked
    answer      \* what it gave, a number or ConversionError

vars == <<call, answer>>

NotAsked == [op |-> "none"]
ConversionError == <<"error", 0>>
Integer(v) == <<"finite", 2 * v>>
Zero == Integer(0)

Lowest(t) == IF t \in Signed THEN -(2^(Width[t] - 1)) ELSE 0
Highest(t) == IF t \in Signed THEN 2^(Width[t] - 1) - 1 ELSE 2^Width[t] - 1

Sign(h) == IF h < 0 THEN -1 ELSE 1
Magnitude(h) == Sign(h) * h
Truncated(h) == Sign(h) * (Magnitude(h) \div 2)

-----------------------------------------------------------------------------
(* Between numbers and types. *)

\* "as u64", "as i64": a Rust cast of a double stops at the ends of the type.
Saturated(x, t) ==
    LET v == Truncated(x[2])
    IN  CASE x[1] = "nan" -> 0
          [] x[1] = "inf" -> IF x[2] > 0 THEN Highest(t) ELSE Lowest(t)
          [] OTHER -> IF v < Lowest(t) THEN Lowest(t)
                      ELSE IF v > Highest(t) THEN Highest(t) ELSE v

\* "as u8" of a wide integer: its low bits.
Wrapped(v, t) ==
    LET low == v % 2^Width[t]
    IN  IF low > Highest(t) THEN low - 2^Width[t] ELSE low

\* The nearest number with so many significant bits, the even one of two.
Rounded(h, bits) ==
    LET a == Magnitude(h)
        used == CHOOSE n \in 0..31 : a < 2^n /\ (n = 0 \/ a >= 2^(n - 1))
        unit == IF used > bits THEN 2^(used - bits) ELSE 1
        floor == a \div unit
        up == \/ 2 * (a % unit) > unit
              \/ 2 * (a % unit) = unit /\ floor % 2 = 1
    IN  Sign(h) * unit * (IF up THEN floor + 1 ELSE floor)

LargestF16 == 65504

AsFloat(x, t) ==
    IF x[1] # "finite" THEN x
    ELSE LET h == Rounded(x[2], Precision[t])
         IN  IF t = "F16" /\ Magnitude(h) > 2 * LargestF16
             THEN <<"inf", Sign(h)>>
             ELSE <<"finite", h>>

\* An integer goes by the widest type of its sign.
Wide(t) == IF t \in Signed THEN "I64" ELSE "U64"

\* Mutant: a cast to the type itself, which stops at its ends.
FromF64Saturating(t, x) ==
    IF t \in FloatTypes THEN AsFloat(x, t) ELSE Integer(Saturated(x, t))

\* Mutant: an unsigned type by way of the wide signed one.
FromF64Signed(t, x) ==
    IF t \in FloatTypes THEN AsFloat(x, t)
    ELSE Integer(Wrapped(Saturated(x, "I64"), t))

from_f64_lossy(t, x) ==
    IF t \in FloatTypes THEN AsFloat(x, t)
    ELSE Integer(Wrapped(Saturated(x, Wide(t)), t))

to_f64_lossy(x) == AsFloat(x, "F64")

-----------------------------------------------------------------------------
(* Between values and bytes, for the integers.  The bytes of a float are   *)
(* those of the unsigned integer of its length.                            *)

byte_length(t) ==
    CASE t \in {"U8", "I8"} -> 1
      [] t \in {"U16", "I16", "F16"} -> 2
      [] t \in {"U32", "I32", "F32"} -> 4
      [] t \in {"U64", "I64", "F64"} -> 8

Base(t) == 2^(Width[t] \div byte_length(t))

to_le_bytes(t, v) ==
    [k \in 1..byte_length(t) |-> (v \div Base(t)^(k - 1)) % Base(t)]

RECURSIVE FromDigits(_, _)
FromDigits(bytes, base) ==
    IF bytes = <<>> THEN 0 ELSE Head(bytes) + base * FromDigits(Tail(bytes), base)

\* Mutant: without the sign.
FromLeBytesUnsigned(t, bytes) ==
    IF Len(bytes) # byte_length(t) THEN ConversionError
    ELSE Integer(FromDigits(bytes, Base(t)))

from_le_bytes(t, bytes) ==
    IF Len(bytes) # byte_length(t) THEN ConversionError
    ELSE Integer(Wrapped(FromDigits(bytes, Base(t)), t))

-----------------------------------------------------------------------------

Init == call = NotAsked /\ answer = Zero

\* The values of a type among the samples.
Values(t) ==
    IF t \in FloatTypes THEN {x \in Samples : AsFloat(x, t) = x}
    ELSE {Integer(Truncated(x[2])) : x \in {y \in Samples :
             y[1] = "finite" /\ Truncated(y[2]) \in Lowest(t)..Highest(t)}}

\* Param::set_lossy: a double becomes a value of the type of the parameter.
SetLossy(t, x) ==
    /\ call = NotAsked
    /\ call' = [op |-> "set", type |-> t, number |-> x]
    /\ answer' = from_f64_lossy(t, x)

\* Param::get_lossy of a value, and a set_lossy with what it gave.
WriteBack(t, x) ==
    /\ call = NotAsked
    /\ call' = [op |-> "back", type |-> t, number |-> x]
    /\ answer' = from_f64_lossy(t, to_f64_lossy(x))

\* The bytes of a value, with some missing or too many, read as that type.
Transfer(t, x, n) ==
    /\ call = NotAsked
    /\ call' = [op |-> "bytes", type |-> t, number |-> x, length |-> n]
    /\ LET bytes == to_le_bytes(t, Truncated(x[2])) \o <<0>>
       IN  answer' = from_le_bytes(t, SubSeq(bytes, 1, n))

Next ==
    \/ \E t \in ValueTypes, x \in Samples : SetLossy(t, x)
    \/ \E t \in ValueTypes : \E x \in Values(t) : WriteBack(t, x)
    \/ \E t \in IntTypes : \E x \in Values(t), n \in 0..(byte_length(t) + 1) :
          Transfer(t, x, n)

Spec == Init /\ [][Next]_vars

-----------------------------------------------------------------------------

\* A value that a call gave is one of its type.
AnswerOfType ==
    call # NotAsked /\ answer # ConversionError =>
        IF call.type \in FloatTypes THEN AsFloat(answer, call.type) = answer
        ELSE /\ answer[2] % 2 = 0
             /\ Truncated(answer[2]) \in Lowest(call.type)..Highest(call.type)

\* "When making an integer, the value is truncated to the number of bit of
\* the parameter" (value.rs:204): a number the type holds is kept but for its
\* fraction, and one it does not hold agrees in the low bits, as long as the
\* widest type holds it.  A negative number is 0 in an unsigned type.
LossyInteger ==
    call.op = "set" /\ call.type \in IntTypes =>
        LET t == call.type
            v == Truncated(call.number[2])
            given == Truncated(answer[2])
        IN  CASE call.number[1] = "nan" -> given = 0
              [] call.number[1] = "finite" /\ v \in Lowest(t)..Highest(t) -> given = v
              [] call.number[1] = "finite" /\ v \in Lowest(Wide(t))..Highest(Wide(t)) ->
                    (given - v) % 2^Width[t] = 0
              [] t \in Unsigned /\ call.number[2] < 0 -> given = 0
              [] OTHER -> TRUE

\* Setting a parameter to what get_lossy gave changes nothing that get_lossy
\* can see, at the ends of the widest types too, and nothing at all where a
\* double holds every value of the type.
WriteBackHarmless ==
    call.op = "back" =>
        /\ to_f64_lossy(answer) = to_f64_lossy(call.number)
        /\ \/ call.type \in IntTypes /\ Width[call.type] > Precision["F64"]
           \/ answer = call.number

\* Bytes of the right number give the value back, sign and all, and any other
\* number of them is refused: a sample of the log or an answer about a
\* parameter that is cut is never read as a value.
BytesRight ==
    call.op = "bytes" =>
        answer = IF call.length = byte_length(call.type)
                 THEN call.number ELSE ConversionError

\* The conversions of a value.
ValuesRight == LossyInteger /\ WriteBackHarmless /\ BytesRight
=============================================================================
