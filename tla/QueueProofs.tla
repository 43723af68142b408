----------------------------- MODULE QueueProofs -----------------------------
(***************************************************************************)
(* Lemmas about the queues of the other modules: what is in a queue when   *)
(* its first packet is taken, when one is added and when it is cut short.  *)
(***************************************************************************)
EXTENDS Integers, Sequences, SequenceTheorems, TLAPS

\* The packets of a queue, the first one and the rest.
LEMMA QueueFacts ==
    ASSUME NEW S, NEW q \in Seq(S)
    PROVE  /\ Len(q) \in Nat /\ \A i \in 1..Len(q) : q[i] \in S
           /\ q # <<>> => /\ Len(q) \in Nat \ {0} /\ Head(q) = q[1] /\ Head(q) \in S
                          /\ 1 \in 1..Len(q) /\ Tail(q) \in Seq(S)
                          /\ Len(Tail(q)) = Len(q) - 1
                          /\ \A i \in 1..Len(Tail(q)) :
                                Tail(q)[i] = q[i + 1] /\ i + 1 \in 1..Len(q) /\ i + 1 # 1
<1>1. Len(q) \in Nat /\ \A i \in 1..Len(q) : q[i] \in S
  BY LenProperties, ElementOfSeq
<1>2. ASSUME q # <<>>
      PROVE  /\ Len(q) \in Nat \ {0} /\ Head(q) = q[1] /\ Head(q) \in S
             /\ 1 \in 1..Len(q) /\ Tail(q) \in Seq(S)
             /\ Len(Tail(q)) = Len(q) - 1
             /\ \A i \in 1..Len(Tail(q)) :
                   Tail(q)[i] = q[i + 1] /\ i + 1 \in 1..Len(q) /\ i + 1 # 1
  <2>1. Len(q) \in Nat \ {0}
    BY <1>2, EmptySeq
  <2> DEFINE t == Tail(q)
  <2>2. t \in Seq(S) /\ Len(t) = Len(q) - 1 /\ \A i \in 1..Len(t) : t[i] = q[i + 1]
    BY <1>2, HeadTailProperties
  <2> HIDE DEF t
  <2>3. \A i \in 1..Len(t) : i + 1 \in 1..Len(q) /\ i + 1 # 1
    BY <2>1, <2>2
  <2>4. Head(q) = q[1] /\ 1 \in 1..Len(q)
    BY <2>1
  <2> QED BY <1>1, <2>1, <2>2, <2>3, <2>4 DEF t
<1> QED BY <1>1, <1>2

\* A packet more.
LEMMA AppendFacts ==
    ASSUME NEW S, NEW q \in Seq(S), NEW x \in S
    PROVE  /\ Append(q, x) \in Seq(S) /\ Len(Append(q, x)) = Len(q) + 1
           /\ Append(q, x)[Len(q) + 1] = x
           /\ \A i \in 1..Len(q) : Append(q, x)[i] = q[i]
           /\ \A i \in 1..Len(Append(q, x)) : i \in 1..Len(q) \/ i = Len(q) + 1
<1> DEFINE a == Append(q, x)
<1>1. /\ a \in Seq(S) /\ Len(a) = Len(q) + 1 /\ a[Len(q) + 1] = x /\ Len(q) \in Nat
      /\ \A i \in 1..Len(q) : a[i] = q[i]
  BY AppendProperties, LenProperties
<1> HIDE DEF a
<1>2. \A i \in 1..Len(a) : i \in 1..Len(q) \/ i = Len(q) + 1
  BY <1>1
<1> QED BY <1>1, <1>2 DEF a

\* The part of q that begins after its first s elements and has n of them.
LEMMA PartFacts ==
    ASSUME NEW S, NEW q \in Seq(S), NEW s \in Nat, NEW n \in Nat, s + n <= Len(q)
    PROVE  /\ SubSeq(q, s + 1, s + n) \in Seq(S) /\ Len(SubSeq(q, s + 1, s + n)) = n
           /\ \A i \in 1..n : SubSeq(q, s + 1, s + n)[i] = q[s + i] /\ s + i \in 1..Len(q)
<1>1. Len(q) \in Nat /\ \A i \in 1..Len(q) : q[i] \in S
  BY QueueFacts
<1>2. s + 1 \in Int /\ s + n \in Int /\ \A i \in (s + 1)..(s + n) : q[i] \in S
  BY <1>1
<1>3. /\ (IF s + 1 <= s + n THEN s + n - (s + 1) + 1 ELSE 0) = n /\ s + n - (s + 1) + 1 = n
      /\ \A i \in 1..n : s + 1 + i - 1 = s + i /\ s + i \in 1..Len(q)
  BY <1>1
<1> QED BY <1>2, <1>3, SubSeqProperties

\* The first n packets.
LEMMA PrefixFacts ==
    ASSUME NEW S, NEW q \in Seq(S), NEW n \in 0..Len(q)
    PROVE  /\ SubSeq(q, 1, n) \in Seq(S) /\ Len(SubSeq(q, 1, n)) = n
           /\ \A i \in 1..n : SubSeq(q, 1, n)[i] = q[i] /\ i \in 1..Len(q)
<1>1. Len(q) \in Nat /\ \A i \in 1..Len(q) : q[i] \in S
  BY QueueFacts
<1>2. \A i \in 1..n : q[i] \in S
  BY <1>1
<1>3. n \in Int /\ (IF 1 <= n THEN n - 1 + 1 ELSE 0) = n /\ n - 1 + 1 = n
      /\ \A i \in 1..n : 1 + i - 1 = i /\ i \in 1..Len(q)
  BY <1>1
<1> QED BY <1>2, <1>3, SubSeqProperties

\* No packet at all.
LEMMA EmptyFacts == ASSUME NEW S PROVE <<>> \in Seq(S) /\ Len(<<>>) = 0
  BY EmptySeq
=============================================================================
