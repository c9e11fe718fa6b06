---------------------------- MODULE SequenceLemmas ----------------------------
(***************************************************************************)
(* The elements of a sequence, and what the sequence operators the models *)
(* use (Append, Tail, concatenation, SubSeq and the removal of one       *)
(* element) do to them.  The queues of the book builders (the socket,     *)
(* event_q, the replay buffer) are sequences whose invariants are stated  *)
(* over their elements.                                                    *)
(***************************************************************************)
EXTENDS Naturals, Sequences, SequenceTheorems, TLAPS

(* The elements of a sequence.                                             *)
Elems(s) == {s[i] : i \in DOMAIN s}

LEMMA ElemsEmpty == Elems(<<>>) = {}
BY DEF Elems

LEMMA ElemsTail ==
  ASSUME NEW T, NEW s \in Seq(T), s # <<>>
  PROVE  Elems(Tail(s)) \subseteq Elems(s) /\ Head(s) \in Elems(s)
<1>1. Len(s) \in Nat \ {0}
  BY EmptySeq, LenProperties
<1>2. /\ Len(Tail(s)) = Len(s) - 1
      /\ \A i \in 1 .. Len(s) - 1 : Tail(s)[i] = s[i + 1]
      /\ Head(s) = s[1]
  BY HeadTailProperties, <1>1
<1>3. Tail(s) \in Seq(T)
  BY HeadTailProperties, <1>1
<1>. QED
  BY <1>1, <1>2, <1>3 DEF Elems

LEMMA ElemsAppend ==
  ASSUME NEW T, NEW s \in Seq(T), NEW x \in T
  PROVE  Elems(Append(s, x)) = Elems(s) \cup {x}
<1>1. /\ Len(Append(s, x)) = Len(s) + 1
      /\ \A i \in 1 .. Len(s) : Append(s, x)[i] = s[i]
      /\ Append(s, x)[Len(s) + 1] = x
      /\ Append(s, x) \in Seq(T)
  BY AppendProperties
<1>. QED
  BY <1>1 DEF Elems

LEMMA ElemsConcat ==
  ASSUME NEW T, NEW a \in Seq(T), NEW b \in Seq(T)
  PROVE  Elems(a \o b) \subseteq Elems(a) \cup Elems(b)
<1>1. /\ Len(a \o b) = Len(a) + Len(b)
      /\ \A j \in 1 .. Len(a) + Len(b) :
           (a \o b)[j] = IF j <= Len(a) THEN a[j] ELSE b[j - Len(a)]
      /\ a \o b \in Seq(T)
  BY ConcatProperties
<1>. QED
  BY <1>1 DEF Elems

LEMMA ElemsSubSeq ==
  ASSUME NEW T, NEW s \in Seq(T), NEW m \in 1 .. Len(s) + 1,
         NEW n \in m - 1 .. Len(s)
  PROVE  /\ Elems(SubSeq(s, m, n)) \subseteq Elems(s)
         /\ SubSeq(s, m, n) \in Seq(T)
<1>1. /\ SubSeq(s, m, n) \in Seq(T)
      /\ Len(SubSeq(s, m, n)) = n - m + 1
      /\ \A j \in 1 .. n - m + 1 : SubSeq(s, m, n)[j] = s[m + j - 1]
  BY SubSeqProperties
<1>. QED
  BY <1>1 DEF Elems

(* Removing one element (a lost frame) keeps only elements that were there.*)
LEMMA ElemsRemove ==
  ASSUME NEW T, NEW s \in Seq(T), NEW i \in 1 .. Len(s)
  PROVE  Elems(SubSeq(s, 1, i - 1) \o SubSeq(s, i + 1, Len(s)))
           \subseteq Elems(s)
<1> DEFINE front == SubSeq(s, 1, i - 1)
           back == SubSeq(s, i + 1, Len(s))
<1>0. /\ 1 \in 1 .. Len(s) + 1 /\ i - 1 \in 1 - 1 .. Len(s)
      /\ i + 1 \in 1 .. Len(s) + 1 /\ Len(s) \in (i + 1) - 1 .. Len(s)
  OBVIOUS
<1>1. Elems(front) \subseteq Elems(s) /\ front \in Seq(T)
  BY <1>0, ElemsSubSeq
<1>2. Elems(back) \subseteq Elems(s) /\ back \in Seq(T)
  BY <1>0, ElemsSubSeq
<1>3. Elems(front \o back) \subseteq Elems(front) \cup Elems(back)
  BY <1>1, <1>2, ElemsConcat
<1>. QED
  BY <1>1, <1>2, <1>3, Zenon

(* Removing one element keeps a sequence over the same set.               *)
LEMMA RemoveType ==
  ASSUME NEW T, NEW s \in Seq(T), NEW i \in 1 .. Len(s)
  PROVE  SubSeq(s, 1, i - 1) \o SubSeq(s, i + 1, Len(s)) \in Seq(T)
<1>0. /\ 1 \in 1 .. Len(s) + 1 /\ i - 1 \in 1 - 1 .. Len(s)
      /\ i + 1 \in 1 .. Len(s) + 1 /\ Len(s) \in (i + 1) - 1 .. Len(s)
  OBVIOUS
<1>1. SubSeq(s, 1, i - 1) \in Seq(T) /\ SubSeq(s, i + 1, Len(s)) \in Seq(T)
  BY <1>0, ElemsSubSeq
<1>. QED
  BY <1>1, ConcatProperties
=============================================================================
