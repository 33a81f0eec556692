---------------------------- MODULE StreamProofs ----------------------------
(* The stop filter cuts a stream where the text is cut, for any stop        *)
(* sequences and any way to split the text into deltas; a stream is         *)
(* accounted for once, as what its client has seen of it; what it shows is  *)
(* what it has read, and what it says when it ends well is what the answer  *)
(* that is built of the same events says, for every answer, order of events *)
(* and fault.                                                               *)
EXTENDS ResponseStreams, SequenceTheorems, FiniteSetTheorems, WellFoundedInduction, TLAPS

(* The longest stop sequence bounds them all. *)
LEMMA LongestBounds ==
  /\ Longest \in Nat
  /\ \A stop \in Stops : Len(stop) \in 1 .. Longest /\ stop \in Seq(Letters)
<1>1. \A stop \in Stops : stop \in Seq(Letters) /\ stop # <<>>
  BY StopAssumption
<1>2. \A stop \in Stops : Len(stop) \in Nat \ {0}
  BY <1>1, EmptySeq
<1>3. CASE Stops = {}
  BY <1>3 DEF Longest
<1>4. CASE Stops # {}
  <2> DEFINE IsLongest(stop) == \A other \in Stops : Len(other) <= Len(stop)
             longest == CHOOSE stop \in Stops : IsLongest(stop)
  <2>1. longest \in Stops /\ IsLongest(longest)
    BY <1>4, StopAssumption
  <2>2. Longest = Len(longest)
    BY <1>4 DEF Longest
  <2> QED
    BY <2>1, <2>2, <1>1, <1>2
<1> QED
  BY <1>3, <1>4

(* A set of natural numbers that is not empty has a least element. *)
LEMMA LeastNatural ==
  ASSUME NEW S \in SUBSET Nat, S # {}
  PROVE  \E i \in S : \A j \in S : i <= j
<1>1. \A x, y \in Nat : <<x, y>> \in OpToRel(<, Nat) <=> x < y
  BY Zenon DEF OpToRel
<1>2. \E i \in S : \A j \in S : ~(<<j, i>> \in OpToRel(<, Nat))
  BY NatLessThanWellFounded, WFMin, Zenon
<1>3. \E i \in S : \A j \in S : ~(j < i)
  BY <1>1, <1>2, Zenon
<1> QED
  BY <1>3

(* A text with a stop sequence has a first cut. *)
LEMMA FirstCutIsLeast ==
  ASSUME NEW text \in Seq(Letters), HasStop(text)
  PROVE  /\ FirstCut(text) \in Cuts(text)
         /\ FirstCut(text) \in 0 .. Len(text)
         /\ \A j \in Cuts(text) : FirstCut(text) <= j
<1>1. Cuts(text) \subseteq Nat /\ Cuts(text) # {} /\ Cuts(text) \subseteq 0 .. Len(text)
  BY LenProperties DEF Cuts, HasStop
<1>2. \E i \in Cuts(text) : \A j \in Cuts(text) : i <= j
  BY <1>1, LeastNatural
<1> QED
  BY <1>1, <1>2 DEF FirstCut

(* The first cut is the one cut that no other precedes. *)
LEMMA FirstCutUnique ==
  ASSUME NEW text \in Seq(Letters), NEW i \in Cuts(text),
         \A j \in Cuts(text) : i <= j
  PROVE  HasStop(text) /\ FirstCut(text) = i
<1>1. HasStop(text)
  BY DEF HasStop
<1>2. Cuts(text) \subseteq Nat
  BY LenProperties DEF Cuts
<1> QED
  BY <1>1, <1>2, FirstCutIsLeast

(* Beginnings and ends of a text. *)
LEMMA BeforeIs ==
  ASSUME NEW text \in Seq(Letters), NEW n \in 0 .. Len(text)
  PROVE  /\ Before(text, n) \in Seq(Letters)
         /\ Len(Before(text, n)) = n
         /\ \A i \in 1 .. n : Before(text, n)[i] = text[i]
<1>1. \A i \in 1 .. n : text[i] \in Letters
  BY ElementOfSeq, LenProperties
<1> QED
  BY <1>1, SubSeqProperties, LenProperties DEF Before

LEMMA AfterIs ==
  ASSUME NEW text \in Seq(Letters), NEW n \in 0 .. Len(text)
  PROVE  /\ After(text, n) \in Seq(Letters)
         /\ Len(After(text, n)) = Len(text) - n
         /\ \A i \in 1 .. Len(text) - n : After(text, n)[i] = text[n + i]
<1>1. \A i \in n + 1 .. Len(text) : text[i] \in Letters
  BY ElementOfSeq, LenProperties
<1> QED
  BY <1>1, SubSeqProperties, LenProperties DEF After

LEMMA BeforeAndAfter ==
  ASSUME NEW text \in Seq(Letters), NEW n \in 0 .. Len(text)
  PROVE  Before(text, n) \o After(text, n) = text
<1>1. /\ Len(text) \in Nat /\ 1 \in 1 .. Len(text) + 1
      /\ n \in 1 - 1 .. Len(text) /\ Len(text) \in n .. Len(text)
  BY LenProperties
<1>2. SubSeq(text, 1, n) \o SubSeq(text, n + 1, Len(text)) = SubSeq(text, 1, Len(text))
  BY <1>1, ConcatAdjacentSubSeq
<1> QED
  BY <1>2, SubSeqFull DEF Before, After

(* Letters of a joined text. *)
LEMMA JoinIs ==
  ASSUME NEW s \in Seq(Letters), NEW t \in Seq(Letters)
  PROVE  /\ s \o t \in Seq(Letters)
         /\ Len(s) \in Nat /\ Len(t) \in Nat
         /\ Len(s \o t) = Len(s) + Len(t)
         /\ \A i \in 1 .. Len(s) : (s \o t)[i] = s[i]
         /\ \A i \in 1 .. Len(t) : (s \o t)[Len(s) + i] = t[i]
<1>1. Len(s) \in Nat /\ Len(t) \in Nat
  BY LenProperties
<1>2. /\ s \o t \in Seq(Letters)
      /\ Len(s \o t) = Len(s) + Len(t)
      /\ \A i \in 1 .. Len(s) + Len(t) :
           (s \o t)[i] = IF i <= Len(s) THEN s[i] ELSE t[i - Len(s)]
  BY ConcatProperties
<1>3. ASSUME NEW i \in 1 .. Len(t) PROVE (s \o t)[Len(s) + i] = t[i]
  <2>1. Len(s) + i \in 1 .. Len(s) + Len(t) /\ ~(Len(s) + i <= Len(s)) /\ Len(s) + i - Len(s) = i
    BY <1>1
  <2> QED
    BY <1>2, <2>1
<1> QED
  BY <1>1, <1>2, <1>3

LEMMA JoinAssociative ==
  \A s, t, u \in Seq(Letters) : (s \o t) \o u = s \o (t \o u)
  BY ConcatAssociative, SMTT(30)

(* A stop sequence in the second of two joined texts. *)
LEMMA StopAtShifted ==
  ASSUME NEW s \in Seq(Letters), NEW t \in Seq(Letters),
         NEW stop \in Seq(Letters), NEW i \in Nat
  PROVE  StopAt(s \o t, stop, Len(s) + i) <=> StopAt(t, stop, i)
<1>1. Len(s) \in Nat /\ Len(t) \in Nat /\ Len(stop) \in Nat
  BY LenProperties
<1>2. Len(s) + i + Len(stop) <= Len(s \o t) <=> i + Len(stop) <= Len(t)
  BY <1>1, JoinIs
<1>3. ASSUME i + Len(stop) <= Len(t), NEW k \in 1 .. Len(stop)
      PROVE  (s \o t)[Len(s) + i + k] = t[i + k]
  <2>1. i + k \in 1 .. Len(t) /\ Len(s) + i + k = Len(s) + (i + k)
    BY <1>1, <1>3
  <2> QED
    BY <2>1, JoinIs
<1> QED
  BY <1>2, <1>3 DEF StopAt

(* A stop sequence that is complete in the first of two joined texts. *)
LEMMA StopAtWithin ==
  ASSUME NEW s \in Seq(Letters), NEW t \in Seq(Letters),
         NEW stop \in Seq(Letters), NEW i \in Nat, i + Len(stop) <= Len(s)
  PROVE  StopAt(s \o t, stop, i) <=> StopAt(s, stop, i)
<1>1. Len(s) \in Nat /\ Len(t) \in Nat /\ Len(stop) \in Nat
  BY LenProperties
<1>2. i + Len(stop) <= Len(s \o t)
  BY <1>1, JoinIs
<1>3. ASSUME NEW k \in 1 .. Len(stop) PROVE (s \o t)[i + k] = s[i + k]
  <2>1. i + k \in 1 .. Len(s)
    BY <1>1
  <2> QED
    BY <2>1, JoinIs
<1> QED
  BY <1>2, <1>3 DEF StopAt

(* When the held text is long enough, the cuts of the whole are those of    *)
(* the held text and the delta.                                             *)
LEMMA CutsOfHeld ==
  ASSUME NEW s \in Seq(Letters), NEW held \in Seq(Letters), NEW delta \in Seq(Letters),
         ~HasStop(s \o held),
         s = <<>> \/ Len(held) >= Longest - 1
  PROVE  \A i \in Nat : i \in Cuts(s \o (held \o delta))
                        <=> i >= Len(s) /\ i - Len(s) \in Cuts(held \o delta)
<1> DEFINE text == held \o delta
<1>1. /\ text \in Seq(Letters) /\ s \o held \in Seq(Letters)
      /\ Len(s) \in Nat /\ Len(held) \in Nat /\ Len(delta) \in Nat /\ Len(text) \in Nat
      /\ Len(s \o held) = Len(s) + Len(held)
      /\ Len(s \o text) = Len(s) + Len(text)
  <2>1. text \in Seq(Letters) /\ s \o held \in Seq(Letters)
    BY JoinIs
  <2> QED
    BY <2>1, JoinIs, LenProperties
<1>2. s \o text = (s \o held) \o delta
  BY ConcatAssociative, SMTT(30)
<1> HIDE DEF text
<1>3. \A stop \in Stops : stop \in Seq(Letters) /\ Len(stop) \in Nat /\ Len(stop) <= Longest
                         /\ Longest \in Nat
  BY LongestBounds
<1>4. ASSUME NEW i \in Nat, NEW stop \in Stops, StopAt(s \o text, stop, i), i < Len(s)
      PROVE  FALSE
  <2>1. s # <<>>
    BY <1>1, <1>4, EmptySeq
  <2>2. i + Len(stop) <= Len(s \o held)
    BY <1>1, <1>3, <1>4, <2>1
  <2>3. StopAt(s \o held, stop, i)
    BY <1>1, <1>2, <1>3, <1>4, <2>2, StopAtWithin
  <2>4. i \in 0 .. Len(s \o held)
    BY <1>1, <1>3, <2>2
  <2> QED
    BY <2>3, <2>4 DEF HasStop, Cuts
<1>5. ASSUME NEW i \in Nat, i >= Len(s), NEW stop \in Stops
      PROVE  StopAt(s \o text, stop, i) <=> StopAt(text, stop, i - Len(s))
  <2>1. i - Len(s) \in Nat /\ Len(s) + (i - Len(s)) = i
    BY <1>1, <1>5
  <2> QED
    BY <2>1, <1>1, <1>3, StopAtShifted
<1>6. ASSUME NEW i \in Nat
      PROVE  i \in Cuts(s \o text) <=> i >= Len(s) /\ i - Len(s) \in Cuts(text)
  <2>1. CASE i < Len(s)
    BY <1>1, <1>4, <2>1 DEF Cuts
  <2>2. CASE i >= Len(s)
    <3>1. i \in 0 .. Len(s \o text) <=> i - Len(s) \in 0 .. Len(text)
      BY <1>1, <2>2
    <3> QED
      BY <1>5, <2>2, <3>1 DEF Cuts
  <2> QED
    BY <1>1, <2>1, <2>2
<1> QED
  BY <1>6 DEF text

(* Beginnings of a joined text. *)
LEMMA BeforeJoined ==
  ASSUME NEW s \in Seq(Letters), NEW t \in Seq(Letters)
  PROVE  /\ \A n \in 0 .. Len(s) : Before(s \o t, n) = Before(s, n)
         /\ \A n \in 0 .. Len(t) : Before(s \o t, Len(s) + n) = s \o Before(t, n)
         /\ Before(s \o t, Len(s \o t)) = s \o t
<1>1. s \o t \in Seq(Letters) /\ Len(s) \in Nat /\ Len(t) \in Nat /\ Len(s \o t) = Len(s) + Len(t)
  BY JoinIs
<1>2. ASSUME NEW n \in 0 .. Len(s) PROVE Before(s \o t, n) = Before(s, n)
  <2>1. n \in 0 .. Len(s \o t)
    BY <1>1
  <2>2. /\ Before(s \o t, n) \in Seq(Letters) /\ Before(s, n) \in Seq(Letters)
        /\ Len(Before(s \o t, n)) = n /\ Len(Before(s, n)) = n
        /\ \A i \in 1 .. n : Before(s \o t, n)[i] = (s \o t)[i] /\ Before(s, n)[i] = s[i]
    BY <1>1, <2>1, BeforeIs
  <2>3. \A i \in 1 .. n : (s \o t)[i] = s[i]
    BY <1>1, JoinIs
  <2> QED
    BY <2>2, <2>3, SeqEqual
<1>3. ASSUME NEW n \in 0 .. Len(t) PROVE Before(s \o t, Len(s) + n) = s \o Before(t, n)
  <2>1. Len(s) + n \in 0 .. Len(s \o t)
    BY <1>1
  <2>2. /\ Before(s \o t, Len(s) + n) \in Seq(Letters) /\ Before(t, n) \in Seq(Letters)
        /\ Len(Before(s \o t, Len(s) + n)) = Len(s) + n /\ Len(Before(t, n)) = n
        /\ \A i \in 1 .. Len(s) + n : Before(s \o t, Len(s) + n)[i] = (s \o t)[i]
        /\ \A i \in 1 .. n : Before(t, n)[i] = t[i]
    BY <1>1, <2>1, BeforeIs
  <2>3. /\ s \o Before(t, n) \in Seq(Letters)
        /\ Len(s \o Before(t, n)) = Len(s) + n
        /\ \A i \in 1 .. Len(s) : (s \o Before(t, n))[i] = s[i]
        /\ \A i \in 1 .. n : (s \o Before(t, n))[Len(s) + i] = t[i]
    <3> DEFINE b == Before(t, n)
    <3>1. b \in Seq(Letters) /\ Len(b) = n /\ \A i \in 1 .. n : b[i] = t[i]
      BY <2>2
    <3> HIDE DEF b
    <3>2. /\ s \o b \in Seq(Letters) /\ Len(s \o b) = Len(s) + Len(b)
          /\ \A i \in 1 .. Len(s) : (s \o b)[i] = s[i]
          /\ \A i \in 1 .. Len(b) : (s \o b)[Len(s) + i] = b[i]
      BY <3>1, JoinIs
    <3>3. /\ s \o b \in Seq(Letters) /\ Len(s \o b) = Len(s) + n
          /\ \A i \in 1 .. Len(s) : (s \o b)[i] = s[i]
          /\ \A i \in 1 .. n : (s \o b)[Len(s) + i] = t[i]
      BY <3>1, <3>2
    <3> QED
      BY <3>3 DEF b
  <2>4. \A i \in 1 .. Len(s) : (s \o t)[i] = s[i]
    BY JoinIs
  <2>5. \A i \in 1 .. n : (s \o t)[Len(s) + i] = t[i]
    BY <1>1, JoinIs
  <2>6. ASSUME NEW i \in 1 .. Len(s) + n
        PROVE  Before(s \o t, Len(s) + n)[i] = (s \o Before(t, n))[i]
    <3>1. CASE i <= Len(s)
      BY <1>1, <2>2, <2>3, <2>4, <3>1
    <3>2. CASE i > Len(s)
      <4>1. i - Len(s) \in 1 .. n /\ i = Len(s) + (i - Len(s))
        BY <1>1, <3>2
      <4>2. PICK j \in 1 .. n : i = Len(s) + j
        BY <4>1
      <4>3. (s \o t)[i] = t[j] /\ (s \o Before(t, n))[i] = t[j]
        BY <2>3, <2>5, <4>2
      <4>4. Before(s \o t, Len(s) + n)[i] = (s \o t)[i]
        BY <2>2
      <4> QED
        BY <4>3, <4>4
    <3>3. i <= Len(s) \/ i > Len(s)
      BY <1>1
    <3> QED
      BY <3>1, <3>2, <3>3, Zenon
  <2> QED
    BY <2>2, <2>3, <2>6, SeqEqual, ZenonT(30)
<1> QED
  BY <1>1, <1>2, <1>3, SubSeqFull DEF Before

(* The cut of a text lies before every stop sequence in it. *)
LEMMA TruncatedIs ==
  ASSUME NEW text \in Seq(Letters)
  PROVE  /\ Truncated(text) \in Seq(Letters)
         /\ Len(Truncated(text)) <= Len(text)
         /\ HasStop(text) => Len(Truncated(text)) = FirstCut(text)
  BY FirstCutIsLeast, BeforeIs, LenProperties DEF Truncated
-----------------------------------------------------------------------------
(* What is true besides: once something has been shown, all that a stop     *)
(* sequence could begin with is held back.                                  *)
StopInv ==
  /\ StopTypeOK
  /\ ShownIsCut
  /\ ~filter.stopped /\ ~ended => shown = <<>> \/ Len(filter.buffered) >= Longest - 1

(* Without stop sequences nothing is ever cut. *)
LEMMA NoStops ==
  ASSUME Longest = 0, NEW text PROVE ~HasStop(text)
<1>1. Stops = {}
  BY LongestBounds
<1> QED
  BY <1>1 DEF HasStop, Cuts

(* A push before the filter has stopped, of a text without stop sequences.  *)
LEMMA PushOn ==
  ASSUME StopInv, NEW delta \in Seq(Letters), Push(delta),
         ~filter.stopped, delta # <<>>, Longest # 0,
         ~HasStop(filter.buffered \o delta)
  PROVE  StopInv'
<1> DEFINE text == filter.buffered \o delta
           keep == Len(text) - Kept(text)
<1>1. /\ filter.buffered \in Seq(Letters) /\ said \in Seq(Letters) /\ shown \in Seq(Letters)
      /\ filter \in [buffered : Seq(Letters), stopped : BOOLEAN]
      /\ ended \in BOOLEAN /\ ~ended /\ ended' = ended /\ Longest \in Nat
      /\ ~HasStop(said) /\ shown \o filter.buffered = said
      /\ Len(filter.buffered) < Longest \/ filter.buffered = <<>>
      /\ shown = <<>> \/ Len(filter.buffered) >= Longest - 1
  BY LongestBounds DEF StopInv, StopTypeOK, ShownIsCut, Push
<1>2. /\ text \in Seq(Letters) /\ Len(text) \in Nat
      /\ Len(text) = Len(filter.buffered) + Len(delta)
      /\ Len(filter.buffered) \in Nat /\ Len(delta) \in Nat
  BY <1>1, JoinIs
<1> HIDE DEF text
<1>3. keep \in 0 .. Len(text) /\ Kept(text) \in Nat /\ Len(text) - keep = Kept(text)
  <2>1. Kept(text) \in Nat /\ Kept(text) <= Len(text)
    BY <1>1, <1>2 DEF Kept
  <2> QED
    BY <1>2, <2>1
<1>4. /\ said' = said \o delta
      /\ shown' = shown \o Before(text, keep)
      /\ filter' = [buffered |-> After(text, keep), stopped |-> FALSE]
  BY DEF Push, Shows, Filtered, text
<1> HIDE DEF keep
<1>5. /\ Before(text, keep) \in Seq(Letters) /\ After(text, keep) \in Seq(Letters)
      /\ Len(Before(text, keep)) = keep
      /\ Len(After(text, keep)) = Kept(text)
      /\ Before(text, keep) \o After(text, keep) = text
  BY <1>2, <1>3, BeforeIs, AfterIs, BeforeAndAfter
<1>6. said' = shown \o text
  <2>1. (shown \o filter.buffered) \o delta = shown \o (filter.buffered \o delta)
    BY <1>1, JoinAssociative, ZenonT(30)
  <2> QED
    BY <1>1, <1>4, <2>1 DEF text
<1>7. shown' \o filter'.buffered = said'
  <2>1. (shown \o Before(text, keep)) \o After(text, keep)
          = shown \o (Before(text, keep) \o After(text, keep))
    BY <1>1, <1>5, JoinAssociative, ZenonT(30)
  <2> QED
    BY <1>4, <1>5, <1>6, <2>1
<1>8. ~HasStop(said')
  <2>1. \A i \in Nat : i \in Cuts(shown \o text) <=> i >= Len(shown) /\ i - Len(shown) \in Cuts(text)
    BY <1>1, CutsOfHeld DEF text
  <2>2. Cuts(text) = {}
    BY DEF HasStop, text
  <2>3. Cuts(shown \o text) \subseteq Nat
    BY <1>1, <1>2, JoinIs DEF Cuts
  <2> QED
    BY <1>6, <2>1, <2>2, <2>3 DEF HasStop
<1>9. Len(filter'.buffered) < Longest
  BY <1>1, <1>2, <1>4, <1>5, SMTT(30) DEF Kept
<1>10. shown' = <<>> \/ Len(filter'.buffered) >= Longest - 1
  <2>1. CASE Len(text) < Longest
    <3>1. keep = 0 /\ Kept(text) = Len(text)
      BY <1>2, <2>1 DEF Kept, keep
    <3>2. Before(text, keep) = <<>>
      BY <1>5, <3>1, EmptySeq
    <3>3. shown' = shown
      BY <1>1, <1>4, <3>2, ConcatEmptySeq
    <3> QED
      BY <1>1, <1>2, <1>4, <1>5, <3>1, <3>3
  <2>2. CASE ~(Len(text) < Longest)
    BY <1>1, <1>4, <1>5, <2>2 DEF Kept
  <2> QED
    BY <2>1, <2>2
<1>11. StopTypeOK'
  <2>1. said' \in Seq(Letters) /\ shown' \in Seq(Letters)
    <3>1. said \o delta \in Seq(Letters)
      BY <1>1, JoinIs
    <3>2. shown \o Before(text, keep) \in Seq(Letters)
      BY <1>1, <1>5, JoinIs
    <3> QED
      BY <1>4, <3>1, <3>2
  <2>2. filter' \in [buffered : Seq(Letters), stopped : BOOLEAN]
    BY <1>4, <1>5
  <2> QED
    BY <1>1, <1>4, <1>5, <2>1, <2>2 DEF StopTypeOK
<1> QED
  BY <1>1, <1>4, <1>7, <1>8, <1>9, <1>10, <1>11 DEF StopInv, ShownIsCut

(* A push that completes a stop sequence. *)
LEMMA PushStops ==
  ASSUME StopInv, NEW delta \in Seq(Letters), Push(delta),
         ~filter.stopped, delta # <<>>, Longest # 0,
         HasStop(filter.buffered \o delta)
  PROVE  StopInv'
<1> DEFINE text == filter.buffered \o delta
           cut == FirstCut(text)
<1>1. /\ filter.buffered \in Seq(Letters) /\ said \in Seq(Letters) /\ shown \in Seq(Letters)
      /\ ended \in BOOLEAN /\ ~ended /\ ended' = ended
      /\ ~HasStop(said) /\ shown \o filter.buffered = said
      /\ shown = <<>> \/ Len(filter.buffered) >= Longest - 1
  BY DEF StopInv, StopTypeOK, ShownIsCut, Push
<1>2. text \in Seq(Letters)
  BY <1>1, JoinIs
<1>3. said' = shown \o text
  <2>1. (shown \o filter.buffered) \o delta = shown \o (filter.buffered \o delta)
    BY <1>1, JoinAssociative, ZenonT(30)
  <2> QED
    BY <1>1, <2>1 DEF Push
<1>4. /\ shown' = shown \o Before(text, cut)
      /\ filter' = [buffered |-> <<>>, stopped |-> TRUE]
  BY DEF Push, Shows, Filtered, Truncated
<1>5. \A i \in Nat : i \in Cuts(shown \o text) <=> i >= Len(shown) /\ i - Len(shown) \in Cuts(text)
  BY <1>1, CutsOfHeld
<1>6. HasStop(text)
  OBVIOUS
<1> HIDE DEF text
<1>7. cut \in Cuts(text) /\ cut \in 0 .. Len(text) /\ \A j \in Cuts(text) : cut <= j
  BY <1>2, <1>6, FirstCutIsLeast
<1> HIDE DEF cut
<1>8. /\ Len(shown) \in Nat /\ Len(text) \in Nat /\ shown \o text \in Seq(Letters)
      /\ Len(shown \o text) = Len(shown) + Len(text)
  BY <1>1, <1>2, JoinIs
<1>9. /\ Cuts(shown \o text) \subseteq Nat
      /\ Cuts(text) \subseteq Nat
  BY <1>8 DEF Cuts
<1>10. Len(shown) + cut \in Cuts(shown \o text)
  <2>1. Len(shown) + cut \in Nat /\ Len(shown) + cut >= Len(shown) /\ Len(shown) + cut - Len(shown) = cut
    BY <1>7, <1>8
  <2> QED
    BY <1>5, <1>7, <2>1
<1>11. ASSUME NEW j \in Cuts(shown \o text) PROVE Len(shown) + cut <= j
  <2>1. j \in Nat /\ j >= Len(shown) /\ j - Len(shown) \in Cuts(text)
    BY <1>5, <1>9, <1>11
  <2>2. cut <= j - Len(shown)
    BY <1>7, <2>1
  <2> QED
    BY <1>7, <1>8, <2>1, <2>2
<1>12. HasStop(shown \o text) /\ FirstCut(shown \o text) = Len(shown) + cut
  BY <1>8, <1>10, <1>11, FirstCutUnique
<1>13. Truncated(shown \o text) = shown \o Before(text, cut)
  <2>1. Before(shown \o text, Len(shown) + cut) = shown \o Before(text, cut)
    BY <1>1, <1>2, <1>7, BeforeJoined, ZenonT(30)
  <2> QED
    BY <1>12, <2>1 DEF Truncated
<1>14. Before(said', Len(said')) = said' /\ Len(said') \in 0 .. Len(said')
  <2>1. Before(shown \o text, Len(shown \o text)) = shown \o text
    BY <1>1, <1>2, BeforeJoined
  <2>2. Len(shown \o text) \in 0 .. Len(shown \o text)
    BY <1>8
  <2> QED
    BY <1>3, <2>1, <2>2
<1>15. StopTypeOK'
  <2>1. Before(text, cut) \in Seq(Letters)
    BY <1>2, <1>7, BeforeIs
  <2>2. shown \o Before(text, cut) \in Seq(Letters)
    BY <1>1, <2>1, JoinIs
  <2>3. filter' \in [buffered : Seq(Letters), stopped : BOOLEAN]
    BY <1>4, EmptySeq
  <2> QED
    BY <1>1, <1>3, <1>4, <1>8, <2>2, <2>3 DEF StopTypeOK
<1> QED
  BY <1>1, <1>3, <1>4, <1>12, <1>13, <1>14, <1>15 DEF StopInv, ShownIsCut

(* Pushes that change nothing: after the stop, or of nothing. *)
LEMMA PushIdle ==
  ASSUME StopInv, NEW delta \in Seq(Letters), Push(delta),
         Longest # 0, filter.stopped \/ delta = <<>>
  PROVE  StopInv'
<1>1. /\ said \in Seq(Letters) /\ shown \in Seq(Letters) /\ ~ended /\ ended' = ended
      /\ said' = said \o delta /\ filter' = filter /\ shown' = shown
      /\ Len(said) \in Nat /\ Len(delta) \in Nat
      /\ said' \in Seq(Letters) /\ Len(said') = Len(said) + Len(delta)
  <2>1. shown \o <<>> = shown
    BY ConcatEmptySeq DEF StopInv, StopTypeOK
  <2>2. /\ said \in Seq(Letters) /\ shown \in Seq(Letters) /\ ~ended /\ ended' = ended
        /\ said' = said \o delta /\ filter' = filter /\ shown' = shown
    BY <2>1 DEF StopInv, StopTypeOK, Push, Shows, Filtered
  <2> QED
    BY <2>2, JoinIs
<1>2. CASE filter.stopped
  <2>1. PICK n \in 0 .. Len(said) : HasStop(Before(said, n)) /\ shown = Truncated(Before(said, n))
    BY <1>2 DEF StopInv, ShownIsCut
  <2>2. n \in 0 .. Len(said') /\ Before(said', n) = Before(said, n)
    BY <1>1, BeforeJoined
  <2> QED
    BY <1>1, <1>2, <2>1, <2>2 DEF StopInv, StopTypeOK, ShownIsCut
<1>3. CASE ~filter.stopped
  <2>1. said' = said
    BY <1>1, <1>3, ConcatEmptySeq
  <2> QED
    BY <1>1, <1>3, <2>1 DEF StopInv, StopTypeOK, ShownIsCut
<1> QED
  BY <1>2, <1>3

(* Every push keeps the invariant. *)
LEMMA PushKeeps ==
  ASSUME StopInv, NEW delta \in Seq(Letters), Push(delta)
  PROVE  StopInv'
<1>1. CASE Longest = 0
  <2>1. /\ said \in Seq(Letters) /\ shown \in Seq(Letters) /\ ~ended /\ ended' = ended
        /\ ~filter.stopped /\ filter \in [buffered : Seq(Letters), stopped : BOOLEAN]
        /\ filter.buffered = <<>> /\ shown = said
    <3>1. ~filter.stopped
      BY <1>1, NoStops DEF StopInv, ShownIsCut
    <3>2. /\ filter.buffered \in Seq(Letters) /\ shown \in Seq(Letters)
          /\ shown \o filter.buffered = said
          /\ Len(filter.buffered) < 0 \/ filter.buffered = <<>>
      BY <1>1, <3>1 DEF StopInv, StopTypeOK, ShownIsCut
    <3>3. filter.buffered = <<>> /\ shown = said
      <4>1. Len(filter.buffered) \in Nat
        BY <3>2, LenProperties
      <4>2. filter.buffered = <<>>
        BY <3>2, <4>1
      <4>3. shown \o <<>> = shown
        BY <3>2, ConcatEmptySeq
      <4> QED
        BY <3>2, <4>2, <4>3
    <3> QED
      BY <3>1, <3>3 DEF StopInv, StopTypeOK, Push
  <2>2. said' = said \o delta /\ shown' = said' /\ filter' = filter /\ said' \in Seq(Letters)
    BY <1>1, <2>1, JoinIs DEF Push, Shows, Filtered
  <2>3. shown' \o filter'.buffered = said'
    BY <2>1, <2>2, ConcatEmptySeq
  <2> QED
    BY <1>1, <2>1, <2>2, <2>3, NoStops, EmptySeq, LongestBounds, SMTT(30) DEF StopInv, StopTypeOK, ShownIsCut
<1> QED
  BY <1>1, PushIdle, PushOn, PushStops

LEMMA FlushKeeps ==
  ASSUME StopInv, Flush
  PROVE  StopInv'
<1>1. /\ said \in Seq(Letters) /\ shown \in Seq(Letters) /\ filter.buffered \in Seq(Letters)
      /\ filter \in [buffered : Seq(Letters), stopped : BOOLEAN]
      /\ said' = said /\ ended' = TRUE
      /\ filter' = [filter EXCEPT !.buffered = <<>>]
  BY DEF StopInv, StopTypeOK, Flush
<1>2. filter'.buffered = <<>> /\ filter'.stopped = filter.stopped
      /\ filter' \in [buffered : Seq(Letters), stopped : BOOLEAN]
  BY <1>1, EmptySeq
<1>3. CASE filter.stopped
  <2>1. shown' = shown
    BY <1>3 DEF Flush
  <2> QED
    BY <1>1, <1>2, <1>3, <2>1 DEF StopInv, StopTypeOK, ShownIsCut
<1>4. CASE ~filter.stopped
  <2>1. shown' = said /\ ~HasStop(said)
    BY <1>4 DEF Flush, StopInv, ShownIsCut
  <2>2. shown' \o filter'.buffered = said'
    BY <1>1, <1>2, <2>1, ConcatEmptySeq
  <2> QED
    BY <1>1, <1>2, <1>4, <2>1, <2>2 DEF StopInv, StopTypeOK, ShownIsCut
<1> QED
  BY <1>3, <1>4

LEMMA StopInvInit == StopInit => StopInv
<1> SUFFICES ASSUME StopInit PROVE StopInv
  OBVIOUS
<1>1. /\ said = <<>> /\ shown = <<>> /\ ended = FALSE
      /\ filter.buffered = <<>> /\ filter.stopped = FALSE
      /\ filter = [buffered |-> <<>>, stopped |-> FALSE]
  BY DEF StopInit
<1>2. <<>> \in Seq(Letters) /\ Len(<<>>) = 0 /\ <<>> \o <<>> = <<>>
  BY EmptySeq, ConcatEmptySeq
<1>3. ~HasStop(<<>>)
  BY <1>2, LongestBounds DEF HasStop, Cuts, StopAt
<1> QED
  BY <1>1, <1>2, <1>3 DEF StopInv, StopTypeOK, ShownIsCut

LEMMA StopInvStays ==
  ASSUME StopInv, UNCHANGED stopVars
  PROVE  StopInv'
BY DEF stopVars, StopInv, StopTypeOK, ShownIsCut

LEMMA StopInvHolds == StopSpec => []StopInv
<1>1. StopInv /\ [StopNext]_stopVars => StopInv'
  <2> SUFFICES ASSUME StopInv, [StopNext]_stopVars PROVE StopInv'
    OBVIOUS
  <2>1. CASE Flush
    BY <2>1, FlushKeeps
  <2>2. ASSUME NEW delta \in Deltas, Push(delta) PROVE StopInv'
    <3>1. delta \in Seq(Letters)
      BY StopAssumption
    <3> QED
      BY <2>2, <3>1, PushKeeps
  <2>3. CASE UNCHANGED stopVars
    BY <2>3, StopInvStays
  <2> QED
    BY <2>1, <2>2, <2>3 DEF StopNext
<1> QED
  BY <1>1, StopInvInit, PTL DEF StopSpec

(* The client of a stream sees the text up to the first stop sequence,      *)
(* however upstream splits it (chatStopFilter.push).                        *)
THEOREM ShownIsCutHolds == StopSpec => []ShownIsCut
<1>1. StopInv => ShownIsCut
  BY DEF StopInv
<1> QED
  BY <1>1, StopInvHolds, PTL

(* Of two cuts of one text the earlier one, if its stop sequence is not     *)
(* complete where the later one's is, holds the later one's inside.         *)
LEMMA OverlapIsNested ==
  ASSUME NEW text \in Seq(Letters), NEW outer \in Stops, NEW inner \in Stops,
         NEW i \in Nat, NEW j \in Nat, j < i,
         StopAt(text, outer, j), StopAt(text, inner, i),
         i + Len(inner) < j + Len(outer)
  PROVE  Nested
<1>1. /\ Len(text) \in Nat /\ Len(outer) \in Nat /\ Len(inner) \in Nat
      /\ outer \in Seq(Letters) /\ inner \in Seq(Letters)
  BY LongestBounds, LenProperties
<1> DEFINE k == i - j
<1>2. k \in 1 .. Len(outer) /\ k + Len(inner) < Len(outer)
  BY <1>1
<1>3. ASSUME NEW m \in 1 .. Len(inner) PROVE outer[k + m] = inner[m]
  <2>1. k + m \in 1 .. Len(outer) /\ j + (k + m) = i + m
    BY <1>1, <1>2
  <2>2. text[j + (k + m)] = outer[k + m]
    BY <2>1 DEF StopAt
  <2>3. text[i + m] = inner[m]
    BY DEF StopAt
  <2> QED
    BY <2>1, <2>2, <2>3
<1>4. StopAt(outer, inner, k)
  BY <1>1, <1>2, <1>3 DEF StopAt
<1> QED
  BY <1>2, <1>4 DEF Nested

LEMMA StoppedCutsAsWhole ==
  ASSUME said \in Seq(Letters), NEW n \in 0 .. Len(said),
         HasStop(Before(said, n)), shown = Truncated(Before(said, n))
  PROVE  /\ HasStop(said) /\ Len(Truncated(said)) <= Len(shown)
         /\ Truncated(said) = Before(shown, Len(Truncated(said)))
         /\ ~Nested => shown = Truncated(said)
<1> DEFINE text == Before(said, n)
           rest == After(said, n)
           i == FirstCut(text)
           j == FirstCut(said)
<1>1. /\ text \in Seq(Letters) /\ rest \in Seq(Letters) /\ Len(text) = n
      /\ said = text \o rest /\ Len(said) \in Nat
  BY BeforeIs, AfterIs, BeforeAndAfter, LenProperties
<1>2. i \in Cuts(text) /\ i \in 0 .. n /\ \A x \in Cuts(text) : i <= x
  BY <1>1, FirstCutIsLeast
<1>3. shown = Before(text, i)
  BY DEF Truncated
<1> HIDE DEF text, rest, i
<1>4. PICK inner \in Stops : StopAt(text, inner, i)
  BY <1>2 DEF Cuts
<1>5. \A stop \in Stops : stop \in Seq(Letters) /\ Len(stop) \in Nat
  BY LongestBounds
<1>6. i + Len(inner) <= n
  BY <1>1, <1>4 DEF StopAt
<1>7. StopAt(said, inner, i)
  BY <1>1, <1>2, <1>4, <1>5, <1>6, StopAtWithin
<1>8. i \in Cuts(said)
  BY <1>1, <1>2, <1>7 DEF Cuts
<1>9. /\ HasStop(said) /\ j \in Cuts(said) /\ j \in 0 .. Len(said) /\ j <= i
  BY <1>8, FirstCutIsLeast DEF HasStop
<1>10. Truncated(said) = Before(said, j)
  BY <1>9 DEF Truncated
<1> HIDE DEF j
<1>11. j \in 0 .. n /\ Len(Before(said, j)) = j
  BY <1>2, <1>9, BeforeIs
<1>12. Before(said, j) = Before(text, j) /\ Before(said, i) = Before(text, i)
  BY <1>1, <1>2, <1>11, BeforeJoined
<1>13. Len(shown) = i /\ shown \in Seq(Letters)
  BY <1>1, <1>2, <1>3, BeforeIs
<1>14. Before(shown, j) = Before(text, j)
  <2>1. i \in 0 .. Len(text)
    BY <1>1, <1>2
  <2>2. After(text, i) \in Seq(Letters) /\ shown \o After(text, i) = text
    BY <1>1, <1>3, <2>1, AfterIs, BeforeAndAfter
  <2>3. j \in 0 .. Len(shown)
    BY <1>9, <1>11, <1>13
  <2>4. Before(shown \o After(text, i), j) = Before(shown, j)
    BY <1>13, <2>2, <2>3, BeforeJoined, ZenonT(30)
  <2> QED
    BY <2>2, <2>4
<1>15. ASSUME ~Nested PROVE j = i
  <2> SUFFICES ASSUME j < i PROVE FALSE
    BY <1>2, <1>9, <1>11
  <2>1. PICK outer \in Stops : StopAt(said, outer, j)
    BY <1>9 DEF Cuts
  <2>2. CASE j + Len(outer) <= n
    <3>1. StopAt(text, outer, j)
      BY <1>1, <1>5, <1>11, <2>1, <2>2, StopAtWithin
    <3>2. j \in Cuts(text)
      BY <1>1, <1>11, <3>1 DEF Cuts
    <3> QED
      BY <1>2, <1>11, <3>2
  <2>3. CASE j + Len(outer) > n
    <3>1. i + Len(inner) < j + Len(outer) /\ i \in Nat /\ j \in Nat
      BY <1>2, <1>5, <1>6, <1>11, <2>3
    <3> QED
      BY <1>7, <1>15, <2>1, <3>1, OverlapIsNested
  <2> QED
    BY <1>5, <1>11, <2>2, <2>3
<1> QED
  BY <1>3, <1>9, <1>10, <1>11, <1>12, <1>13, <1>14, <1>15

(* What has been shown at the end.                                           *)
LEMMA StopInvCuts == StopInv => StreamCutsAsWhole
<1> SUFFICES ASSUME StopInv, ended PROVE StreamCutsAsWhole
  BY DEF StreamCutsAsWhole
<1>1. said \in Seq(Letters)
  BY DEF StopInv, StopTypeOK
<1>2. CASE filter.stopped
  <2>1. PICK n \in 0 .. Len(said) : HasStop(Before(said, n)) /\ shown = Truncated(Before(said, n))
    BY <1>2 DEF StopInv, ShownIsCut
  <2> QED
    BY <1>1, <2>1, StoppedCutsAsWhole DEF StreamCutsAsWhole
<1>3. CASE ~filter.stopped
  <2>1. shown = said /\ ~HasStop(said)
    BY <1>3 DEF StopInv, ShownIsCut
  <2>2. Truncated(said) = said /\ Before(said, Len(said)) = said /\ Len(said) \in Nat
    BY <1>1, <2>1, SubSeqFull, LenProperties DEF Truncated, Before
  <2> QED
    BY <2>1, <2>2 DEF StreamCutsAsWhole
<1> QED
  BY <1>2, <1>3

(* A finished stream shows the cut of the whole text, unless one stop       *)
(* sequence lies inside another (chatStopFilter, truncateAtStopSequence).   *)
THEOREM StreamCutsAsWholeHolds == StopSpec => []StreamCutsAsWhole
BY StopInvCuts, StopInvHolds, PTL

-----------------------------------------------------------------------------
(* The accounts of a response stream (ResponseStreams).                      *)

(* Where streamChatCompletion is tells what it has written, what it knows of *)
(* the response, and that it has not accounted for the request yet.          *)
Wires ==
  /\ phase \in {"prepare", "role", "refused"} => wire = <<>>
  /\ phase \in {"first", "read", "flush", "finish"} => wire = <<"role">>
  /\ phase = "usage" => wire = <<"role", "finish">>
  /\ phase = "done" => wire = <<"role", "finish">> \/ wire = <<"role", "finish", "usage">>

Ending ==
  /\ phase \in {"prepare", "role", "first", "read", "flush", "finish", "usage", "done"} => ~chat.failed
  /\ phase \in {"flush", "finish", "usage", "done"} => chat.terminal
  /\ phase \in {"finish", "usage", "done"} => ended

(* How a stream ends: all written, an error after the role, or a client that *)
(* has left with a part of it.                                               *)
FinishedWell == chat.terminal /\ ~chat.failed /\ ended

EndsAs(outcome) ==
  \/ /\ outcome = "success" /\ FinishedWell
     /\ \/ wire = <<"role", "finish", "done">>
        \/ wire = <<"role", "finish", "usage", "done">>
  \/ outcome = "failure" /\ wire = <<"role", "error">>
  \/ /\ outcome = "canceled"
     /\ \/ wire = <<>> \/ wire = <<"role">>
        \/ /\ FinishedWell
           /\ wire = <<"role", "finish">> \/ wire = <<"role", "finish", "usage">>

Accounted ==
  /\ phase # "end" => accounts = <<>>
  /\ phase = "end" => \E outcome, usage :
       accounts = <<[outcome |-> outcome, usage |-> usage]>> /\ EndsAs(outcome)

Places == {"prepare", "role", "first", "read", "flush", "finish", "usage", "done", "refused", "end"}

AccountInv == phase \in Places /\ Wires /\ Ending /\ Accounted

LEMMA AccountInvInit == StreamInit => AccountInv
<1> SUFFICES ASSUME StreamInit PROVE AccountInv
  OBVIOUS
<1>1. phase = "prepare" /\ wire = <<>> /\ accounts = <<>> /\ ~chat.failed
  BY DEF StreamInit, NewState
<1> QED
  BY <1>1 DEF AccountInv, Places, Wires, Ending, Accounted

(* A sequence that goes on for one element is the other with it appended.    *)
LEMMA AppendIsExtension ==
  ASSUME NEW S, NEW s \in Seq(S), NEW t \in Seq(S), NEW z \in S,
         Len(t) = Len(s) + 1, \A i \in 1 .. Len(s) : t[i] = s[i], t[Len(s) + 1] = z
  PROVE  Append(s, z) = t
<1>1. Append(s, z) \in Seq(S) /\ Len(Append(s, z)) = Len(t)
  BY AppendProperties
<1>2. Len(s) \in Nat
  OBVIOUS
<1>3. \A i \in 1 .. Len(t) : Append(s, z)[i] = t[i]
  BY <1>2, AppendProperties
<1> QED
  BY <1>1, <1>3, SeqEqual

WireParts == {"role", "error", "finish", "usage", "done"}

LEMMA AppendToOne ==
  ASSUME NEW x \in WireParts, NEW z \in WireParts
  PROVE  Append(<<x>>, z) = <<x, z>>
<1> DEFINE s == <<x>>
           t == <<x, z>>
<1>1. s \in Seq(WireParts) /\ t \in Seq(WireParts)
  OBVIOUS
<1>2. /\ Len(s) = 1 /\ s[1] = x
      /\ Len(t) = 2 /\ t[1] = x /\ t[2] = z
  OBVIOUS
<1> HIDE DEF s, t
<1>3. Len(t) = Len(s) + 1
  BY <1>2
<1>4. \A i \in 1 .. Len(s) : t[i] = s[i]
  BY <1>2
<1>5. t[Len(s) + 1] = z
  BY <1>2
<1>6. Append(s, z) = t
  BY <1>1, <1>3, <1>4, <1>5, AppendIsExtension
<1> QED
  BY <1>6 DEF s, t

LEMMA AppendToTwo ==
  ASSUME NEW x \in WireParts, NEW y \in WireParts, NEW z \in WireParts
  PROVE  Append(<<x, y>>, z) = <<x, y, z>>
<1> DEFINE s == <<x, y>>
           t == <<x, y, z>>
<1>1. s \in Seq(WireParts) /\ t \in Seq(WireParts)
  OBVIOUS
<1>2. /\ Len(s) = 2 /\ s[1] = x /\ s[2] = y
      /\ Len(t) = 3 /\ t[1] = x /\ t[2] = y /\ t[3] = z
  OBVIOUS
<1> HIDE DEF s, t
<1>3. Len(t) = Len(s) + 1
  BY <1>2
<1>4. \A i \in 1 .. Len(s) : t[i] = s[i]
  BY <1>2
<1>5. t[Len(s) + 1] = z
  BY <1>2
<1>6. Append(s, z) = t
  BY <1>1, <1>3, <1>4, <1>5, AppendIsExtension
<1> QED
  BY <1>6 DEF s, t

LEMMA AppendToThree ==
  ASSUME NEW x \in WireParts, NEW y \in WireParts, NEW v \in WireParts, NEW z \in WireParts
  PROVE  Append(<<x, y, v>>, z) = <<x, y, v, z>>
<1> DEFINE s == <<x, y, v>>
           t == <<x, y, v, z>>
<1>1. s \in Seq(WireParts) /\ t \in Seq(WireParts)
  OBVIOUS
<1>2. /\ Len(s) = 3 /\ s[1] = x /\ s[2] = y /\ s[3] = v
      /\ Len(t) = 4 /\ t[1] = x /\ t[2] = y /\ t[3] = v /\ t[4] = z
  OBVIOUS
<1> HIDE DEF s, t
<1>3. Len(t) = Len(s) + 1
  BY <1>2
<1>4. \A i \in 1 .. Len(s) : t[i] = s[i]
  BY <1>2
<1>5. t[Len(s) + 1] = z
  BY <1>2
<1>6. Append(s, z) = t
  BY <1>1, <1>3, <1>4, <1>5, AppendIsExtension
<1> QED
  BY <1>6 DEF s, t

(* What each chunk makes of the wire. *)
LEMMA WireAfter ==
  /\ Append(<<"role">>, "error") = <<"role", "error">>
  /\ Append(<<"role">>, "finish") = <<"role", "finish">>
  /\ Append(<<"role", "finish">>, "usage") = <<"role", "finish", "usage">>
  /\ Append(<<"role", "finish">>, "done") = <<"role", "finish", "done">>
  /\ Append(<<"role", "finish", "usage">>, "done") = <<"role", "finish", "usage", "done">>
<1>1. \A c \in {"role", "error", "finish", "usage", "done"} : c \in WireParts
  BY DEF WireParts
<1> QED
  BY <1>1, AppendToOne, AppendToTwo, AppendToThree

(* A step that writes no account.                                            *)
LEMMA GoesOn ==
  ASSUME AccountInv, phase' \in Places \ {"end"}, phase # "end", UNCHANGED accounts, Wires', Ending'
  PROVE  AccountInv'
BY DEF AccountInv, Accounted

(* A step that writes the account and is over.                               *)
LEMMA IsAccounted ==
  ASSUME AccountInv, phase # "end", NEW outcome, NEW usage, Account(outcome, usage), EndsAs(outcome)'
  PROVE  AccountInv'
<1>1. phase' = "end" /\ accounts' = <<[outcome |-> outcome, usage |-> usage]>>
  BY DEF Account, AccountInv, Accounted
<1>2. Wires' /\ Ending'
  BY <1>1 DEF Wires, Ending
<1>3. Accounted'
  BY <1>1 DEF Accounted
<1> QED
  BY <1>1, <1>2, <1>3 DEF AccountInv, Places

(* A write to a client that has left: what the client has is a part.         *)
LEMMA LeftAccounted ==
  ASSUME AccountInv, NEW usage, Unwritten(usage), UNCHANGED <<chat, filter>> \/ phase \in {"prepare", "read"},
         phase \notin {"end", "refused"}
  PROVE  AccountInv'
<1>1. Account("canceled", usage) /\ UNCHANGED <<wire, ended>>
  BY DEF Unwritten, stopVars
<1>2. \/ wire = <<>> \/ wire = <<"role">>
      \/ /\ FinishedWell /\ phase \notin {"prepare", "read"}
         /\ wire = <<"role", "finish">> \/ wire = <<"role", "finish", "usage">>
  BY DEF AccountInv, Places, Wires, Ending, FinishedWell
<1>3. EndsAs("canceled")'
  BY <1>1, <1>2 DEF EndsAs, FinishedWell
<1> QED
  BY <1>1, <1>3, IsAccounted

LEMMA PassOnAccounts ==
  ASSUME AccountInv, NEW u, PassOn(u), chat' = u.state
  PROVE  AccountInv'
<1>1. CASE phase = "prepare" /\ u.state.failed /\ Become("refused") /\ UNCHANGED wire
  BY <1>1 DEF Become, AccountInv, Places, Wires, Ending, Accounted
<1>2. CASE phase = "prepare" /\ ~u.state.failed /\ Become("role") /\ UNCHANGED wire
  BY <1>2 DEF Become, AccountInv, Places, Wires, Ending, Accounted
<1>3. CASE phase = "read" /\ Fails(u.state.usage)
  <2>1. wire' = <<"role", "error">>
    BY <1>3, WireAfter DEF Fails, AccountInv, Wires
  <2>2. EndsAs("failure")'
    BY <2>1 DEF EndsAs
  <2> QED
    BY <1>3, <2>2, IsAccounted DEF Fails
<1>4. CASE phase = "read" /\ Unwritten(u.state.usage)
  BY <1>4, LeftAccounted
<1>5. CASE phase = "read" /\ ~u.state.failed /\ Become("read") /\ UNCHANGED wire
  BY <1>5 DEF Become, AccountInv, Places, Wires, Ending, Accounted
<1> QED
  BY <1>1, <1>2, <1>3, <1>4, <1>5 DEF PassOn

LEMMA UpstreamAccounts ==
  ASSUME AccountInv, Upstream
  PROVE  AccountInv'
<1>1. ASSUME NEW e, Deliver(e) PROVE AccountInv'
  BY <1>1, PassOnAccounts DEF Deliver
<1>2. ASSUME NEW oversized \in BOOLEAN, BodyEnds(oversized) PROVE AccountInv'
  <2>1. CASE phase = "prepare" /\ Become("refused") /\ UNCHANGED wire
    BY <2>1 DEF Become, AccountInv, Places, Wires, Ending, Accounted
  <2>2. CASE phase = "read" /\ Unwritten(chat.usage)
    BY <2>2, LeftAccounted
  <2>3. CASE phase = "read" /\ Fails(chat.usage)
    <3>1. wire' = <<"role", "error">>
      BY <2>3, WireAfter DEF Fails, AccountInv, Wires
    <3>2. EndsAs("failure")'
      BY <3>1 DEF EndsAs
    <3> QED
      BY <2>3, <3>2, IsAccounted DEF Fails
  <2>4. CASE /\ phase = "read" /\ Complete(chat, oversized)
             /\ Become("flush") /\ UNCHANGED wire
    <3>1. chat' = chat /\ chat.terminal
      BY <1>2, <2>4 DEF BodyEnds, Complete
    <3> QED
      BY <2>4, <3>1 DEF Become, AccountInv, Places, Wires, Ending, Accounted
  <2> QED
    BY <1>2, <2>1, <2>2, <2>3, <2>4 DEF BodyEnds
<1> QED
  BY <1>1, <1>2 DEF Upstream, BeginItem, TellItem, RepeatItem, FinishItem, Conclude, Disturb

LEMMA ProxyAccounts ==
  ASSUME AccountInv, Proxy
  PROVE  AccountInv'
<1>1. CASE WriteRole
  <2>1. CASE Become("first") /\ wire' = Append(wire, "role") /\ UNCHANGED stopVars
    <3>1. wire' = <<"role">> /\ UNCHANGED chat
      BY <1>1, <2>1 DEF WriteRole, AccountInv, Wires, readers
    <3> QED
      BY <1>1, <2>1, <3>1 DEF WriteRole, Become, AccountInv, Places, Wires, Ending, Accounted
  <2>2. CASE Unwritten(FALSE)
    BY <1>1, <2>2, LeftAccounted DEF WriteRole, readers, Unwritten, stopVars
  <2> QED
    BY <1>1, <2>1, <2>2 DEF WriteRole
<1>2. CASE WriteFirst
  <2>1. CASE Become("read") /\ UNCHANGED wire
    BY <1>2, <2>1 DEF WriteFirst, Become, AccountInv, Places, Wires, Ending, Accounted, readers
  <2>2. CASE Unwritten(chat.usage)
    BY <1>2, <2>2, LeftAccounted DEF WriteFirst, readers, Unwritten, stopVars
  <2> QED
    BY <1>2, <2>1, <2>2 DEF WriteFirst
<1>3. CASE ReadCanceled
  BY <1>3, LeftAccounted DEF ReadCanceled
<1>4. CASE WriteHeld
  <2>1. CASE Flush /\ Become("finish") /\ UNCHANGED wire
    <3>1. ended' /\ UNCHANGED chat
      BY <1>4, <2>1 DEF WriteHeld, Flush, readers
    <3> QED
      BY <1>4, <2>1, <3>1 DEF WriteHeld, Become, AccountInv, Places, Wires, Ending, Accounted
  <2>2. CASE Unwritten(chat.usage)
    BY <1>4, <2>2, LeftAccounted DEF WriteHeld, readers, Unwritten, stopVars
  <2> QED
    BY <1>4, <2>1, <2>2 DEF WriteHeld
<1>5. CASE WriteFinish
  <2>1. ASSUME NEW place \in {"usage", "done"}, Become(place), wire' = Append(wire, "finish"),
               UNCHANGED stopVars
        PROVE  AccountInv'
    <3>1. wire' = <<"role", "finish">> /\ UNCHANGED <<chat, ended>>
      BY <1>5, <2>1, WireAfter DEF WriteFinish, AccountInv, Wires, readers, stopVars
    <3> QED
      BY <1>5, <2>1, <3>1 DEF WriteFinish, Become, AccountInv, Places, Wires, Ending, Accounted
  <2>2. CASE Unwritten(chat.usage)
    BY <1>5, <2>2, LeftAccounted DEF WriteFinish, readers, Unwritten, stopVars
  <2> QED
    BY <1>5, <2>1, <2>2 DEF WriteFinish
<1>6. CASE WriteUsage
  <2>1. CASE Become("done") /\ wire' = Append(wire, "usage") /\ UNCHANGED stopVars
    <3>1. wire' = <<"role", "finish", "usage">> /\ UNCHANGED <<chat, ended>>
      BY <1>6, <2>1, WireAfter DEF WriteUsage, AccountInv, Wires, readers, stopVars
    <3> QED
      BY <1>6, <2>1, <3>1 DEF WriteUsage, Become, AccountInv, Places, Wires, Ending, Accounted
  <2>2. CASE Unwritten(chat.usage)
    BY <1>6, <2>2, LeftAccounted DEF WriteUsage, readers, Unwritten, stopVars
  <2> QED
    BY <1>6, <2>1, <2>2 DEF WriteUsage
<1>7. CASE WriteDone
  <2>1. CASE Account("success", chat.usage) /\ wire' = Append(wire, "done") /\ UNCHANGED stopVars
    <3>1. \/ wire' = <<"role", "finish", "done">>
          \/ wire' = <<"role", "finish", "usage", "done">>
      BY <1>7, <2>1, WireAfter DEF WriteDone, AccountInv, Wires
    <3>2. FinishedWell'
      BY <1>7, <2>1 DEF WriteDone, AccountInv, Ending, readers, stopVars, FinishedWell
    <3>3. EndsAs("success")'
      BY <3>1, <3>2 DEF EndsAs
    <3> QED
      BY <1>7, <2>1, <3>3, IsAccounted DEF WriteDone
  <2>2. CASE Unwritten(chat.usage)
    BY <1>7, <2>2, LeftAccounted DEF WriteDone, readers, Unwritten, stopVars
  <2> QED
    BY <1>7, <2>1, <2>2 DEF WriteDone
<1> QED
  BY <1>1, <1>2, <1>3, <1>4, <1>5, <1>6, <1>7 DEF Proxy

LEMMA AccountStep == AccountInv /\ [StreamNext]_streamVars => AccountInv'
<1> SUFFICES ASSUME AccountInv, [StreamNext]_streamVars PROVE AccountInv'
  OBVIOUS
<1>1. CASE ClientLeaves \/ UNCHANGED streamVars
  <2>1. UNCHANGED <<phase, wire, accounts, chat, ended>>
    BY <1>1 DEF ClientLeaves, streamVars, ours, readers, stopVars
  <2> QED
    BY <2>1 DEF AccountInv, Wires, Ending, Accounted, EndsAs, FinishedWell
<1> QED
  BY <1>1, UpstreamAccounts, ProxyAccounts DEF StreamNext

(* What the chunks of each end are. *)
LEMMA WireSets ==
  /\ ToSet(<<>>) = {} /\ ToSet(<<"role">>) = {"role"}
  /\ ToSet(<<"role", "error">>) = {"role", "error"}
  /\ ToSet(<<"role", "finish">>) = {"role", "finish"}
  /\ ToSet(<<"role", "finish", "usage">>) = {"role", "finish", "usage"}
  /\ ToSet(<<"role", "finish", "done">>) = {"role", "finish", "done"}
  /\ ToSet(<<"role", "finish", "usage", "done">>) = {"role", "finish", "usage", "done"}
BY DEF ToSet

LEMMA AccountedOnce == AccountInv => OneAccount
<1> SUFFICES ASSUME AccountInv PROVE OneAccount
  OBVIOUS
<1>1. CASE phase # "end"
  <2>1. accounts = <<>> /\ Len(accounts) = 0 /\ ~Succeeded
    BY <1>1 DEF AccountInv, Accounted, Succeeded
  <2>2. "done" \notin ToSet(wire) /\ "error" \notin ToSet(wire)
    BY <1>1, WireSets DEF AccountInv, Places, Wires
  <2>3. "finish" \in ToSet(wire) => chat.terminal /\ ~chat.failed /\ ended
    BY <1>1, WireSets DEF AccountInv, Places, Wires, Ending
  <2> QED
    BY <1>1, <2>1, <2>2, <2>3 DEF OneAccount
<1>2. CASE phase = "end"
  <2>1. PICK outcome, usage :
          accounts = <<[outcome |-> outcome, usage |-> usage]>> /\ EndsAs(outcome)
    BY <1>2 DEF AccountInv, Accounted
  <2>2. Len(accounts) = 1 /\ accounts[1].outcome = outcome /\ accounts # <<>>
    BY <2>1
  <2>3. Succeeded <=> "done" \in ToSet(wire)
    BY <2>1, <2>2, WireSets DEF Succeeded, EndsAs
  <2>4. "finish" \in ToSet(wire) => chat.terminal /\ ~chat.failed /\ ended
    BY <2>1, WireSets DEF EndsAs, FinishedWell
  <2>5. "error" \in ToSet(wire) => wire = <<"role", "error">> /\ outcome = "failure"
    BY <2>1, WireSets DEF EndsAs
  <2> QED
    BY <1>2, <2>2, <2>3, <2>4, <2>5 DEF OneAccount
<1> QED
  BY <1>1, <1>2

(* A streamed request is accounted for once, [DONE] means success, a finish  *)
(* chunk means that the upstream response was complete, and after an error   *)
(* nothing is sent, for any answer, any events and wherever the client       *)
(* leaves (streamChatCompletion).                                            *)
THEOREM StreamAccountsOnce == StreamSpec => []OneAccount
BY AccountInvInit, AccountStep, AccountedOnce, PTL DEF StreamSpec

-----------------------------------------------------------------------------
(* Folds over sequences.  A fold is a recursive function on the sets of      *)
(* positions, which takes the largest position of a set last.                *)
LEMMA MaxIs ==
  ASSUME NEW k \in Nat, NEW s \in SUBSET (1 .. k + 1), k + 1 \in s
  PROVE  Max(s) = k + 1
<1>1. \A y \in s : k + 1 >= y
  OBVIOUS
<1>2. \A x \in s : (\A y \in s : x >= y) => x = k + 1
  OBVIOUS
<1> QED
  BY <1>1, <1>2, Zenon DEF Max

LEMMA MaxIn ==
  ASSUME NEW n \in Nat, NEW s \in SUBSET (0 .. n), s # {}
  PROVE  Max(s) \in s /\ \A y \in s : y <= Max(s)
<1> DEFINE Above == {m \in 0 .. n : \A y \in s : y <= m}
<1>1. Above \in SUBSET Nat /\ n \in Above
  OBVIOUS
<1>2. PICK m \in Above : \A j \in Above : m <= j
  <2> HIDE DEF Above
  <2> QED
    BY <1>1, LeastNatural
<1>3. m \in 0 .. n /\ \A y \in s : y <= m
  BY <1>2
<1>4. m \in s
  <2> SUFFICES ASSUME m \notin s PROVE FALSE
    OBVIOUS
  <2>1. \A y \in s : y \in 0 .. n /\ y <= m - 1
    BY <1>3
  <2>2. m - 1 \in 0 .. n
    <3>1. PICK y \in s : TRUE
      OBVIOUS
    <3>2. y \in Nat /\ y <= m - 1 /\ m \in 0 .. n
      BY <1>3, <2>1, <3>1
    <3> QED
      BY <3>2
  <2>3. m - 1 \in Above /\ ~(m <= m - 1)
    BY <1>3, <2>1, <2>2
  <2> HIDE DEF Above
  <2> QED
    BY <1>2, <2>3
<1>5. \A y \in s : m >= y
  BY <1>3
<1>6. \A x \in s : (\A y \in s : x >= y) => x = m
  BY <1>3, <1>4
<1>7. Max(s) = m
  BY <1>4, <1>5, <1>6, Zenon DEF Max
<1> QED
  BY <1>3, <1>4, <1>7

(* Induction over the positions up to n.                                     *)
LEMMA ByPositions ==
  ASSUME NEW n \in Nat, NEW T, 0 \in T, \A k \in 1 .. n : k - 1 \in T => k \in T
  PROVE  \A k \in 0 .. n : k \in T
<1> DEFINE Lacks == {k \in 0 .. n : k \notin T}
<1> SUFFICES ASSUME Lacks # {} PROVE FALSE
  OBVIOUS
<1>1. PICK k \in Lacks : \A j \in Lacks : k <= j
  <2>1. Lacks \in SUBSET Nat
    OBVIOUS
  <2> HIDE DEF Lacks
  <2> QED
    BY <2>1, LeastNatural
<1>2. k \in 1 .. n /\ k - 1 \in 0 .. n /\ ~(k <= k - 1) /\ k \notin T
  <2>1. k \in 0 .. n /\ k # 0 /\ k \notin T
    BY <1>1
  <2> QED
    BY <2>1
<1>3. k - 1 \in T
  BY <1>1, <1>2
<1> QED
  BY <1>2, <1>3

(* f holds what the fold by G from base makes of each subset of S.           *)
Folding(f, G, base, S) ==
  \A s \in SUBSET S :
    f[s] = IF s = {} THEN base ELSE G[<<Max(s), f[s \ {Max(s)}]>>]

Under(S, k) == {i \in S : i < k}

LEMMA UnderAll ==
  ASSUME NEW n \in Nat, NEW S \in SUBSET (0 .. n)
  PROVE  Under(S, 0) = {} /\ Under(S, n + 1) = S /\ n + 1 \in 0 .. n + 1
<1>1. ASSUME NEW i \in S PROVE ~(i < 0) /\ i < n + 1
  <2>1. i \in 0 .. n
    OBVIOUS
  <2> QED
    BY <2>1
<1>2. Under(S, 0) = {}
  BY <1>1 DEF Under
<1>3. Under(S, n + 1) = S
  BY <1>1 DEF Under
<1> QED
  BY <1>2, <1>3

LEMMA UnderStep ==
  ASSUME NEW n \in Nat, NEW S \in SUBSET (0 .. n), NEW k \in Nat, NEW s \in SUBSET Under(S, k + 1)
  PROVE  /\ s \ {k} \in SUBSET Under(S, k)
         /\ k \notin s => s \in SUBSET Under(S, k)
         /\ k \in s => k \in S /\ Max(s) = k
<1>1. \A y \in s : y \in S /\ y \in Nat /\ k >= y /\ (y # k => y < k)
  <2> TAKE y \in s
  <2>1. y \in S /\ y < k + 1
    BY DEF Under
  <2>2. y \in 0 .. n
    BY <2>1
  <2> QED
    BY <2>1, <2>2
<1>2. k \in s => Max(s) = k
  <2> HAVE k \in s
  <2>1. \A y \in s : y \in Nat /\ k >= y
    BY <1>1
  <2>2. \A x \in s : (\A y \in s : x >= y) => x = k
    BY <2>1
  <2> QED
    BY <2>1, <2>2, Zenon DEF Max
<1>3. \A y \in s \ {k} : y \in Under(S, k)
  BY <1>1 DEF Under
<1> QED
  BY <1>1, <1>2, <1>3

LEMMA FoldExists ==
  ASSUME NEW V, NEW base \in V, NEW n \in Nat, NEW S \in SUBSET (0 .. n), NEW G \in [S \X V -> V]
  PROVE  \E f \in [SUBSET S -> V] : Folding(f, G, base, S)
<1> DEFINE Has(k) == \E f \in [SUBSET Under(S, k) -> V] : Folding(f, G, base, Under(S, k))
           T == {k \in 0 .. n + 1 : Has(k)}
<1>1. 0 \in T
  <2> DEFINE f == [s \in SUBSET {} |-> base]
  <2>1. f \in [SUBSET {} -> V]
    OBVIOUS
  <2>2. Folding(f, G, base, {})
    BY DEF Folding
  <2>3. Has(0)
    BY <2>1, <2>2, UnderAll
  <2> QED
    BY <2>3
<1>2. ASSUME NEW k \in 1 .. n + 1, k - 1 \in T PROVE k \in T
  <2> DEFINE j == k - 1
  <2>1. j \in Nat /\ j + 1 = k /\ k \in 0 .. n + 1 /\ Has(j)
    <3>1. j \in Nat /\ j + 1 = k /\ k \in 0 .. n + 1
      OBVIOUS
    <3>2. Has(k - 1)
      BY <1>2
    <3> QED
      BY <3>1, <3>2
  <2> HIDE DEF j
  <2> DEFINE A == Under(S, j)
             B == Under(S, k)
  <2>2. PICK g \in [SUBSET A -> V] : Folding(g, G, base, A)
    BY <2>1
  <2>3. \A s \in SUBSET B :
          /\ s \ {j} \in SUBSET A
          /\ j \notin s => s \in SUBSET A
          /\ j \in s => j \in S /\ Max(s) = j
    <3> TAKE s \in SUBSET B
    <3>1. s \in SUBSET Under(S, j + 1)
      BY <2>1
    <3> QED
      BY <2>1, <3>1, UnderStep, ZenonT(30)
  <2> HIDE DEF A, B
  <2> DEFINE f == [s \in SUBSET B |-> IF j \in s THEN G[<<j, g[s \ {j}]>>] ELSE g[s]]
  <2>4. \A s \in SUBSET B : f[s] \in V
    <3> TAKE s \in SUBSET B
    <3>1. CASE j \in s
      <4>1. s \ {j} \in SUBSET A
        BY <2>3
      <4>2. g[s \ {j}] \in V
        BY <4>1
      <4>3. <<j, g[s \ {j}]>> \in S \X V
        BY <2>3, <3>1, <4>2
      <4> QED
        BY <3>1, <4>3
    <3>2. CASE j \notin s
      <4>1. s \in SUBSET A
        BY <2>3, <3>2
      <4> QED
        BY <3>2, <4>1
    <3> QED
      BY <3>1, <3>2
  <2>5. f \in [SUBSET B -> V]
    BY <2>4
  <2>6. ASSUME NEW s \in SUBSET B
        PROVE  f[s] = IF s = {} THEN base ELSE G[<<Max(s), f[s \ {Max(s)}]>>]
    <3>1. CASE j \in s
      <4>1. Max(s) = j
        BY <2>3, <3>1
      <4>2. f[s \ {j}] = g[s \ {j}] /\ f[s] = G[<<j, g[s \ {j}]>>]
        BY <3>1
      <4> QED
        BY <3>1, <4>1, <4>2
    <3>2. CASE j \notin s
      <4>1. s \in SUBSET A /\ f[s] = g[s]
        <5>1. s \in SUBSET A
          BY <2>3, <3>2
        <5> QED
          BY <3>2, <5>1
      <4>2. CASE s = {}
        BY <2>2, <4>1, <4>2 DEF Folding
      <4>3. CASE s # {}
        <5>1. g[s] = G[<<Max(s), g[s \ {Max(s)}]>>]
          BY <2>2, <4>1, <4>3 DEF Folding
        <5>2. s \ {Max(s)} \in SUBSET B /\ j \notin s \ {Max(s)}
          BY <3>2
        <5>3. f[s \ {Max(s)}] = g[s \ {Max(s)}]
          BY <5>2
        <5> QED
          BY <4>1, <4>3, <5>1, <5>3
      <4> QED
        BY <4>2, <4>3
    <3> QED
      BY <3>1, <3>2
  <2> HIDE DEF f
  <2>7. Folding(f, G, base, B)
    BY <2>6 DEF Folding
  <2>8. Has(k)
    BY <2>5, <2>7 DEF B
  <2> QED
    BY <2>1, <2>8
<1> HIDE DEF T
<1>3. n + 1 \in T
  <2>1. n + 1 \in Nat /\ n + 1 \in 0 .. n + 1
    OBVIOUS
  <2> QED
    BY <1>1, <1>2, <2>1, ByPositions
<1> QED
  BY <1>3, UnderAll DEF T

(* Any function that steps as a fold does stays where the fold stays.        *)
LEMMA FoldStays ==
  ASSUME NEW V, NEW base \in V, NEW n \in Nat, NEW S \in SUBSET (0 .. n), NEW g,
         g[{}] = base,
         \A s \in SUBSET S : s # {} /\ g[s \ {Max(s)}] \in V => g[s] \in V
  PROVE  g[S] \in V
<1> DEFINE T == {k \in 0 .. n + 1 : \A s \in SUBSET Under(S, k) : g[s] \in V}
<1>1. 0 \in T
  <2>1. \A s \in SUBSET Under(S, 0) : g[s] \in V
    <3> TAKE s \in SUBSET Under(S, 0)
    <3>1. s = {}
      BY UnderAll
    <3> QED
      BY <3>1
  <2> QED
    BY <2>1
<1>2. ASSUME NEW k \in 1 .. n + 1, k - 1 \in T PROVE k \in T
  <2> DEFINE j == k - 1
  <2>1. /\ j \in Nat /\ j + 1 = k /\ k \in 0 .. n + 1
        /\ \A s \in SUBSET Under(S, j) : g[s] \in V
    BY <1>2
  <2> HIDE DEF j
  <2>2. ASSUME NEW s \in SUBSET Under(S, k) PROVE g[s] \in V
    <3>1. s \in SUBSET Under(S, j + 1)
      BY <2>1
    <3>2. /\ s \ {j} \in SUBSET Under(S, j)
          /\ j \notin s => s \in SUBSET Under(S, j)
          /\ j \in s => j \in S /\ Max(s) = j
      BY <2>1, <3>1, UnderStep
    <3>3. CASE j \notin s
      BY <2>1, <3>2, <3>3
    <3>4. CASE j \in s
      <4>1. g[s \ {Max(s)}] \in V
        BY <2>1, <3>2, <3>4
      <4>2. s \in SUBSET S
        BY DEF Under
      <4> QED
        BY <3>4, <4>1, <4>2
    <3> QED
      BY <3>3, <3>4
  <2> QED
    BY <2>1, <2>2
<1> HIDE DEF T
<1>3. n + 1 \in T
  <2>1. n + 1 \in Nat /\ n + 1 \in 0 .. n + 1
    OBVIOUS
  <2> QED
    BY <1>1, <1>2, <2>1, ByPositions
<1>4. S \in SUBSET Under(S, n + 1)
  BY UnderAll
<1> QED
  BY <1>3, <1>4 DEF T

(* Induction over the subsets that a fold goes through.                      *)
LEMMA OverSubsets ==
  ASSUME NEW n \in Nat, NEW S \in SUBSET (0 .. n), NEW T, {} \in T,
         \A s \in SUBSET S : s # {} /\ s \ {Max(s)} \in T => s \in T
  PROVE  S \in T
<1> DEFINE g == [s \in SUBSET S |-> IF s \in T THEN 1 ELSE 0]
           V == {1}
<1>1. g[{}] = 1
  OBVIOUS
<1>2. \A s \in SUBSET S : g[s] \in V <=> s \in T
  OBVIOUS
<1>3. \A s \in SUBSET S : s # {} /\ g[s \ {Max(s)}] \in V => g[s] \in V
  <2> TAKE s \in SUBSET S
  <2>1. s \ {Max(s)} \in SUBSET S
    OBVIOUS
  <2> QED
    BY <1>2, <2>1
<1>4. 1 \in V
  OBVIOUS
<1> HIDE DEF g, V
<1>5. g[S] \in V
  BY <1>1, <1>3, <1>4, FoldStays
<1> QED
  BY <1>2, <1>5

(* The sets of the first positions, which the fold of a sequence goes through. *)
LEMMA FirstPositions ==
  ASSUME NEW n \in Nat, NEW k \in 1 .. n
  PROVE  /\ 1 .. k \in SUBSET (1 .. n) /\ 1 .. k # {} /\ Max(1 .. k) = k
         /\ (1 .. k) \ {Max(1 .. k)} = 1 .. k - 1
<1>1. k - 1 \in Nat /\ k - 1 + 1 = k /\ 1 .. k \in SUBSET (1 .. n) /\ k \in 1 .. k
  OBVIOUS
<1>2. Max(1 .. k) = k
  BY <1>1, MaxIs
<1>3. (1 .. k) \ {k} = 1 .. k - 1
  OBVIOUS
<1> QED
  BY <1>1, <1>2, <1>3

-----------------------------------------------------------------------------
(* What the client makes of the tool call deltas.                            *)
Texts == Seq(Letters)

ToolCalls == [name : Nat, args : Texts]

ToolDeltas == [call : Nat \ {0}, name : Nat, args : Texts]

Added(known, d) ==
  IF d.call <= Len(known) THEN [known EXCEPT ![d.call].args = @ \o d.args]
  ELSE Append(known, [name |-> d.name, args |-> d.args])

LEMMA TextJoined ==
  ASSUME NEW s \in Texts, NEW t \in Texts
  PROVE  s \o t \in Texts
BY JoinIs DEF Texts

(* A delta for a call that is known goes to its arguments. *)
LEMMA AddedToKnown ==
  ASSUME NEW known \in Seq(ToolCalls), NEW d \in ToolDeltas, d.call <= Len(known)
  PROVE  /\ Added(known, d) \in Seq(ToolCalls)
         /\ Len(Added(known, d)) = Len(known)
         /\ \A i \in 1 .. Len(known) :
              /\ Added(known, d)[i].name = known[i].name
              /\ i # d.call => Added(known, d)[i].args = known[i].args
         /\ Added(known, d)[d.call].args = known[d.call].args \o d.args
<1> DEFINE k == d.call
           call == [known[k] EXCEPT !.args = @ \o d.args]
           f == [known EXCEPT ![k] = call]
<1>1. k \in 1 .. Len(known) /\ Len(known) \in Nat /\ d.args \in Texts
  BY DEF ToolDeltas
<1>2. known[k] \in ToolCalls
  BY <1>1, ElementOfSeq
<1>3. known[k].args \o d.args \in Texts
  BY <1>1, <1>2, TextJoined DEF ToolCalls
<1>4. call \in ToolCalls /\ call.name = known[k].name /\ call.args = known[k].args \o d.args
  BY <1>2, <1>3 DEF ToolCalls
<1>5. Added(known, d) = f
  BY DEF Added
<1> HIDE DEF call, k
<1>6. /\ f \in Seq(ToolCalls) /\ Len(f) = Len(known)
      /\ \A i \in 1 .. Len(known) : f[i] = IF i = k THEN call ELSE known[i]
  BY <1>1, <1>4, ExceptSeq
<1> HIDE DEF f
<1> QED
  BY <1>1, <1>4, <1>5, <1>6 DEF k

(* A delta for another call is its first.                                    *)
LEMMA AddedAsNew ==
  ASSUME NEW known \in Seq(ToolCalls), NEW d \in ToolDeltas, ~(d.call <= Len(known))
  PROVE  /\ Added(known, d) \in Seq(ToolCalls)
         /\ Len(Added(known, d)) = Len(known) + 1
         /\ \A i \in 1 .. Len(known) : Added(known, d)[i] = known[i]
         /\ Added(known, d)[Len(known) + 1] = [name |-> d.name, args |-> d.args]
<1>1. [name |-> d.name, args |-> d.args] \in ToolCalls
  BY DEF ToolDeltas, ToolCalls
<1>2. Added(known, d) = Append(known, [name |-> d.name, args |-> d.args])
  BY DEF Added
<1> QED
  BY <1>1, <1>2, AppendProperties

LEMMA AddedTyped ==
  ASSUME NEW known \in Seq(ToolCalls), NEW d \in ToolDeltas
  PROVE  Added(known, d) \in Seq(ToolCalls)
BY AddedToKnown, AddedAsNew

(* The recursive function behind Assembled, and the steps it takes.          *)
Assembling(known, deltas) ==
  CHOOSE f : f = [s \in SUBSET DOMAIN deltas |->
                    IF s = {} THEN known ELSE Added(f[s \ {Max(s)}], deltas[Max(s)])]

LEMMA AssembledIsFold ==
  ASSUME NEW known, NEW deltas
  PROVE  Assembled(known, deltas) = Assembling(known, deltas)[DOMAIN deltas]
BY DEF Assembled, FoldLeft, MapThenFoldSet, Assembling, Added

LEMMA AssembledSteps ==
  ASSUME NEW known \in Seq(ToolCalls), NEW deltas \in Seq(ToolDeltas)
  PROVE  \E h \in [0 .. Len(deltas) -> Seq(ToolCalls)] :
           /\ h[0] = known
           /\ \A k \in 1 .. Len(deltas) : h[k] = Added(h[k - 1], deltas[k])
           /\ Assembled(known, deltas) = h[Len(deltas)]
<1> DEFINE n == Len(deltas)
           V == Seq(ToolCalls)
           G == [p \in (1 .. n) \X V |-> Added(p[2], deltas[p[1]])]
<1>1. n \in Nat /\ DOMAIN deltas = 1 .. n /\ \A k \in 1 .. n : deltas[k] \in ToolDeltas
  BY ElementOfSeq, LenProperties
<1>2. G \in [(1 .. n) \X V -> V]
  <2>1. \A p \in (1 .. n) \X V : Added(p[2], deltas[p[1]]) \in V
    BY <1>1, AddedTyped
  <2> QED
    BY <2>1
<1>3. \A k \in 1 .. n : \A v \in V : G[<<k, v>>] = Added(v, deltas[k])
  OBVIOUS
<1> HIDE DEF G, V, n
<1>4. known \in V
  BY DEF V
<1>5. PICK f \in [SUBSET (1 .. n) -> V] : Folding(f, G, known, 1 .. n)
  <2>1. 1 .. n \in SUBSET (0 .. n)
    BY <1>1
  <2> QED
    BY <1>1, <1>2, <1>4, <2>1, FoldExists
<1>6. \A s \in SUBSET (1 .. n) : s # {} => G[<<Max(s), f[s \ {Max(s)}]>>] = Added(f[s \ {Max(s)}], deltas[Max(s)])
  <2> TAKE s \in SUBSET (1 .. n)
  <2> HAVE s # {}
  <2>1. s \in SUBSET (0 .. n)
    BY <1>1
  <2>2. Max(s) \in 1 .. n /\ f[s \ {Max(s)}] \in V
    BY <1>1, <1>5, <2>1, MaxIn
  <2> QED
    BY <1>3, <2>2
<1>7. f = [s \in SUBSET DOMAIN deltas |->
             IF s = {} THEN known ELSE Added(f[s \ {Max(s)}], deltas[Max(s)])]
  BY <1>1, <1>5, <1>6 DEF Folding
<1> DEFINE g == Assembling(known, deltas)
<1>8. g = [s \in SUBSET DOMAIN deltas |->
             IF s = {} THEN known ELSE Added(g[s \ {Max(s)}], deltas[Max(s)])]
  BY <1>7 DEF Assembling
<1> HIDE DEF g
<1> DEFINE h == [k \in 0 .. n |-> g[1 .. k]]
<1>9. h[0] = known
  <2>1. 1 .. 0 = {} /\ {} \in SUBSET DOMAIN deltas
    OBVIOUS
  <2>2. g[{}] = known
    BY <1>8
  <2> QED
    BY <1>1, <2>1, <2>2
<1>10. \A k \in 1 .. n : h[k] = Added(h[k - 1], deltas[k])
  <2> TAKE k \in 1 .. n
  <2> DEFINE s == 1 .. k
  <2>1. s \in SUBSET (1 .. n) /\ s # {} /\ Max(s) = k /\ s \ {Max(s)} = 1 .. k - 1
    BY <1>1, FirstPositions
  <2>2. h[k] = g[s] /\ h[k - 1] = g[1 .. k - 1]
    BY <1>1
  <2> HIDE DEF s, h
  <2>3. g[s] = Added(g[s \ {Max(s)}], deltas[Max(s)])
    BY <1>1, <1>8, <2>1
  <2> QED
    BY <2>1, <2>2, <2>3
<1> HIDE DEF h
<1> DEFINE T == {k \in 0 .. n : h[k] \in V}
<1>11. \A k \in 0 .. n : k \in T
  <2>1. 0 \in T
    BY <1>1, <1>4, <1>9
  <2>2. ASSUME NEW k \in 1 .. n, k - 1 \in T
        PROVE  k \in T
    <3>1. h[k - 1] \in Seq(ToolCalls) /\ deltas[k] \in ToolDeltas /\ k \in 0 .. n
      BY <1>1, <2>2 DEF V
    <3>2. h[k] \in V
      BY <1>10, <3>1, AddedTyped DEF V
    <3> QED
      BY <3>1, <3>2
  <2> HIDE DEF T
  <2> QED
    BY <1>1, <2>1, <2>2, ByPositions
<1>12. h \in [0 .. n -> V]
  BY <1>11 DEF h
<1>13. Assembled(known, deltas) = h[n]
  BY <1>1, AssembledIsFold DEF g, h
<1> QED
  BY <1>9, <1>10, <1>12, <1>13 DEF n, V

(* Two folds of the same steps from the same value go the same way.          *)
LEMMA AssembledNone ==
  ASSUME NEW known \in Seq(ToolCalls)
  PROVE  Assembled(known, <<>>) = known
<1> DEFINE none == <<>>
<1>1. none \in Seq(ToolDeltas) /\ Len(none) = 0
  BY EmptySeq
<1> HIDE DEF none
<1>2. \E h \in [0 .. Len(none) -> Seq(ToolCalls)] :
        h[0] = known /\ Assembled(known, none) = h[Len(none)]
  BY <1>1, AssembledSteps, ZenonT(30)
<1>3. Assembled(known, none) = known
  BY <1>1, <1>2
<1> QED
  BY <1>3 DEF none

LEMMA AssembledMore ==
  ASSUME NEW known \in Seq(ToolCalls), NEW deltas \in Seq(ToolDeltas), NEW d \in ToolDeltas
  PROVE  /\ Assembled(known, deltas) \in Seq(ToolCalls)
         /\ Assembled(known, Append(deltas, d)) = Added(Assembled(known, deltas), d)
<1> DEFINE n == Len(deltas)
           more == Append(deltas, d)
<1>1. n \in Nat /\ more \in Seq(ToolDeltas) /\ Len(more) = n + 1
  BY AppendProperties, LenProperties
<1>2. (\A k \in 1 .. n : more[k] = deltas[k]) /\ more[n + 1] = d
  BY AppendProperties
<1> HIDE DEF more
<1>3. PICK h \in [0 .. n -> Seq(ToolCalls)] :
         /\ h[0] = known
         /\ \A k \in 1 .. n : h[k] = Added(h[k - 1], deltas[k])
         /\ Assembled(known, deltas) = h[n]
  BY AssembledSteps
<1>4. PICK g \in [0 .. n + 1 -> Seq(ToolCalls)] :
         /\ g[0] = known
         /\ \A k \in 1 .. n + 1 : g[k] = Added(g[k - 1], more[k])
         /\ Assembled(known, more) = g[n + 1]
  <2>1. \E g \in [0 .. Len(more) -> Seq(ToolCalls)] :
           /\ g[0] = known
           /\ \A k \in 1 .. Len(more) : g[k] = Added(g[k - 1], more[k])
           /\ Assembled(known, more) = g[Len(more)]
    BY <1>1, AssembledSteps
  <2> QED
    BY <1>1, <2>1
<1> HIDE DEF n
<1> DEFINE T == {k \in 0 .. n : g[k] = h[k]}
<1>5. \A k \in 0 .. n : k \in T
  <2>1. 0 \in T
    BY <1>1, <1>3, <1>4
  <2>2. \A k \in 1 .. n : k - 1 \in T => k \in T
    BY <1>1, <1>2, <1>3, <1>4
  <2> HIDE DEF T
  <2> QED
    BY <1>1, <2>1, <2>2, ByPositions
<1>6. g[n] = h[n] /\ n + 1 \in 1 .. n + 1 /\ n + 1 - 1 = n /\ n \in 0 .. n
  BY <1>1, <1>5
<1>7. Assembled(known, deltas) \in Seq(ToolCalls)
  BY <1>3, <1>6
<1>8. Assembled(known, more) = Added(Assembled(known, deltas), d)
  <2>1. g[n + 1] = Added(g[n], d)
    BY <1>2, <1>4, <1>6
  <2> QED
    BY <1>3, <1>4, <1>6, <2>1
<1> QED
  BY <1>7, <1>8 DEF more

LEMMA AssembledOne ==
  ASSUME NEW known \in Seq(ToolCalls), NEW d \in ToolDeltas
  PROVE  Assembled(known, <<d>>) = Added(known, d)
<1>1. <<>> \in Seq(ToolDeltas) /\ Append(<<>>, d) = <<d>>
  BY EmptySeq
<1>2. Assembled(known, Append(<<>>, d)) = Added(Assembled(known, <<>>), d)
  BY <1>1, AssembledMore
<1> QED
  BY <1>1, <1>2, AssembledNone

-----------------------------------------------------------------------------
(* The states of a reader.                                                   *)
Maps(D, R) == UNION {[d -> R] : d \in SUBSET D}

Items == [type : {"message", "call", "reasoning"}, name : Nat, body : Texts]

Calls == [name : Nat, at : Nat, args : Texts]

Reasons == {"", "stop", "tool_calls", "length", "content_filter"}

States ==
  [text : Texts, calls : Seq(Calls), byName : Maps(Nat \ {0}, Nat \ {0}),
   byOutput : Maps(Nat, Nat \ {0}), current : Nat, items : Maps(Nat, Items), next : Nat,
   finish : Reasons, usage : BOOLEAN, terminal : BOOLEAN, failed : BOOLEAN]

(* What the maps of a state point to is there.                               *)
Pointing(s) ==
  /\ \A n \in DOMAIN s.byName : s.byName[n] <= Len(s.calls)
  /\ \A i \in DOMAIN s.byOutput : s.byOutput[i] <= Len(s.calls)
  /\ s.current <= Len(s.calls)

(* The name of the item with output index i, as upstream tells it.           *)
Known(i) == IF "id" \in labels THEN i + 1 ELSE NoName

(* Listed calls have the names that go with their places, and so do the      *)
(* items of an output.                                                       *)
AtPlaces(calls) == \A k \in 1 .. Len(calls) : calls[k].item.name = Known(calls[k].at)

InOrder(output) == \A k \in 1 .. Len(output) : output[k].name = Known(k - 1)

(* Each call has the name that goes with its place, and is found by both.    *)
Placed(s) ==
  /\ \A k \in 1 .. Len(s.calls) : s.calls[k].name = Known(s.calls[k].at)
  /\ \A n \in DOMAIN s.byName : s.calls[s.byName[n]].name = n
  /\ \A i \in DOMAIN s.byOutput : s.calls[s.byOutput[i]].name = Known(i) /\ s.calls[s.byOutput[i]].at = i
  /\ \A k \in 1 .. Len(s.calls) : s.calls[k].at \in DOMAIN s.byOutput /\ s.byOutput[s.calls[k].at] = k

LEMMA MapIs ==
  ASSUME NEW D, NEW R, NEW f \in Maps(D, R)
  PROVE  /\ DOMAIN f \subseteq D
         /\ \A x \in DOMAIN f : f[x] \in R
BY DEF Maps

LEMMA PutDomain ==
  ASSUME NEW f, NEW x, NEW y
  PROVE  DOMAIN Put(f, x, y) = DOMAIN f \cup {x}
BY DEF Put

LEMMA PutAt ==
  ASSUME NEW f, NEW x, NEW y
  PROVE  Put(f, x, y)[x] = y
BY DEF Put

LEMMA PutElse ==
  ASSUME NEW f, NEW x, NEW y, NEW z \in DOMAIN f, z # x
  PROVE  Put(f, x, y)[z] = f[z]
BY DEF Put

LEMMA PutTyped ==
  ASSUME NEW D, NEW R, NEW f \in Maps(D, R), NEW x \in D, NEW y \in R
  PROVE  Put(f, x, y) \in Maps(D, R)
<1> DEFINE d == DOMAIN f \cup {x}
           g == [z \in d |-> IF z = x THEN y ELSE f[z]]
<1>1. d \in SUBSET D /\ \A z \in d : (IF z = x THEN y ELSE f[z]) \in R
  BY MapIs
<1>2. g \in [d -> R]
  BY <1>1
<1>3. g \in Maps(D, R)
  BY <1>1, <1>2 DEF Maps
<1> QED
  BY <1>3 DEF Put

LEMMA EmptyMap ==
  ASSUME NEW D, NEW R, NEW e
  PROVE  [x \in {} |-> e] \in Maps(D, R)
<1>1. [x \in {} |-> e] \in [{} -> R]
  OBVIOUS
<1>2. {} \in SUBSET D
  OBVIOUS
<1> QED
  BY <1>1, <1>2 DEF Maps

LEMMA StateParts ==
  ASSUME NEW s \in States
  PROVE  /\ s.text \in Texts /\ s.calls \in Seq(Calls)
         /\ s.byName \in Maps(Nat \ {0}, Nat \ {0}) /\ s.byOutput \in Maps(Nat, Nat \ {0})
         /\ s.current \in Nat /\ s.items \in Maps(Nat, Items) /\ s.next \in Nat
         /\ Len(s.calls) \in Nat /\ DOMAIN s.calls = 1 .. Len(s.calls)
BY LenProperties DEF States

(* A state with other arguments of one call.                                 *)
LEMMA ArgsSet ==
  ASSUME NEW s \in States, NEW k \in 1 .. Len(s.calls), NEW args \in Texts, NEW r,
         r = [s EXCEPT !.calls[k].args = args]
  PROVE  /\ r \in States
         /\ r.text = s.text /\ r.byName = s.byName /\ r.byOutput = s.byOutput
         /\ r.current = s.current /\ r.items = s.items /\ r.next = s.next
         /\ r.failed = s.failed /\ r.terminal = s.terminal /\ r.finish = s.finish /\ r.usage = s.usage
         /\ Len(r.calls) = Len(s.calls) /\ r.calls[k].args = args
         /\ \A i \in 1 .. Len(s.calls) :
              /\ r.calls[i].name = s.calls[i].name /\ r.calls[i].at = s.calls[i].at
              /\ i # k => r.calls[i] = s.calls[i]
<1> DEFINE call == [s.calls[k] EXCEPT !.args = args]
           f == [s.calls EXCEPT ![k] = call]
<1>1. s.calls \in Seq(Calls) /\ s.calls[k] \in Calls
  BY StateParts, ElementOfSeq
<1>2. call \in Calls /\ call.name = s.calls[k].name /\ call.at = s.calls[k].at /\ call.args = args
  BY <1>1 DEF Calls
<1>3. r = [s EXCEPT !.calls = f]
  OBVIOUS
<1> HIDE DEF call
<1>4. /\ f \in Seq(Calls) /\ Len(f) = Len(s.calls)
      /\ \A i \in 1 .. Len(s.calls) : f[i] = IF i = k THEN call ELSE s.calls[i]
  BY <1>1, <1>2, ExceptSeq
<1> HIDE DEF f
<1>5. r \in States
  BY <1>3, <1>4 DEF States
<1>6. /\ r.text = s.text /\ r.byName = s.byName /\ r.byOutput = s.byOutput
      /\ r.current = s.current /\ r.items = s.items /\ r.next = s.next
      /\ r.failed = s.failed /\ r.terminal = s.terminal /\ r.finish = s.finish /\ r.usage = s.usage
      /\ r.calls = f
  BY <1>3 DEF States
<1> QED
  BY <1>2, <1>4, <1>5, <1>6

LEMMA PointsWithin ==
  ASSUME NEW s \in States, Pointing(s)
  PROVE  /\ \A n \in DOMAIN s.byName : s.byName[n] \in 1 .. Len(s.calls)
         /\ \A i \in DOMAIN s.byOutput : s.byOutput[i] \in 1 .. Len(s.calls)
         /\ Len(s.calls) \in Nat /\ s.current \in 0 .. Len(s.calls)
BY StateParts, MapIs DEF Pointing

(* Two states with the same items and the same calls at the same places.     *)
Same(s, t) ==
  /\ t.byName = s.byName /\ t.byOutput = s.byOutput /\ t.current = s.current
  /\ t.items = s.items /\ t.next = s.next
  /\ Len(t.calls) = Len(s.calls)
  /\ \A i \in 1 .. Len(s.calls) : t.calls[i].name = s.calls[i].name /\ t.calls[i].at = s.calls[i].at

(* The same of two sequences of calls, and of the maps that lead to them.    *)
Alike(c, d) == Len(d) = Len(c) /\ \A i \in 1 .. Len(c) : d[i].name = c[i].name /\ d[i].at = c[i].at

Leads(c, byName, byOutput) ==
  /\ \A n \in DOMAIN byName : c[byName[n]].name = n
  /\ \A i \in DOMAIN byOutput : c[byOutput[i]].name = Known(i) /\ c[byOutput[i]].at = i

Led(c, byOutput) ==
  \A k \in 1 .. Len(c) :
    c[k].name = Known(c[k].at) /\ c[k].at \in DOMAIN byOutput /\ byOutput[c[k].at] = k

LEMMA PlacedParts ==
  ASSUME NEW s
  PROVE  Placed(s) <=> Leads(s.calls, s.byName, s.byOutput) /\ Led(s.calls, s.byOutput)
BY DEF Placed, Leads, Led

LEMMA AlikeLeads ==
  ASSUME NEW c, NEW d, Alike(c, d), NEW byName, NEW byOutput,
         \A n \in DOMAIN byName : byName[n] \in 1 .. Len(c),
         \A i \in DOMAIN byOutput : byOutput[i] \in 1 .. Len(c),
         Leads(c, byName, byOutput)
  PROVE  Leads(d, byName, byOutput)
<1>1. ASSUME NEW n \in DOMAIN byName PROVE d[byName[n]].name = n
  <2> DEFINE k == byName[n]
  <2>1. k \in 1 .. Len(c) /\ c[k].name = n
    BY DEF Leads
  <2> HIDE DEF k
  <2>2. d[k].name = n
    BY <2>1 DEF Alike
  <2> QED
    BY <2>2 DEF k
<1>2. ASSUME NEW i \in DOMAIN byOutput PROVE d[byOutput[i]].name = Known(i) /\ d[byOutput[i]].at = i
  <2> DEFINE k == byOutput[i]
  <2>1. k \in 1 .. Len(c) /\ c[k].name = Known(i) /\ c[k].at = i
    BY DEF Leads
  <2> HIDE DEF k
  <2>2. d[k].name = Known(i) /\ d[k].at = i
    BY <2>1 DEF Alike
  <2> QED
    BY <2>2 DEF k
<1> QED
  BY <1>1, <1>2 DEF Leads

LEMMA AlikeLed ==
  ASSUME NEW c, NEW d, Alike(c, d), NEW byOutput, Led(c, byOutput)
  PROVE  Led(d, byOutput)
BY DEF Alike, Led

LEMMA SameKeeps ==
  ASSUME NEW s \in States, Pointing(s), NEW t \in States, Same(s, t)
  PROVE  Pointing(t) /\ (Placed(s) => Placed(t))
<1>1. Pointing(t)
  BY DEF Pointing, Same
<1> DEFINE c == s.calls
           d == t.calls
           byName == s.byName
           byOutput == s.byOutput
<1>2. /\ \A n \in DOMAIN byName : byName[n] \in 1 .. Len(c)
      /\ \A i \in DOMAIN byOutput : byOutput[i] \in 1 .. Len(c)
  BY PointsWithin
<1>3. Alike(c, d)
  BY DEF Alike, Same
<1>4. t.byName = byName /\ t.byOutput = byOutput
  BY DEF Same
<1>5. Placed(s) <=> Leads(c, byName, byOutput) /\ Led(c, byOutput)
  BY PlacedParts
<1>6. Placed(t) <=> Leads(d, t.byName, t.byOutput) /\ Led(d, t.byOutput)
  BY PlacedParts
<1> HIDE DEF c, d, byName, byOutput
<1>7. ASSUME Placed(s) PROVE Placed(t)
  <2>1. Leads(d, byName, byOutput)
    BY <1>2, <1>3, <1>5, <1>7, AlikeLeads
  <2>2. Led(d, byOutput)
    BY <1>3, <1>5, <1>7, AlikeLed
  <2> QED
    BY <1>4, <1>6, <2>1, <2>2
<1> QED
  BY <1>1, <1>7

(* What other arguments of one call change, and what they leave.             *)
SetsArgs(s, r, k, args) ==
  /\ r \in States /\ Same(s, r)
  /\ r.text = s.text
  /\ r.failed = s.failed /\ r.terminal = s.terminal /\ r.finish = s.finish /\ r.usage = s.usage
  /\ r.calls[k].args = args
  /\ \A i \in 1 .. Len(s.calls) : i # k => r.calls[i] = s.calls[i]

LEMMA ArgsSetChanges ==
  ASSUME NEW s \in States, NEW k \in 1 .. Len(s.calls), NEW args \in Texts
  PROVE  SetsArgs(s, [s EXCEPT !.calls[k].args = args], k, args)
<1> DEFINE r == [s EXCEPT !.calls[k].args = args]
<1>1. /\ r \in States
      /\ r.text = s.text /\ r.byName = s.byName /\ r.byOutput = s.byOutput
      /\ r.current = s.current /\ r.items = s.items /\ r.next = s.next
      /\ r.failed = s.failed /\ r.terminal = s.terminal /\ r.finish = s.finish /\ r.usage = s.usage
      /\ Len(r.calls) = Len(s.calls) /\ r.calls[k].args = args
      /\ \A i \in 1 .. Len(s.calls) :
           /\ r.calls[i].name = s.calls[i].name /\ r.calls[i].at = s.calls[i].at
           /\ i # k => r.calls[i] = s.calls[i]
  BY ArgsSet
<1> HIDE DEF r
<1>2. Same(s, r)
  BY <1>1 DEF Same
<1>3. SetsArgs(s, r, k, args)
  BY <1>1, <1>2 DEF SetsArgs
<1> QED
  BY <1>3 DEF r

LEMMA ArgsSetKeeps ==
  ASSUME NEW s \in States, NEW k, NEW args, NEW r, SetsArgs(s, r, k, args), Pointing(s)
  PROVE  Pointing(r) /\ (Placed(s) => Placed(r))
<1>1. r \in States /\ Same(s, r)
  BY DEF SetsArgs
<1> QED
  BY <1>1, SameKeeps

-----------------------------------------------------------------------------
(* lookupToolCallIndex and ensureToolCall.                                   *)
LEMMA LookupIs ==
  ASSUME NEW s \in States, Pointing(s), NEW name \in Nat
  PROVE  /\ Lookup(s, name) \in 0 .. Len(s.calls)
         /\ Lookup(s, name) # NoItem => /\ name \in DOMAIN s.byName /\ name # NoName
                                        /\ Lookup(s, name) = s.byName[name]
         /\ Lookup(s, name) = NoItem => name \notin DOMAIN s.byName
<1>1. CASE name \in DOMAIN s.byName
  <2>1. s.byName[name] \in Nat \ {0} /\ name \in Nat \ {0} /\ s.byName[name] <= Len(s.calls)
    BY <1>1, StateParts, MapIs DEF Pointing
  <2> QED
    BY <1>1, <2>1, StateParts DEF Lookup, NoItem, NoName
<1>2. CASE name \notin DOMAIN s.byName
  BY <1>2, StateParts DEF Lookup, NoItem
<1> QED
  BY <1>1, <1>2

LEMMA CallForIs ==
  ASSUME NEW s \in States, Pointing(s), NEW item \in Items, NEW at \in Nat
  PROVE  CallFor(s, item, at) \in 1 .. Len(s.calls) + 1
<1>1. item.name \in Nat
  BY DEF Items
<1>2. CASE Lookup(s, item.name) # NoItem
  BY <1>1, <1>2, LookupIs, StateParts, SMTT(30) DEF CallFor, NoItem
<1>3. CASE Lookup(s, item.name) = NoItem /\ at \in DOMAIN s.byOutput
  <2>1. s.byOutput[at] \in Nat \ {0} /\ s.byOutput[at] <= Len(s.calls)
    BY <1>3, StateParts, MapIs DEF Pointing
  <2> QED
    BY <1>3, <2>1, StateParts DEF CallFor
<1>4. CASE Lookup(s, item.name) = NoItem /\ at \notin DOMAIN s.byOutput
  BY <1>4, StateParts DEF CallFor
<1> QED
  BY <1>2, <1>3, <1>4

(* The call that Ensured leaves at its place.                                *)
NewCall(s, item, at) ==
  LET k == CallFor(s, item, at)
      old == IF k <= Len(s.calls) THEN s.calls[k] ELSE [name |-> NoName, at |-> at, args |-> <<>>]
  IN [old EXCEPT !.at = at, !.name = IF item.name = NoName THEN @ ELSE item.name]

LEMMA NewCallIs ==
  ASSUME NEW s \in States, Pointing(s), NEW item \in Items, NEW at \in Nat, NEW k, NEW c,
         k = CallFor(s, item, at), c = NewCall(s, item, at)
  PROVE  /\ c \in Calls /\ c.at = at
         /\ item.name # NoName => c.name = item.name
         /\ k <= Len(s.calls) => c.args = s.calls[k].args /\ (item.name = NoName => c.name = s.calls[k].name)
         /\ ~(k <= Len(s.calls)) => c.args = <<>> /\ (item.name = NoName => c.name = NoName)
<1> DEFINE old == IF k <= Len(s.calls) THEN s.calls[k] ELSE [name |-> NoName, at |-> at, args |-> <<>>]
<1>1. item.name \in Nat /\ k \in 1 .. Len(s.calls) + 1 /\ Len(s.calls) \in Nat
  BY CallForIs, StateParts DEF Items
<1>2. old \in Calls
  <2>1. CASE k <= Len(s.calls)
    <3>1. s.calls[k] \in Calls
      BY <1>1, <2>1, StateParts, ElementOfSeq
    <3> QED
      BY <2>1, <3>1
  <2>2. CASE ~(k <= Len(s.calls))
    <3>1. <<>> \in Texts
      BY EmptySeq DEF Texts
    <3> QED
      BY <2>2, <3>1 DEF Calls, NoName
  <2> QED
    BY <2>1, <2>2
<1>3. c = [old EXCEPT !.at = at, !.name = IF item.name = NoName THEN @ ELSE item.name]
  BY DEF NewCall
<1>4. /\ k <= Len(s.calls) => old = s.calls[k]
      /\ ~(k <= Len(s.calls)) => old.name = NoName /\ old.args = <<>>
  OBVIOUS
<1> HIDE DEF old
<1>5. /\ c \in Calls /\ c.at = at /\ c.args = old.args
      /\ item.name # NoName => c.name = item.name
      /\ item.name = NoName => c.name = old.name
  BY <1>1, <1>2, <1>3 DEF Calls, NoName
<1> QED
  BY <1>4, <1>5

LEMMA EnsuredAll ==
  ASSUME NEW s \in States, Pointing(s), NEW item \in Items, NEW at \in Nat
  PROVE  /\ Ensured(s, item, at) \in States
         /\ Ensured(s, item, at).calls =
              IF CallFor(s, item, at) <= Len(s.calls) THEN [s.calls EXCEPT ![CallFor(s, item, at)] = NewCall(s, item, at)]
              ELSE Append(s.calls, NewCall(s, item, at))
         /\ Ensured(s, item, at).byName = IF item.name = NoName THEN s.byName ELSE Put(s.byName, item.name, CallFor(s, item, at))
         /\ Ensured(s, item, at).byOutput = Put(s.byOutput, at, CallFor(s, item, at)) /\ Ensured(s, item, at).current = CallFor(s, item, at)
         /\ Ensured(s, item, at).text = s.text /\ Ensured(s, item, at).items = s.items /\ Ensured(s, item, at).next = s.next
         /\ Ensured(s, item, at).failed = s.failed /\ Ensured(s, item, at).terminal = s.terminal
<1> DEFINE k == CallFor(s, item, at)
           r == Ensured(s, item, at)
           c == NewCall(s, item, at)
           calls == IF k <= Len(s.calls) THEN [s.calls EXCEPT ![k] = c] ELSE Append(s.calls, c)
           byName == IF item.name = NoName THEN s.byName ELSE Put(s.byName, item.name, k)
           byOutput == Put(s.byOutput, at, k)
<1>1. /\ item.name \in Nat /\ k \in 1 .. Len(s.calls) + 1 /\ Len(s.calls) \in Nat
      /\ k \in Nat \ {0}
  BY CallForIs, StateParts, SMTT(30) DEF Items
<1>2. c \in Calls
  BY NewCallIs
<1>3. r = [s EXCEPT !.calls = calls, !.byName = byName, !.byOutput = byOutput, !.current = k]
  BY DEF Ensured, NewCall
<1> HIDE DEF c
<1>4. calls \in Seq(Calls)
  <2>1. CASE k <= Len(s.calls)
    <3>1. k \in 1 .. Len(s.calls)
      BY <1>1, <2>1
    <3>2. [s.calls EXCEPT ![k] = c] \in Seq(Calls)
      BY <1>2, <3>1, StateParts, ExceptSeq
    <3> QED
      BY <2>1, <3>2
  <2>2. CASE ~(k <= Len(s.calls))
    <3>1. Append(s.calls, c) \in Seq(Calls)
      BY <1>2, StateParts, AppendProperties
    <3> QED
      BY <2>2, <3>1
  <2> QED
    BY <2>1, <2>2
<1>5. byName \in Maps(Nat \ {0}, Nat \ {0}) /\ byOutput \in Maps(Nat, Nat \ {0})
  <2>1. byOutput \in Maps(Nat, Nat \ {0})
    BY <1>1, StateParts, PutTyped
  <2>2. CASE item.name = NoName
    BY <2>1, <2>2, StateParts
  <2>3. CASE item.name # NoName
    <3>1. item.name \in Nat \ {0}
      BY <1>1, <2>3 DEF NoName
    <3> QED
      BY <1>1, <2>1, <2>3, <3>1, StateParts, PutTyped
  <2> QED
    BY <2>2, <2>3
<1>6. calls = IF k <= Len(s.calls) THEN [s.calls EXCEPT ![k] = NewCall(s, item, at)]
              ELSE Append(s.calls, NewCall(s, item, at))
  BY DEF c, k
<1> HIDE DEF k, r, calls, byName, byOutput
<1>7. r \in States
  BY <1>1, <1>3, <1>4, <1>5 DEF States
<1>8. /\ r.calls = calls /\ r.byName = byName /\ r.byOutput = byOutput /\ r.current = k
      /\ r.text = s.text /\ r.items = s.items /\ r.next = s.next
      /\ r.failed = s.failed /\ r.terminal = s.terminal
  BY <1>3 DEF States
<1> QED
  BY <1>6, <1>7, <1>8 DEF byName, byOutput, k, r

LEMMA EnsuredTyped ==
  ASSUME NEW s \in States, Pointing(s), NEW item \in Items, NEW at \in Nat
  PROVE  Ensured(s, item, at) \in States
BY EnsuredAll

LEMMA EnsuredKeeps ==
  ASSUME NEW s \in States, Pointing(s), NEW item \in Items, NEW at \in Nat
  PROVE  /\ Ensured(s, item, at).current = CallFor(s, item, at)
         /\ Ensured(s, item, at).text = s.text /\ Ensured(s, item, at).items = s.items /\ Ensured(s, item, at).next = s.next
         /\ Ensured(s, item, at).failed = s.failed /\ Ensured(s, item, at).terminal = s.terminal
BY EnsuredAll

(* Ensured touches one call, and no arguments.                               *)
LEMMA EnsuredCalls ==
  ASSUME NEW s \in States, Pointing(s), NEW item \in Items, NEW at \in Nat, NEW k, NEW r,
         k = CallFor(s, item, at), r = Ensured(s, item, at)
  PROVE  /\ k \in 1 .. Len(r.calls)
         /\ Len(r.calls) = IF k <= Len(s.calls) THEN Len(s.calls) ELSE Len(s.calls) + 1
         /\ ~(k <= Len(s.calls)) => k = Len(s.calls) + 1
         /\ \A i \in 1 .. Len(s.calls) :
              r.calls[i].args = s.calls[i].args /\ (i # k => r.calls[i] = s.calls[i])
         /\ r.calls[k] = NewCall(s, item, at)
<1> DEFINE c == NewCall(s, item, at)
<1>1. k \in 1 .. Len(s.calls) + 1 /\ Len(s.calls) \in Nat /\ s.calls \in Seq(Calls)
  BY CallForIs, StateParts
<1>2. c \in Calls /\ (k <= Len(s.calls) => c.args = s.calls[k].args)
  BY NewCallIs
<1>3. r.calls = IF k <= Len(s.calls) THEN [s.calls EXCEPT ![k] = c] ELSE Append(s.calls, c)
  BY EnsuredAll
<1> HIDE DEF c
<1>4. CASE k <= Len(s.calls)
  <2>1. k \in 1 .. Len(s.calls)
    BY <1>1, <1>4
  <2>2. /\ Len([s.calls EXCEPT ![k] = c]) = Len(s.calls)
        /\ \A i \in 1 .. Len(s.calls) : [s.calls EXCEPT ![k] = c][i] = IF i = k THEN c ELSE s.calls[i]
    BY <1>1, <1>2, <2>1, ExceptSeq
  <2> QED
    BY <1>2, <1>3, <1>4, <2>1, <2>2 DEF c
<1>5. CASE ~(k <= Len(s.calls))
  <2>1. k = Len(s.calls) + 1
    BY <1>1, <1>5
  <2>2. /\ Len(Append(s.calls, c)) = Len(s.calls) + 1
        /\ \A i \in 1 .. Len(s.calls) : Append(s.calls, c)[i] = s.calls[i]
        /\ Append(s.calls, c)[Len(s.calls) + 1] = c
    BY <1>1, <1>2, AppendProperties
  <2> QED
    BY <1>1, <1>3, <1>5, <2>1, <2>2 DEF c
<1> QED
  BY <1>4, <1>5

LEMMA EnsuredMaps ==
  ASSUME NEW s \in States, Pointing(s), NEW item \in Items, NEW at \in Nat, NEW k, NEW r,
         k = CallFor(s, item, at), r = Ensured(s, item, at)
  PROVE  /\ DOMAIN r.byName = DOMAIN s.byName \cup (IF item.name = NoName THEN {} ELSE {item.name})
         /\ \A n \in DOMAIN r.byName :
              IF n = item.name /\ n # NoName THEN r.byName[n] = k ELSE r.byName[n] = s.byName[n]
         /\ DOMAIN r.byOutput = DOMAIN s.byOutput \cup {at}
         /\ \A i \in DOMAIN r.byOutput : IF i = at THEN r.byOutput[i] = k ELSE r.byOutput[i] = s.byOutput[i]
         /\ NoName \notin DOMAIN s.byName
<1>1. /\ k \in Nat \ {0} /\ item.name \in Nat
      /\ s.byName \in Maps(Nat \ {0}, Nat \ {0}) /\ s.byOutput \in Maps(Nat, Nat \ {0})
  BY CallForIs, StateParts, SMTT(30) DEF Items
<1>2. /\ r.byName = IF item.name = NoName THEN s.byName ELSE Put(s.byName, item.name, k)
      /\ r.byOutput = Put(s.byOutput, at, k)
  BY EnsuredAll
<1>3. NoName \notin DOMAIN s.byName
  BY <1>1, MapIs DEF NoName
<1>4. /\ DOMAIN r.byOutput = DOMAIN s.byOutput \cup {at} /\ r.byOutput[at] = k
      /\ \A i \in DOMAIN s.byOutput : i # at => r.byOutput[i] = s.byOutput[i]
  <2>1. at \in Nat
    OBVIOUS
  <2>2. /\ DOMAIN Put(s.byOutput, at, k) = DOMAIN s.byOutput \cup {at} /\ Put(s.byOutput, at, k)[at] = k
        /\ \A i \in DOMAIN s.byOutput : i # at => Put(s.byOutput, at, k)[i] = s.byOutput[i]
    <3>1. DOMAIN Put(s.byOutput, at, k) = DOMAIN s.byOutput \cup {at}
      BY PutDomain
    <3>2. Put(s.byOutput, at, k)[at] = k
      BY PutAt
    <3>3. ASSUME NEW i \in DOMAIN s.byOutput, i # at PROVE Put(s.byOutput, at, k)[i] = s.byOutput[i]
      BY <3>3, PutElse
    <3> QED
      BY <3>1, <3>2, <3>3
  <2> QED
    BY <1>2, <2>2
<1>5. CASE item.name = NoName
  BY <1>2, <1>3, <1>4, <1>5
<1>6. CASE item.name # NoName
  <2>1. item.name \in Nat \ {0}
    BY <1>1, <1>6 DEF NoName
  <2>2. /\ DOMAIN r.byName = DOMAIN s.byName \cup {item.name} /\ r.byName[item.name] = k
        /\ \A n \in DOMAIN s.byName : n # item.name => r.byName[n] = s.byName[n]
    <3>1. /\ DOMAIN Put(s.byName, item.name, k) = DOMAIN s.byName \cup {item.name}
          /\ Put(s.byName, item.name, k)[item.name] = k
          /\ \A n \in DOMAIN s.byName : n # item.name => Put(s.byName, item.name, k)[n] = s.byName[n]
      <4>1. DOMAIN Put(s.byName, item.name, k) = DOMAIN s.byName \cup {item.name}
        BY PutDomain
      <4>2. Put(s.byName, item.name, k)[item.name] = k
        BY PutAt
      <4>3. ASSUME NEW n \in DOMAIN s.byName, n # item.name
            PROVE  Put(s.byName, item.name, k)[n] = s.byName[n]
        BY <4>3, PutElse
      <4> QED
        BY <4>1, <4>2, <4>3
    <3> QED
      BY <1>2, <1>6, <3>1
  <2> QED
    BY <1>3, <1>4, <1>6, <2>2
<1> QED
  BY <1>5, <1>6

LEMMA EnsuredPoints ==
  ASSUME NEW s \in States, Pointing(s), NEW item \in Items, NEW at \in Nat, NEW r,
         r = Ensured(s, item, at)
  PROVE  Pointing(r)
<1> DEFINE k == CallFor(s, item, at)
<1>1. k \in 1 .. Len(r.calls) /\ Len(s.calls) <= Len(r.calls) /\ Len(r.calls) \in Nat
  BY EnsuredCalls, StateParts
<1>2. r.current = k
  BY EnsuredKeeps
<1>3. /\ \A n \in DOMAIN r.byName : r.byName[n] = k \/ (n \in DOMAIN s.byName /\ r.byName[n] = s.byName[n])
      /\ \A i \in DOMAIN r.byOutput : r.byOutput[i] = k \/ (i \in DOMAIN s.byOutput /\ r.byOutput[i] = s.byOutput[i])
  <2>1. /\ DOMAIN r.byName = DOMAIN s.byName \cup (IF item.name = NoName THEN {} ELSE {item.name})
        /\ \A n \in DOMAIN r.byName :
             IF n = item.name /\ n # NoName THEN r.byName[n] = k ELSE r.byName[n] = s.byName[n]
        /\ DOMAIN r.byOutput = DOMAIN s.byOutput \cup {at}
        /\ \A i \in DOMAIN r.byOutput : IF i = at THEN r.byOutput[i] = k ELSE r.byOutput[i] = s.byOutput[i]
    BY EnsuredMaps
  <2> HIDE DEF k
  <2> QED
    BY <2>1
<1> HIDE DEF k
<1>4. /\ \A n \in DOMAIN r.byName : r.byName[n] <= Len(r.calls)
      /\ \A i \in DOMAIN r.byOutput : r.byOutput[i] <= Len(r.calls)
  BY <1>1, <1>3, PointsWithin
<1> QED
  BY <1>1, <1>2, <1>4 DEF Pointing

(* An item at its place leaves every call at its place, and renames none.    *)
LEMMA EnsuredPlaced ==
  ASSUME NEW s \in States, Pointing(s), NEW item \in Items, NEW at \in Nat, NEW r,
         r = Ensured(s, item, at), Placed(s), item.name = Known(at)
  PROVE  /\ Placed(r)
         /\ \A i \in 1 .. Len(s.calls) : r.calls[i].name = s.calls[i].name
         /\ r.calls[CallFor(s, item, at)].name = item.name
<1> DEFINE k == CallFor(s, item, at)
           c == NewCall(s, item, at)
<1>1. /\ k \in 1 .. Len(r.calls) /\ Len(s.calls) \in Nat
      /\ Len(r.calls) = IF k <= Len(s.calls) THEN Len(s.calls) ELSE Len(s.calls) + 1
      /\ ~(k <= Len(s.calls)) => k = Len(s.calls) + 1
      /\ \A i \in 1 .. Len(s.calls) : i # k => r.calls[i] = s.calls[i]
      /\ r.calls[k] = c
  BY EnsuredCalls, StateParts
<1>2. /\ c.at = at
      /\ item.name # NoName => c.name = item.name
      /\ item.name = NoName => c.name = IF k <= Len(s.calls) THEN s.calls[k].name ELSE NoName
  BY NewCallIs
<1>3. /\ DOMAIN r.byName = DOMAIN s.byName \cup (IF item.name = NoName THEN {} ELSE {item.name})
      /\ \A n \in DOMAIN r.byName :
           IF n = item.name /\ n # NoName THEN r.byName[n] = k ELSE r.byName[n] = s.byName[n]
      /\ DOMAIN r.byOutput = DOMAIN s.byOutput \cup {at}
      /\ \A i \in DOMAIN r.byOutput : IF i = at THEN r.byOutput[i] = k ELSE r.byOutput[i] = s.byOutput[i]
      /\ NoName \notin DOMAIN s.byName
  BY EnsuredMaps
<1>4. k <= Len(s.calls) => s.calls[k].name = item.name
  <2> SUFFICES ASSUME k <= Len(s.calls) PROVE s.calls[k].name = item.name
    OBVIOUS
  <2>1. item.name \in Nat
    BY DEF Items
  <2>2. CASE Lookup(s, item.name) # NoItem
    <3>1. k = s.byName[item.name] /\ item.name \in DOMAIN s.byName
      BY <2>1, <2>2, LookupIs DEF CallFor
    <3> QED
      BY <3>1 DEF Placed
  <2>3. CASE Lookup(s, item.name) = NoItem /\ at \in DOMAIN s.byOutput
    <3>1. k = s.byOutput[at]
      BY <2>3 DEF CallFor
    <3> QED
      BY <2>3, <3>1 DEF Placed
  <2>4. CASE Lookup(s, item.name) = NoItem /\ at \notin DOMAIN s.byOutput
    <3>1. k = Len(s.calls) + 1
      BY <2>4 DEF CallFor
    <3> QED
      BY <1>1, <3>1
  <2> QED
    BY <2>2, <2>3, <2>4
<1>0. at \in DOMAIN s.byOutput => k <= Len(s.calls)
  <2> SUFFICES ASSUME at \in DOMAIN s.byOutput PROVE k <= Len(s.calls)
    OBVIOUS
  <2>1. s.byOutput[at] <= Len(s.calls)
    BY DEF Pointing
  <2>2. Lookup(s, item.name) \in 0 .. Len(s.calls)
    BY LookupIs DEF Items
  <2> QED
    BY <2>1, <2>2 DEF CallFor
<1> HIDE DEF c, k
<1>5. c.name = item.name
  BY <1>2, <1>4
<1>6. \A i \in 1 .. Len(s.calls) : r.calls[i].name = s.calls[i].name
  BY <1>1, <1>4, <1>5
<1>7. \A i \in 1 .. Len(r.calls) : i = k \/ (i \in 1 .. Len(s.calls) /\ r.calls[i] = s.calls[i])
  BY <1>1
<1>8. \A i \in 1 .. Len(r.calls) : r.calls[i].name = Known(r.calls[i].at)
  BY <1>1, <1>2, <1>5, <1>7, SMTT(30) DEF Placed
<1>9. /\ \A n \in DOMAIN s.byName : s.byName[n] \in 1 .. Len(s.calls)
      /\ \A i \in DOMAIN s.byOutput : s.byOutput[i] \in 1 .. Len(s.calls)
  BY PointsWithin
<1>10. \A n \in DOMAIN r.byName : r.calls[r.byName[n]].name = n
  <2> TAKE n \in DOMAIN r.byName
  <2>1. CASE n = item.name /\ n # NoName
    BY <1>1, <1>3, <1>5, <2>1
  <2>2. CASE ~(n = item.name /\ n # NoName)
    <3>1. n \in DOMAIN s.byName /\ r.byName[n] = s.byName[n]
      BY <1>3, <2>2
    <3>2. s.byName[n] \in 1 .. Len(s.calls) /\ s.calls[s.byName[n]].name = n
      BY <1>9, <3>1 DEF Placed
    <3> QED
      BY <1>6, <3>1, <3>2
  <2> QED
    BY <2>1, <2>2
<1>11. \A i \in DOMAIN r.byOutput : r.calls[r.byOutput[i]].name = Known(i)
  <2> TAKE i \in DOMAIN r.byOutput
  <2>1. CASE i = at
    BY <1>1, <1>3, <1>5, <2>1
  <2>2. CASE i # at
    <3>1. i \in DOMAIN s.byOutput /\ r.byOutput[i] = s.byOutput[i]
      BY <1>3, <2>2
    <3>2. s.byOutput[i] \in 1 .. Len(s.calls) /\ s.calls[s.byOutput[i]].name = Known(i)
      BY <1>9, <3>1 DEF Placed
    <3> QED
      BY <1>6, <3>1, <3>2
  <2> QED
    BY <2>1, <2>2
<1>12. k <= Len(s.calls) => s.calls[k].at = at
  <2> SUFFICES ASSUME k <= Len(s.calls) PROVE s.calls[k].at = at
    OBVIOUS
  <2>1. k \in 1 .. Len(s.calls) /\ item.name \in Nat
    BY <1>1 DEF Items
  <2>2. CASE item.name # NoName
    <3>1. s.calls[k].at \in Nat /\ at \in Nat
      <4>1. s.calls[k] \in Calls
        BY <2>1, StateParts, ElementOfSeq
      <4> QED
        BY <4>1 DEF Calls
    <3>2. s.calls[k].name = Known(at) /\ s.calls[k].name = Known(s.calls[k].at) /\ Known(at) # NoName
      BY <1>4, <2>1, <2>2 DEF Placed
    <3> QED
      BY <3>1, <3>2 DEF Known, NoName
  <2>3. CASE item.name = NoName
    <3>1. Lookup(s, item.name) = NoItem
      BY <1>3, <2>3 DEF Lookup
    <3>2. CASE at \in DOMAIN s.byOutput
      <4>1. k = s.byOutput[at]
        BY <3>1, <3>2 DEF CallFor, k
      <4> QED
        BY <3>2, <4>1 DEF Placed
    <3>3. CASE at \notin DOMAIN s.byOutput
      <4>1. k = Len(s.calls) + 1
        BY <3>1, <3>3 DEF CallFor, k
      <4> QED
        BY <2>1, <4>1
    <3> QED
      BY <3>2, <3>3
  <2> QED
    BY <2>2, <2>3
<1>13. \A i \in DOMAIN r.byOutput : r.calls[r.byOutput[i]].at = i
  <2> TAKE i \in DOMAIN r.byOutput
  <2>1. CASE i = at
    BY <1>1, <1>2, <1>3, <2>1
  <2>2. CASE i # at
    <3>1. i \in DOMAIN s.byOutput /\ r.byOutput[i] = s.byOutput[i] /\ s.byOutput[i] \in 1 .. Len(s.calls)
          /\ s.calls[s.byOutput[i]].at = i
      BY <1>3, <1>9, <2>2 DEF Placed
    <3>2. s.byOutput[i] # k
      BY <1>12, <2>2, <3>1
    <3> QED
      BY <1>1, <3>1, <3>2
  <2> QED
    BY <2>1, <2>2
<1>14. \A i \in 1 .. Len(r.calls) : r.calls[i].at \in DOMAIN r.byOutput /\ r.byOutput[r.calls[i].at] = i
  <2> TAKE i \in 1 .. Len(r.calls)
  <2>1. CASE i = k
    BY <1>1, <1>2, <1>3, <2>1
  <2>2. CASE i # k
    <3>1. i \in 1 .. Len(s.calls) /\ r.calls[i] = s.calls[i]
      BY <1>7, <2>2
    <3>2. s.calls[i].at \in DOMAIN s.byOutput /\ s.byOutput[s.calls[i].at] = i
      BY <3>1 DEF Placed
    <3>3. s.calls[i].at # at
      <4>1. CASE at \in DOMAIN s.byOutput
        <5>1. k <= Len(s.calls) => s.byOutput[at] = k
          BY <1>1, <1>12 DEF Placed
        <5>2. ~(k <= Len(s.calls)) => FALSE
          BY <1>1, <1>0, <4>1
        <5> QED
          BY <2>2, <3>2, <5>1, <5>2
      <4>2. CASE at \notin DOMAIN s.byOutput
        BY <3>2, <4>2
      <4> QED
        BY <4>1, <4>2
    <3> QED
      BY <1>3, <3>1, <3>2, <3>3
  <2> QED
    BY <2>1, <2>2
<1> QED
  BY <1>1, <1>5, <1>6, <1>8, <1>10, <1>11, <1>13, <1>14 DEF Placed, k

-----------------------------------------------------------------------------
(* What deltas tell a client.  t is what the client has: the calls with the  *)
(* same arguments, and, if it was told, the same names.                      *)
Matches(t, calls) ==
  /\ Len(t) = Len(calls)
  /\ \A i \in 1 .. Len(calls) : t[i].args = calls[i].args

Named(t, calls) == \A i \in 1 .. Len(calls) : t[i].name = calls[i].name

Tells(deltas, old, new) ==
  \A t \in Seq(ToolCalls) : Matches(t, old) => Matches(Assembled(t, deltas), new)

TellsNames(deltas, old, new) ==
  \A t \in Seq(ToolCalls) : Matches(t, old) /\ Named(t, old) => Named(Assembled(t, deltas), new)

SameArgs(old, new) ==
  Len(new) = Len(old) /\ \A i \in 1 .. Len(old) : new[i].args = old[i].args

SameNames(old, new) == \A i \in 1 .. Len(old) : new[i].name = old[i].name

LEMMA TellsNothing ==
  ASSUME NEW old \in Seq(Calls), NEW new \in Seq(Calls), SameArgs(old, new)
  PROVE  /\ Tells(<<>>, old, new)
         /\ SameNames(old, new) => TellsNames(<<>>, old, new)
<1>1. \A t \in Seq(ToolCalls) : Assembled(t, <<>>) = t
  BY AssembledNone
<1>2. Tells(<<>>, old, new)
  BY <1>1 DEF Tells, Matches, SameArgs
<1>3. ASSUME SameNames(old, new) PROVE TellsNames(<<>>, old, new)
  BY <1>1, <1>3 DEF TellsNames, Named, SameNames, SameArgs
<1> QED
  BY <1>2, <1>3

(* More arguments of a call.                                                 *)
LEMMA TellsArgs ==
  ASSUME NEW old \in Seq(Calls), NEW new \in Seq(Calls), NEW k \in 1 .. Len(old), NEW delta \in Texts,
         Len(new) = Len(old), new[k].args = old[k].args \o delta,
         \A i \in 1 .. Len(old) : i # k => new[i].args = old[i].args
  PROVE  /\ ArgsDelta(k, delta) \in Seq(ToolDeltas)
         /\ Tells(ArgsDelta(k, delta), old, new)
         /\ SameNames(old, new) => TellsNames(ArgsDelta(k, delta), old, new)
<1>0. Len(old) \in Nat /\ k \in Nat \ {0} /\ old[k] \in Calls
  BY LenProperties, ElementOfSeq
<1>1. CASE delta = <<>>
  <2>1. ArgsDelta(k, delta) = <<>> /\ <<>> \in Seq(ToolDeltas)
    BY <1>1, EmptySeq DEF ArgsDelta
  <2>2. old[k].args \in Seq(Letters)
    BY <1>0 DEF Calls, Texts
  <2>3. new[k].args = old[k].args
    BY <1>1, <2>2, ConcatEmptySeq
  <2>4. SameArgs(old, new)
    BY <2>3 DEF SameArgs
  <2> QED
    BY <2>1, <2>4, TellsNothing
<1>2. CASE delta # <<>>
  <2> DEFINE d == [call |-> k, name |-> NoName, args |-> delta]
  <2>1. d \in ToolDeltas /\ d.call = k /\ d.args = delta
    BY <1>0 DEF ToolDeltas, NoName
  <2>2. ArgsDelta(k, delta) = <<d>>
    BY <1>2 DEF ArgsDelta
  <2> HIDE DEF d
  <2>3. <<d>> \in Seq(ToolDeltas)
    BY <2>1
  <2>4. ASSUME NEW t \in Seq(ToolCalls), Matches(t, old)
        PROVE  /\ Matches(Assembled(t, <<d>>), new)
               /\ Named(t, old) /\ SameNames(old, new) => Named(Assembled(t, <<d>>), new)
    <3> DEFINE a == Assembled(t, <<d>>)
    <3>1. a = Added(t, d) /\ d.call <= Len(t) /\ Len(t) = Len(old)
      BY <1>0, <2>1, <2>4, AssembledOne DEF Matches
    <3>2. /\ Len(a) = Len(t)
          /\ \A i \in 1 .. Len(t) : a[i].name = t[i].name /\ (i # k => a[i].args = t[i].args)
          /\ a[k].args = t[k].args \o delta
      <4>1. /\ Len(Added(t, d)) = Len(t)
            /\ \A i \in 1 .. Len(t) :
                 /\ Added(t, d)[i].name = t[i].name
                 /\ i # d.call => Added(t, d)[i].args = t[i].args
            /\ Added(t, d)[d.call].args = t[d.call].args \o d.args
        BY <2>1, <3>1, AddedToKnown
      <4> HIDE DEF a
      <4> QED
        BY <2>1, <3>1, <4>1
    <3> HIDE DEF a
    <3>3. t[k].args = old[k].args
      BY <2>4 DEF Matches
    <3>4. Matches(a, new)
      <4>1. \A i \in 1 .. Len(new) : a[i].args = new[i].args
        <5> TAKE i \in 1 .. Len(new)
        <5>1. CASE i = k
          BY <3>2, <3>3, <5>1
        <5>2. CASE i # k
          BY <2>4, <3>1, <3>2, <5>2 DEF Matches
        <5> QED
          BY <5>1, <5>2
      <4> QED
        BY <3>1, <3>2, <4>1 DEF Matches
    <3>5. ASSUME Named(t, old), SameNames(old, new) PROVE Named(a, new)
      BY <3>1, <3>2, <3>5 DEF Named, SameNames
    <3> QED
      BY <3>4, <3>5 DEF a
  <2> QED
    BY <2>2, <2>3, <2>4 DEF Tells, TellsNames
<1> QED
  BY <1>1, <1>2

(* A call that is new.                                                       *)
LEMMA TellsCall ==
  ASSUME NEW old \in Seq(Calls), NEW new \in Seq(Calls), NEW n, n = Len(old) + 1, Len(new) = n,
         \A i \in 1 .. Len(old) : new[i].args = old[i].args,
         NEW d, d = [call |-> n, name |-> new[n].name, args |-> new[n].args]
  PROVE  /\ d \in ToolDeltas
         /\ Tells(<<d>>, old, new)
         /\ SameNames(old, new) => TellsNames(<<d>>, old, new)
<1>0. Len(old) \in Nat /\ n \in 1 .. Len(new) /\ n \in Nat \ {0}
  BY LenProperties
<1>1. new[n] \in Calls
  BY <1>0, ElementOfSeq
<1>2. d \in ToolDeltas /\ d.call = n /\ d.name = new[n].name /\ d.args = new[n].args
  BY <1>0, <1>1 DEF ToolDeltas, Calls
<1>3. ASSUME NEW t \in Seq(ToolCalls), Matches(t, old)
      PROVE  /\ Matches(Assembled(t, <<d>>), new)
             /\ Named(t, old) /\ SameNames(old, new) => Named(Assembled(t, <<d>>), new)
  <2> DEFINE a == Assembled(t, <<d>>)
  <2>1. a = Added(t, d) /\ ~(d.call <= Len(t)) /\ Len(t) = Len(old)
    BY <1>0, <1>2, <1>3, AssembledOne DEF Matches
  <2>2. /\ Len(a) = n
        /\ \A i \in 1 .. Len(old) : a[i] = t[i]
        /\ a[n] = [name |-> d.name, args |-> d.args]
    BY <1>2, <2>1, AddedAsNew, SMTT(30)
  <2> HIDE DEF a
  <2>3. a[n].name = new[n].name /\ a[n].args = new[n].args
    BY <1>2, <2>2
  <2>4. \A i \in 1 .. Len(new) : i = n \/ i \in 1 .. Len(old)
    BY <1>0
  <2>5. Matches(a, new)
    BY <1>3, <2>2, <2>3, <2>4 DEF Matches
  <2>6. ASSUME Named(t, old), SameNames(old, new) PROVE Named(a, new)
    BY <2>2, <2>3, <2>4, <2>6 DEF Named, SameNames
  <2> QED
    BY <2>5, <2>6 DEF a
<1> QED
  BY <1>2, <1>3 DEF Tells, TellsNames

(* One update after another.                                                 *)
Short(deltas) == deltas = <<>> \/ \E d \in ToolDeltas : deltas = <<d>>

LEMMA TellsMore ==
  ASSUME NEW old, NEW mid, NEW new, NEW a \in Seq(ToolDeltas), NEW b, Short(b),
         Tells(a, old, mid), Tells(b, mid, new)
  PROVE  /\ a \o b \in Seq(ToolDeltas)
         /\ Tells(a \o b, old, new)
         /\ TellsNames(a, old, mid) /\ TellsNames(b, mid, new) => TellsNames(a \o b, old, new)
<1>1. b \in Seq(ToolDeltas)
  <2>1. CASE b = <<>>
    BY <2>1, EmptySeq
  <2>2. ASSUME NEW d \in ToolDeltas, b = <<d>> PROVE b \in Seq(ToolDeltas)
    BY <2>2
  <2> QED
    BY <2>1, <2>2 DEF Short
<1>2. a \o b \in Seq(ToolDeltas)
  BY <1>1, ConcatProperties
<1>3. ASSUME NEW t \in Seq(ToolCalls)
      PROVE  /\ Assembled(t, a) \in Seq(ToolCalls)
             /\ Assembled(t, a \o b) = Assembled(Assembled(t, a), b)
  <2>1. CASE b = <<>>
    <3>1. a \o b = a
      BY <2>1, ConcatEmptySeq
    <3>2. Assembled(t, a) \in Seq(ToolCalls)
      <4>1. PICK h \in [0 .. Len(a) -> Seq(ToolCalls)] : Assembled(t, a) = h[Len(a)]
        BY AssembledSteps
      <4>2. Len(a) \in 0 .. Len(a)
        BY LenProperties
      <4> QED
        BY <4>1, <4>2
    <3> QED
      BY <2>1, <3>1, <3>2, AssembledNone
  <2>2. ASSUME NEW d \in ToolDeltas, b = <<d>>
        PROVE  /\ Assembled(t, a) \in Seq(ToolCalls)
               /\ Assembled(t, a \o b) = Assembled(Assembled(t, a), b)
    <3>1. a \o b = Append(a, d)
      BY <2>2, AppendIsConcat
    <3> QED
      BY <2>2, <3>1, AssembledMore, AssembledOne, ZenonT(30)
  <2> QED
    BY <2>1, <2>2 DEF Short
<1>4. Tells(a \o b, old, new)
  BY <1>3 DEF Tells
<1>5. ASSUME TellsNames(a, old, mid), TellsNames(b, mid, new)
      PROVE  TellsNames(a \o b, old, new)
  <2> SUFFICES ASSUME NEW t \in Seq(ToolCalls), Matches(t, old), Named(t, old)
               PROVE  Named(Assembled(t, a \o b), new)
    BY DEF TellsNames
  <2>1. Matches(Assembled(t, a), mid) /\ Named(Assembled(t, a), mid) /\ Assembled(t, a) \in Seq(ToolCalls)
    BY <1>3, <1>5 DEF Tells, TellsNames
  <2> QED
    BY <1>3, <1>5, <2>1 DEF TellsNames
<1> QED
  BY <1>2, <1>4, <1>5

-----------------------------------------------------------------------------
(* What an update must be: its text is what the state has more, and its      *)
(* deltas tell the client what the calls have more.                          *)
Sound(s, u) ==
  /\ u.state \in States /\ Pointing(u.state)
  /\ u.text \in Texts /\ u.tools \in Seq(ToolDeltas)
  /\ ~u.state.failed => /\ u.state.text = s.text \o u.text
                        /\ Tells(u.tools, s.calls, u.state.calls)

(* It says the right names, too.                                             *)
Orderly(s, u) ==
  ~u.state.failed => Placed(u.state) /\ TellsNames(u.tools, s.calls, u.state.calls)

(* An update that says nothing of tool calls.                                *)
LEMMA SoundText ==
  ASSUME NEW s \in States, Pointing(s), NEW t \in States, NEW text \in Texts,
         t.calls = s.calls, Same(s, t), ~t.failed => t.text = s.text \o text
  PROVE  /\ Sound(s, Update(t, text, <<>>))
         /\ Placed(s) => Orderly(s, Update(t, text, <<>>))
<1> DEFINE u == Update(t, text, <<>>)
<1>1. u.state = t /\ u.text = text /\ u.tools = <<>>
  BY DEF Update
<1> HIDE DEF u
<1>2. Pointing(t) /\ (Placed(s) => Placed(t))
  BY SameKeeps
<1>3. SameArgs(s.calls, t.calls) /\ SameNames(s.calls, t.calls)
  BY DEF SameArgs, SameNames
<1>4. s.calls \in Seq(Calls) /\ t.calls \in Seq(Calls)
  BY StateParts
<1>5. Tells(<<>>, s.calls, t.calls) /\ TellsNames(<<>>, s.calls, t.calls)
  BY <1>3, <1>4, TellsNothing
<1>6. <<>> \in Seq(ToolDeltas)
  BY EmptySeq
<1>7. Sound(s, u)
  BY <1>1, <1>2, <1>5, <1>6 DEF Sound
<1>8. Placed(s) => Orderly(s, u)
  BY <1>1, <1>2, <1>5 DEF Orderly
<1> QED
  BY <1>7, <1>8 DEF u

LEMMA NoText ==
  /\ <<>> \in Texts
  /\ \A s \in Texts : s \o <<>> = s /\ <<>> \o s = s
BY EmptySeq, ConcatEmptySeq DEF Texts

LEMMA SoundQuiet ==
  ASSUME NEW s \in States, Pointing(s)
  PROVE  /\ Sound(s, Quiet(s)) /\ (Placed(s) => Orderly(s, Quiet(s)))
         /\ Quiet(s).state = s
<1>1. s.text = s.text \o <<>> /\ <<>> \in Texts
  BY NoText, StateParts
<1>2. Same(s, s)
  BY DEF Same
<1>3. Sound(s, Update(s, <<>>, <<>>)) /\ (Placed(s) => Orderly(s, Update(s, <<>>, <<>>)))
  BY <1>1, <1>2, SoundText
<1> QED
  BY <1>3 DEF Quiet, Update

LEMMA SoundFailure ==
  ASSUME NEW s \in States, Pointing(s)
  PROVE  /\ Sound(s, Failure(s)) /\ Orderly(s, Failure(s))
         /\ Failure(s).state.failed
         /\ Failure(s).state = [s EXCEPT !.failed = TRUE]
         /\ Same(s, Failure(s).state)
<1> DEFINE t == [s EXCEPT !.failed = TRUE]
<1>1. t \in States /\ t.failed /\ t.calls = s.calls
  BY DEF States
<1>2. Same(s, t)
  BY DEF Same, States
<1>3. Failure(s) = Update(t, <<>>, <<>>) /\ Failure(s).state = t
  BY DEF Failure, Quiet, Update
<1> HIDE DEF t
<1>4. <<>> \in Texts
  BY NoText
<1>5. Sound(s, Failure(s))
  BY <1>1, <1>2, <1>3, <1>4, SoundText
<1>6. Orderly(s, Failure(s))
  BY <1>1, <1>3 DEF Orderly
<1> QED
  BY <1>1, <1>2, <1>3, <1>5, <1>6 DEF t

(* After is what makes a beginning whole.                                    *)
LEMMA PrefixAdds ==
  ASSUME NEW old \in Texts, NEW new \in Texts, IsPrefix(old, new)
  PROVE  After(new, Len(old)) \in Texts /\ old \o After(new, Len(old)) = new
<1>1. /\ Len(old) \in Nat /\ Len(new) \in Nat /\ Len(old) <= Len(new)
      /\ SubSeq(old, 1, Len(old)) = SubSeq(new, 1, Len(old))
  BY LenProperties DEF IsPrefix, Texts
<1>2. Len(old) \in 0 .. Len(new)
  BY <1>1
<1>3. SubSeq(old, 1, Len(old)) = old
  BY SubSeqFull DEF Texts
<1>4. Before(new, Len(old)) = old
  BY <1>1, <1>3 DEF Before
<1>5. Before(new, Len(old)) \o After(new, Len(old)) = new
  BY <1>2, BeforeAndAfter DEF Texts
<1>6. After(new, Len(old)) \in Texts
  BY <1>2, AfterIs DEF Texts
<1> QED
  BY <1>4, <1>5, <1>6

(* reconcileTextSnapshot of the stream.                                      *)
LEMMA TextSet ==
  ASSUME NEW s \in States, NEW text \in Texts
  PROVE  /\ [s EXCEPT !.text = text] \in States
         /\ [s EXCEPT !.text = text].text = text
         /\ [s EXCEPT !.text = text].calls = s.calls
         /\ [s EXCEPT !.text = text].failed = s.failed
         /\ Same(s, [s EXCEPT !.text = text])
<1> DEFINE t == [s EXCEPT !.text = text]
<1>1. t \in States /\ t.text = text /\ t.calls = s.calls /\ t.failed = s.failed
  BY DEF States
<1>2. Same(s, t)
  BY DEF Same, States
<1> QED
  BY <1>1, <1>2

LEMMA SnapshotSound ==
  ASSUME NEW s \in States, Pointing(s), NEW snapshot \in Texts
  PROVE  /\ Sound(s, TextSnapshot(s, snapshot, TRUE))
         /\ Placed(s) => Orderly(s, TextSnapshot(s, snapshot, TRUE))
         /\ Same(s, TextSnapshot(s, snapshot, TRUE).state)
<1>0. s.text \in Texts
  BY StateParts
<1>1. CASE IsPrefix(s.text, snapshot)
  <2> DEFINE t == [s EXCEPT !.text = snapshot]
             more == After(snapshot, Len(s.text))
  <2>1. t \in States /\ t.calls = s.calls /\ t.text = snapshot /\ Same(s, t)
    BY TextSet
  <2>2. more \in Texts /\ s.text \o more = snapshot
    BY <1>0, <1>1, PrefixAdds
  <2>3. TextSnapshot(s, snapshot, TRUE) = Update(t, more, <<>>)
    BY <1>1 DEF TextSnapshot
  <2> HIDE DEF t, more
  <2>4. Sound(s, Update(t, more, <<>>)) /\ (Placed(s) => Orderly(s, Update(t, more, <<>>)))
    BY <2>1, <2>2, SoundText
  <2>5. Update(t, more, <<>>).state = t
    BY DEF Update
  <2> QED
    BY <2>1, <2>3, <2>4, <2>5
<1>2. CASE ~IsPrefix(s.text, snapshot)
  <2>1. TextSnapshot(s, snapshot, TRUE) = Failure(s)
    BY <1>2 DEF TextSnapshot
  <2> QED
    BY <2>1, SoundFailure
<1> QED
  BY <1>1, <1>2

(* An update with more arguments of one call: args is what it has and delta. *)
Extends(s, k, delta, args) == args = s.calls[k].args \o delta

LEMMA SoundArgs ==
  ASSUME NEW s \in States, Pointing(s), NEW k \in 1 .. Len(s.calls), NEW delta \in Texts,
         NEW args \in Texts, Extends(s, k, delta, args),
         NEW t, SetsArgs(s, t, k, args)
  PROVE  /\ Sound(s, Update(t, <<>>, ArgsDelta(k, delta)))
         /\ Placed(s) => Orderly(s, Update(t, <<>>, ArgsDelta(k, delta)))
         /\ Same(s, t)
<1>1. t \in States /\ Same(s, t) /\ t.text = s.text
  BY DEF SetsArgs
<1>2. Pointing(t) /\ (Placed(s) => Placed(t))
  BY ArgsSetKeeps
<1> DEFINE old == s.calls
           new == t.calls
           d == ArgsDelta(k, delta)
<1>3. old \in Seq(Calls) /\ new \in Seq(Calls) /\ t.text \in Texts /\ k \in 1 .. Len(old)
  BY <1>1, StateParts
<1>4. new[k].args = args /\ \A i \in 1 .. Len(old) : i # k => new[i] = old[i]
  BY DEF SetsArgs
<1>5. Len(new) = Len(old) /\ SameNames(old, new)
  BY <1>1 DEF Same, SameNames
<1>6. args = old[k].args \o delta
  BY DEF Extends
<1>7. Tells(d, old, new) <=> Tells(d, s.calls, t.calls)
  OBVIOUS
<1>8. TellsNames(d, old, new) <=> TellsNames(d, s.calls, t.calls)
  OBVIOUS
<1> HIDE DEF old, new
<1>9. new[k].args = old[k].args \o delta
  BY <1>4, <1>6
<1>10. \A i \in 1 .. Len(old) : i # k => new[i].args = old[i].args
  BY <1>4
<1>11. d \in Seq(ToolDeltas) /\ Tells(d, old, new) /\ TellsNames(d, old, new)
  BY <1>3, <1>5, <1>9, <1>10, TellsArgs
<1> DEFINE u == Update(t, <<>>, d)
<1>12. u.state = t /\ u.text = <<>> /\ u.tools = d
  BY DEF Update
<1> HIDE DEF u, d
<1>13. t.text = s.text \o <<>> /\ <<>> \in Texts
  BY <1>1, <1>3, NoText
<1>14. Sound(s, u)
  BY <1>1, <1>2, <1>7, <1>11, <1>12, <1>13 DEF Sound
<1>15. Placed(s) => Orderly(s, u)
  BY <1>2, <1>8, <1>11, <1>12 DEF Orderly
<1> QED
  BY <1>1, <1>14, <1>15 DEF u, d

(* reconcileToolArguments of the stream.                                     *)
LEMMA ArgsSnapshotSound ==
  ASSUME NEW s \in States, Pointing(s), NEW k \in 1 .. Len(s.calls), NEW args \in Texts
  PROVE  /\ Sound(s, ArgsSnapshot(s, k, args, TRUE))
         /\ Placed(s) => Orderly(s, ArgsSnapshot(s, k, args, TRUE))
         /\ Same(s, ArgsSnapshot(s, k, args, TRUE).state)
<1>0. s.calls[k].args \in Texts
  <2>1. s.calls[k] \in Calls
    BY StateParts, ElementOfSeq
  <2> QED
    BY <2>1 DEF Calls
<1>1. CASE IsPrefix(s.calls[k].args, args)
  <2> DEFINE more == After(args, Len(s.calls[k].args))
             t == [s EXCEPT !.calls[k].args = args]
  <2>1. more \in Texts /\ s.calls[k].args \o more = args
    BY <1>0, <1>1, PrefixAdds
  <2>2. ArgsSnapshot(s, k, args, TRUE) = Update(t, <<>>, ArgsDelta(k, more))
    BY <1>1 DEF ArgsSnapshot
  <2>3. SetsArgs(s, t, k, args) /\ Extends(s, k, more, args)
    BY <2>1, ArgsSetChanges DEF Extends
  <2> HIDE DEF more, t
  <2>4. /\ Sound(s, Update(t, <<>>, ArgsDelta(k, more)))
        /\ Placed(s) => Orderly(s, Update(t, <<>>, ArgsDelta(k, more)))
        /\ Same(s, t)
    BY <2>1, <2>3, SoundArgs
  <2>5. Update(t, <<>>, ArgsDelta(k, more)).state = t
    BY DEF Update
  <2> QED
    BY <2>2, <2>4, <2>5
<1>2. CASE ~IsPrefix(s.calls[k].args, args)
  <2>1. ArgsSnapshot(s, k, args, TRUE) = Failure(s)
    BY <1>2 DEF ArgsSnapshot
  <2> QED
    BY <2>1, SoundFailure
<1> QED
  BY <1>1, <1>2

-----------------------------------------------------------------------------
(* What was sound after a step that told nothing is sound before it.         *)
LEMMA SoundAfter ==
  ASSUME NEW s \in States, NEW m \in States, NEW u, Sound(m, u),
         m.text = s.text, SameArgs(s.calls, m.calls)
  PROVE  /\ Sound(s, u)
         /\ Orderly(m, u) /\ SameNames(s.calls, m.calls) => Orderly(s, u)
<1>1. ASSUME NEW t, Matches(t, s.calls) PROVE Matches(t, m.calls)
  BY <1>1 DEF Matches, SameArgs
<1>2. ~u.state.failed => Tells(u.tools, s.calls, u.state.calls)
  BY <1>1 DEF Sound, Tells
<1>3. Sound(s, u)
  BY <1>2 DEF Sound
<1>4. ASSUME NEW t, Matches(t, s.calls), Named(t, s.calls), SameNames(s.calls, m.calls)
      PROVE  Named(t, m.calls)
  BY <1>4 DEF Named, SameNames, SameArgs
<1>5. ASSUME Orderly(m, u), SameNames(s.calls, m.calls) PROVE Orderly(s, u)
  BY <1>1, <1>4, <1>5 DEF Orderly, TellsNames
<1> QED
  BY <1>3, <1>5

(* A call that is new is told whole.                                         *)
LEMMA SoundNewCall ==
  ASSUME NEW s \in States, NEW t \in States, Pointing(t), NEW n, n = Len(s.calls) + 1,
         Len(t.calls) = n, t.text = s.text,
         \A i \in 1 .. Len(s.calls) : t.calls[i].args = s.calls[i].args /\ t.calls[i].name = s.calls[i].name
  PROVE  /\ Sound(s, Update(t, <<>>, FirstDelta(t, n)))
         /\ Placed(t) => Orderly(s, Update(t, <<>>, FirstDelta(t, n)))
<1> DEFINE d == [call |-> n, name |-> t.calls[n].name, args |-> t.calls[n].args]
           u == Update(t, <<>>, <<d>>)
<1>1. s.calls \in Seq(Calls) /\ t.calls \in Seq(Calls) /\ t.text \in Texts
  BY StateParts
<1>2. SameNames(s.calls, t.calls)
  BY DEF SameNames
<1>3. /\ d \in ToolDeltas
      /\ Tells(<<d>>, s.calls, t.calls)
      /\ SameNames(s.calls, t.calls) => TellsNames(<<d>>, s.calls, t.calls)
  BY <1>1, TellsCall
<1>4. FirstDelta(t, n) = <<d>>
  BY DEF FirstDelta
<1> HIDE DEF d
<1>5. u.state = t /\ u.text = <<>> /\ u.tools = <<d>>
  BY DEF Update
<1> HIDE DEF u
<1>6. <<d>> \in Seq(ToolDeltas)
  BY <1>3
<1>7. t.text = s.text \o <<>> /\ <<>> \in Texts
  BY <1>1, NoText
<1>8. Sound(s, u)
  BY <1>3, <1>5, <1>6, <1>7 DEF Sound
<1>9. Placed(t) => Orderly(s, u)
  BY <1>2, <1>3, <1>5 DEF Orderly
<1> QED
  BY <1>4, <1>8, <1>9 DEF u

(* A known call changes none of the arguments.                               *)
LEMMA EnsuredKnown ==
  ASSUME NEW s \in States, Pointing(s), NEW item \in Items, NEW at \in Nat,
         CallFor(s, item, at) <= Len(s.calls)
  PROVE  /\ SameArgs(s.calls, Ensured(s, item, at).calls)
         /\ CallFor(s, item, at) \in 1 .. Len(s.calls)
         /\ Placed(s) /\ item.name = Known(at) => SameNames(s.calls, Ensured(s, item, at).calls)
<1> DEFINE k == CallFor(s, item, at)
           r == Ensured(s, item, at)
<1>1. /\ k \in 1 .. Len(r.calls)
      /\ Len(r.calls) = IF k <= Len(s.calls) THEN Len(s.calls) ELSE Len(s.calls) + 1
      /\ \A i \in 1 .. Len(s.calls) : r.calls[i].args = s.calls[i].args
  BY EnsuredCalls
<1>2. Placed(s) /\ item.name = Known(at) =>
        \A i \in 1 .. Len(s.calls) : r.calls[i].name = s.calls[i].name
  BY EnsuredPlaced
<1>3. k <= Len(s.calls)
  OBVIOUS
<1> HIDE DEF k, r
<1>4. SameArgs(s.calls, r.calls)
  BY <1>1, <1>3 DEF SameArgs
<1>5. k \in 1 .. Len(s.calls)
  BY <1>1, <1>3
<1>6. Placed(s) /\ item.name = Known(at) => SameNames(s.calls, r.calls)
  BY <1>2 DEF SameNames
<1> QED
  BY <1>4, <1>5, <1>6 DEF k, r

LEMMA EnsuredNew ==
  ASSUME NEW s \in States, Pointing(s), NEW item \in Items, NEW at \in Nat,
         ~(CallFor(s, item, at) <= Len(s.calls))
  PROVE  /\ CallFor(s, item, at) = Len(s.calls) + 1
         /\ Len(Ensured(s, item, at).calls) = Len(s.calls) + 1
         /\ \A i \in 1 .. Len(s.calls) : Ensured(s, item, at).calls[i] = s.calls[i]
<1> DEFINE k == CallFor(s, item, at)
           r == Ensured(s, item, at)
<1>1. /\ k \in 1 .. Len(r.calls)
      /\ Len(r.calls) = IF k <= Len(s.calls) THEN Len(s.calls) ELSE Len(s.calls) + 1
      /\ ~(k <= Len(s.calls)) => k = Len(s.calls) + 1
      /\ \A i \in 1 .. Len(s.calls) : (i # k => r.calls[i] = s.calls[i])
  BY EnsuredCalls
<1>2. ~(k <= Len(s.calls)) /\ Len(s.calls) \in Nat
  BY StateParts
<1> HIDE DEF k, r
<1>3. \A i \in 1 .. Len(s.calls) : i # k
  BY <1>1, <1>2
<1> QED
  BY <1>1, <1>2, <1>3 DEF k, r

(* response.output_item.added of a call.                                     *)
LEMMA AddedSound ==
  ASSUME NEW s \in States, Pointing(s), NEW item \in Items, NEW at \in Nat, NEW u,
         u = IF CallFor(s, item, at) <= Len(s.calls) THEN Quiet(Ensured(s, item, at))
             ELSE Update(Ensured(s, item, at), <<>>,
                         FirstDelta(Ensured(s, item, at), Len(Ensured(s, item, at).calls)))
  PROVE  /\ Sound(s, u)
         /\ Placed(s) /\ item.name = Known(at) => Orderly(s, u)
         /\ u.state = Ensured(s, item, at)
<1> DEFINE r == Ensured(s, item, at)
<1>1. r \in States
  BY EnsuredTyped
<1>2. Pointing(r)
  BY EnsuredPoints
<1>3. Placed(s) /\ item.name = Known(at) => Placed(r)
  BY EnsuredPlaced
<1>4. r.text = s.text
  BY EnsuredKeeps
<1>5. CASE CallFor(s, item, at) <= Len(s.calls)
  <2>1. /\ SameArgs(s.calls, r.calls)
        /\ Placed(s) /\ item.name = Known(at) => SameNames(s.calls, r.calls)
    BY <1>5, EnsuredKnown
  <2>2. u = Quiet(r)
    BY <1>5
  <2> HIDE DEF r
  <2>3. Sound(r, u) /\ (Placed(r) => Orderly(r, u)) /\ u.state = r
    BY <1>1, <1>2, <2>2, SoundQuiet
  <2>4. Sound(s, u) /\ (Orderly(r, u) /\ SameNames(s.calls, r.calls) => Orderly(s, u))
    BY <1>1, <1>4, <2>1, <2>3, SoundAfter
  <2> QED
    BY <1>3, <2>1, <2>3, <2>4 DEF r
<1>6. CASE ~(CallFor(s, item, at) <= Len(s.calls))
  <2>1. Len(r.calls) = Len(s.calls) + 1 /\ \A i \in 1 .. Len(s.calls) : r.calls[i] = s.calls[i]
    BY <1>6, EnsuredNew
  <2>2. u = Update(r, <<>>, FirstDelta(r, Len(r.calls)))
    BY <1>6
  <2> HIDE DEF r
  <2>3. Sound(s, u) /\ (Placed(r) => Orderly(s, u))
    BY <1>1, <1>2, <1>4, <2>1, <2>2, SoundNewCall
  <2>4. u.state = r
    BY <2>2 DEF Update
  <2> QED
    BY <1>3, <2>3, <2>4 DEF r
<1> QED
  BY <1>5, <1>6

(* reconcileToolSnapshot.                                                    *)
LEMMA ToolSnapshotSound ==
  ASSUME NEW s \in States, Pointing(s), NEW item \in Items, NEW at \in Nat
  PROVE  /\ Sound(s, ToolSnapshot(s, item, at))
         /\ Placed(s) /\ item.name = Known(at) => Orderly(s, ToolSnapshot(s, item, at))
         /\ Same(Ensured(s, item, at), ToolSnapshot(s, item, at).state)
<1> DEFINE r == Ensured(s, item, at)
           k == CallFor(s, item, at)
           u == ToolSnapshot(s, item, at)
<1>1. r \in States
  BY EnsuredTyped
<1>2. Pointing(r)
  BY EnsuredPoints
<1>3. Placed(s) /\ item.name = Known(at) => Placed(r)
  BY EnsuredPlaced
<1>4. r.text = s.text
  BY EnsuredKeeps
<1>5. item.body \in Texts
  BY DEF Items
<1>6. k \in 1 .. Len(r.calls) /\ Len(s.calls) \in Nat
  BY EnsuredCalls, StateParts
<1>7. CASE k <= Len(s.calls)
  <2>1. /\ SameArgs(s.calls, r.calls)
        /\ Placed(s) /\ item.name = Known(at) => SameNames(s.calls, r.calls)
    BY <1>7, EnsuredKnown
  <2>2. ~(k > Len(s.calls))
    BY <1>6, <1>7
  <2>3. u = ArgsSnapshot(r, k, item.body, TRUE)
    BY <2>2 DEF ToolSnapshot
  <2> HIDE DEF r, k, u
  <2>4. Sound(r, u) /\ (Placed(r) => Orderly(r, u)) /\ Same(r, u.state)
    BY <1>1, <1>2, <1>5, <1>6, <2>3, ArgsSnapshotSound
  <2>5. Sound(s, u) /\ (Orderly(r, u) /\ SameNames(s.calls, r.calls) => Orderly(s, u))
    BY <1>1, <1>4, <2>1, <2>4, SoundAfter
  <2> QED
    BY <1>3, <2>1, <2>4, <2>5 DEF r, u
<1>8. CASE ~(k <= Len(s.calls))
  <2> DEFINE t == [r EXCEPT !.calls[k].args = item.body]
  <2>1. /\ k = Len(s.calls) + 1 /\ Len(r.calls) = Len(s.calls) + 1
        /\ \A i \in 1 .. Len(s.calls) : r.calls[i] = s.calls[i]
    BY <1>8, EnsuredNew
  <2>2. k > Len(s.calls)
    BY <1>6, <1>8
  <2>3. u = Update(t, <<>>, FirstDelta(t, k))
    BY <2>2 DEF ToolSnapshot
  <2> HIDE DEF r, k, u
  <2>4. SetsArgs(r, t, k, item.body)
    BY <1>1, <1>5, <1>6, ArgsSetChanges
  <2> HIDE DEF t
  <2>5. t \in States /\ Same(r, t) /\ t.text = r.text
    BY <2>4 DEF SetsArgs
  <2>6. /\ Len(t.calls) = Len(r.calls)
        /\ \A i \in 1 .. Len(r.calls) : i # k => t.calls[i] = r.calls[i]
    <3>1. Len(t.calls) = Len(r.calls)
      BY <2>5 DEF Same
    <3>2. \A i \in 1 .. Len(r.calls) : i # k => t.calls[i] = r.calls[i]
      BY <2>4 DEF SetsArgs
    <3> QED
      BY <3>1, <3>2
  <2>7. Same(r, t)
    BY <2>5
  <2>8. Pointing(t) /\ (Placed(r) => Placed(t))
    BY <1>1, <1>2, <2>5, SameKeeps
  <2>9. \A i \in 1 .. Len(s.calls) : i \in 1 .. Len(r.calls) /\ i # k
    BY <1>6, <2>1
  <2>10. \A i \in 1 .. Len(s.calls) : t.calls[i].args = s.calls[i].args /\ t.calls[i].name = s.calls[i].name
    BY <2>1, <2>6, <2>9
  <2>11. Sound(s, u) /\ (Placed(t) => Orderly(s, u))
    BY <1>4, <2>1, <2>3, <2>4, <2>5, <2>6, <2>8, <2>10, SoundNewCall
  <2>12. u.state = t
    BY <2>3 DEF Update
  <2> QED
    BY <1>3, <2>7, <2>8, <2>11, <2>12 DEF r, u
<1> QED
  BY <1>7, <1>8

-----------------------------------------------------------------------------
(* The terminal event.                                                       *)

(* The items that the terminal output or the state has, each at its place.   *)
Finals(s, output) ==
  {x \in [at : Nat, item : Items] :
     \/ x.at + 1 \in DOMAIN output /\ x.item = output[x.at + 1]
     \/ x.at \in DOMAIN s.items /\ x.item = s.items[x.at]}

ItemAt(s, output, i) == IF i < Len(output) THEN output[i + 1] ELSE s.items[i]

PlacesOf(s, output, type) ==
  {i \in (0 .. Len(output) - 1) \cup DOMAIN s.items : ItemAt(s, output, i).type = type}

LEMMA FinalAt ==
  ASSUME NEW s \in States, NEW output \in Seq(Items),
         NEW i \in (0 .. Len(output) - 1) \cup DOMAIN s.items
  PROVE  [at |-> i, item |-> ItemAt(s, output, i)] \in Finals(s, output)
<1>1. Len(output) \in Nat /\ DOMAIN output = 1 .. Len(output)
  BY LenProperties
<1>2. DOMAIN s.items \subseteq Nat /\ \A j \in DOMAIN s.items : s.items[j] \in Items
  BY StateParts, MapIs
<1>3. i \in Nat
  BY <1>1, <1>2
<1> DEFINE x == [at |-> i, item |-> ItemAt(s, output, i)]
<1>4. CASE i < Len(output)
  <2>1. i + 1 \in DOMAIN output
    BY <1>1, <1>3, <1>4
  <2>2. output[i + 1] \in Items
    BY <1>1, <2>1, ElementOfSeq
  <2>3. ItemAt(s, output, i) = output[i + 1]
    BY <1>4 DEF ItemAt
  <2> QED
    BY <1>3, <2>1, <2>2, <2>3 DEF Finals
<1>5. CASE ~(i < Len(output))
  <2>1. i \in DOMAIN s.items
    BY <1>1, <1>3, <1>5
  <2>2. ItemAt(s, output, i) = s.items[i]
    BY <1>5 DEF ItemAt
  <2> QED
    BY <1>2, <1>3, <2>1, <2>2 DEF Finals
<1> QED
  BY <1>4, <1>5

Resolving(s, output, type) ==
  CHOOSE f : f = [r \in SUBSET PlacesOf(s, output, type) |->
                    IF r = {} THEN <<>>
                    ELSE Append(f[r \ {Max(r)}], [at |-> Max(r), item |-> ItemAt(s, output, Max(r))])]

LEMMA ResolvedIsFold ==
  ASSUME NEW s, NEW output, NEW type
  PROVE  Resolved(s, output, type) = Resolving(s, output, type)[PlacesOf(s, output, type)]
BY DEF Resolved, MapThenFoldSet, Resolving, PlacesOf, ItemAt

LEMMA ResolvedSteps ==
  ASSUME NEW s \in States, NEW output \in Seq(Items), NEW type,
         NEW m \in Nat, DOMAIN s.items \subseteq 0 .. m
  PROVE  LET S == PlacesOf(s, output, type)
             g == Resolving(s, output, type)
         IN /\ g[{}] = <<>>
            /\ \A r \in SUBSET S : r # {} =>
                 g[r] = Append(g[r \ {Max(r)}], [at |-> Max(r), item |-> ItemAt(s, output, Max(r))])
            /\ \E n \in Nat : S \in SUBSET (0 .. n)
            /\ \A i \in S : [at |-> i, item |-> ItemAt(s, output, i)] \in Finals(s, output)
<1> DEFINE S == PlacesOf(s, output, type)
           n == m + Len(output)
           V == Seq(Finals(s, output))
           G == [p \in S \X V |-> Append(p[2], [at |-> p[1], item |-> ItemAt(s, output, p[1])])]
           g == Resolving(s, output, type)
<1>1. Len(output) \in Nat /\ n \in Nat
  BY LenProperties
<1>2. S \in SUBSET (0 .. n)
  <2>1. 0 .. Len(output) - 1 \subseteq 0 .. n /\ 0 .. m \subseteq 0 .. n
    BY <1>1
  <2> QED
    BY <2>1 DEF PlacesOf
<1>3. \A i \in S : [at |-> i, item |-> ItemAt(s, output, i)] \in Finals(s, output)
  BY FinalAt DEF PlacesOf
<1>4. \A i \in S : \A v \in V : Append(v, [at |-> i, item |-> ItemAt(s, output, i)]) \in V
  BY <1>3, AppendProperties
<1>5. <<>> \in V
  BY EmptySeq
<1> HIDE DEF S, n, V
<1>6. G \in [S \X V -> V]
  BY <1>4
<1>7. \A i \in S : \A v \in V : G[<<i, v>>] = Append(v, [at |-> i, item |-> ItemAt(s, output, i)])
  OBVIOUS
<1> HIDE DEF G
<1>8. PICK f \in [SUBSET S -> V] : Folding(f, G, <<>>, S)
  BY <1>1, <1>2, <1>5, <1>6, FoldExists
<1>9. \A r \in SUBSET S : r # {} => Max(r) \in S
  BY <1>1, <1>2, MaxIn
<1>10. \A r \in SUBSET S : r # {} =>
         G[<<Max(r), f[r \ {Max(r)}]>>] = Append(f[r \ {Max(r)}], [at |-> Max(r), item |-> ItemAt(s, output, Max(r))])
  <2> TAKE r \in SUBSET S
  <2> HAVE r # {}
  <2>1. Max(r) \in S /\ f[r \ {Max(r)}] \in V
    BY <1>8, <1>9
  <2> QED
    BY <1>7, <2>1
<1>11. f = [r \in SUBSET S |->
              IF r = {} THEN <<>>
              ELSE Append(f[r \ {Max(r)}], [at |-> Max(r), item |-> ItemAt(s, output, Max(r))])]
  BY <1>8, <1>10 DEF Folding
<1>12. g = [r \in SUBSET S |->
              IF r = {} THEN <<>>
              ELSE Append(g[r \ {Max(r)}], [at |-> Max(r), item |-> ItemAt(s, output, Max(r))])]
  BY <1>11, Zenon DEF Resolving, S
<1> HIDE DEF g
<1>13. g[{}] = <<>>
  BY <1>12
<1>14. \A r \in SUBSET S : r # {} =>
         g[r] = Append(g[r \ {Max(r)}], [at |-> Max(r), item |-> ItemAt(s, output, Max(r))])
  BY <1>12
<1> QED
  BY <1>1, <1>2, <1>3, <1>13, <1>14 DEF S, g

(* It is in order: no two of its items have the same place.                  *)
Apart(items) == \A i, j \in 1 .. Len(items) : i # j => items[i].at # items[j].at

LEMMA ResolvedTyped ==
  ASSUME NEW s \in States, NEW output \in Seq(Items), NEW type,
         NEW m \in Nat, DOMAIN s.items \subseteq 0 .. m
  PROVE  /\ Resolved(s, output, type) \in Seq(Finals(s, output))
         /\ Apart(Resolved(s, output, type))
         /\ PlacesOf(s, output, type) # {} => Resolved(s, output, type) # <<>>
<1> DEFINE S == PlacesOf(s, output, type)
           F == Finals(s, output)
           g == Resolving(s, output, type)
           X(i) == [at |-> i, item |-> ItemAt(s, output, i)]
           Good(r) == /\ g[r] \in Seq(F) /\ Apart(g[r])
                      /\ \A i \in 1 .. Len(g[r]) : g[r][i].at \in r
                      /\ r # {} => g[r] # <<>>
           T == {r \in SUBSET S : Good(r)}
<1>1. /\ g[{}] = <<>>
      /\ \A r \in SUBSET S : r # {} => g[r] = Append(g[r \ {Max(r)}], X(Max(r)))
      /\ \A i \in S : X(i) \in F
  BY ResolvedSteps
<1>2. PICK n \in Nat : S \in SUBSET (0 .. n)
  BY ResolvedSteps
<1>3. \A i : X(i).at = i
  OBVIOUS
<1> HIDE DEF S, F, g, X
<1>4. {} \in T
  <2>1. g[{}] \in Seq(F) /\ Len(g[{}]) = 0
    BY <1>1, EmptySeq
  <2> QED
    BY <2>1 DEF Apart
<1>5. ASSUME NEW r \in SUBSET S, r # {}, r \ {Max(r)} \in T PROVE r \in T
  <2> DEFINE q == r \ {Max(r)}
             v == g[q]
             x == X(Max(r))
             w == Append(v, x)
  <2>1. Max(r) \in r
    <3>1. r \in SUBSET (0 .. n)
      BY <1>2
    <3> QED
      BY <1>5, <3>1, MaxIn
  <2>2. v \in Seq(F) /\ Apart(v) /\ (\A i \in 1 .. Len(v) : v[i].at \in q)
    BY <1>5
  <2>3. x \in F /\ x.at = Max(r)
    BY <1>1, <1>3, <2>1
  <2>4. g[r] = w
    BY <1>1, <1>5
  <2> HIDE DEF v, x
  <2>5. /\ w \in Seq(F) /\ w # <<>> /\ Len(w) = Len(v) + 1 /\ Len(v) \in Nat
        /\ \A i \in 1 .. Len(v) : w[i] = v[i]
        /\ w[Len(v) + 1] = x
    BY <2>2, <2>3, AppendProperties, LenProperties
  <2> HIDE DEF w
  <2>6. ASSUME NEW i \in 1 .. Len(w)
        PROVE  /\ w[i].at \in r
               /\ (i \in 1 .. Len(v) /\ w[i].at \in r /\ w[i].at # Max(r)) \/ (i = Len(v) + 1 /\ w[i].at = Max(r))
    <3>1. i \in 1 .. Len(v) \/ i = Len(v) + 1
      BY <2>5
    <3>2. CASE i \in 1 .. Len(v)
      BY <2>2, <2>5, <3>2
    <3>3. CASE i = Len(v) + 1
      BY <2>1, <2>3, <2>5, <3>3
    <3> QED
      BY <3>1, <3>2, <3>3
  <2>7. Apart(w)
    <3> SUFFICES ASSUME NEW i \in 1 .. Len(w), NEW j \in 1 .. Len(w), i # j PROVE w[i].at # w[j].at
      BY DEF Apart
    <3>1. CASE i \in 1 .. Len(v) /\ j \in 1 .. Len(v)
      BY <2>2, <2>5, <3>1 DEF Apart
    <3>2. CASE ~(i \in 1 .. Len(v) /\ j \in 1 .. Len(v))
      BY <2>6, <3>2
    <3> QED
      BY <3>1, <3>2
  <2>8. Good(r)
    BY <2>4, <2>5, <2>6, <2>7
  <2> QED
    BY <2>8
<1> HIDE DEF T
<1>6. S \in T
  BY <1>2, <1>4, <1>5, OverSubsets
<1>7. Resolved(s, output, type) = g[S]
  BY ResolvedIsFold DEF S, g
<1> QED
  BY <1>6, <1>7 DEF T, S, F

(* The text of items.                                                        *)
Joining(items) ==
  CHOOSE f : f = [r \in SUBSET DOMAIN items |->
                    IF r = {} THEN <<>> ELSE f[r \ {Max(r)}] \o items[Max(r)].item.body]

LEMMA TextOfIsFold ==
  ASSUME NEW items
  PROVE  TextOf(items) = Joining(items)[DOMAIN items]
BY DEF TextOf, FoldLeft, MapThenFoldSet, Joining

LEMMA TextOfTyped ==
  ASSUME NEW items \in Seq([at : Nat, item : Items])
  PROVE  TextOf(items) \in Texts
<1> DEFINE n == Len(items)
           S == DOMAIN items
           G == [p \in S \X Texts |-> p[2] \o items[p[1]].item.body]
           g == Joining(items)
<1>1. n \in Nat /\ S = 1 .. n
  BY LenProperties
<1>2. S \in SUBSET (0 .. n)
  BY <1>1
<1>3. \A i \in S : items[i].item.body \in Texts
  <2> TAKE i \in S
  <2>1. items[i] \in [at : Nat, item : Items]
    BY <1>1, ElementOfSeq
  <2> QED
    BY <2>1 DEF Items
<1>4. \A i \in S : \A v \in Texts : v \o items[i].item.body \in Texts
  BY <1>3, TextJoined
<1>5. <<>> \in Texts
  BY NoText
<1> HIDE DEF S, n
<1>6. G \in [S \X Texts -> Texts]
  BY <1>4
<1>7. \A i \in S : \A v \in Texts : G[<<i, v>>] = v \o items[i].item.body
  OBVIOUS
<1> HIDE DEF G
<1>8. PICK f \in [SUBSET S -> Texts] : Folding(f, G, <<>>, S)
  BY <1>1, <1>2, <1>5, <1>6, FoldExists
<1>9. \A r \in SUBSET S : r # {} => Max(r) \in S
  BY <1>1, <1>2, MaxIn
<1>10. \A r \in SUBSET S : r # {} =>
         G[<<Max(r), f[r \ {Max(r)}]>>] = f[r \ {Max(r)}] \o items[Max(r)].item.body
  <2> TAKE r \in SUBSET S
  <2> HAVE r # {}
  <2>1. Max(r) \in S /\ f[r \ {Max(r)}] \in Texts
    BY <1>8, <1>9
  <2> QED
    BY <1>7, <2>1
<1>11. f = [r \in SUBSET S |-> IF r = {} THEN <<>> ELSE f[r \ {Max(r)}] \o items[Max(r)].item.body]
  BY <1>8, <1>10 DEF Folding
<1>12. g = [r \in SUBSET S |-> IF r = {} THEN <<>> ELSE g[r \ {Max(r)}] \o items[Max(r)].item.body]
  BY <1>11, Zenon DEF Joining, S
<1> HIDE DEF g
<1>13. g[{}] = <<>>
  BY <1>12
<1>14. \A r \in SUBSET S : r # {} /\ g[r \ {Max(r)}] \in Texts => g[r] \in Texts
  BY <1>4, <1>9, <1>12, ZenonT(30)
<1>15. g[S] \in Texts
  BY <1>1, <1>2, <1>5, <1>13, <1>14, FoldStays
<1> QED
  BY <1>15, TextOfIsFold DEF S, g

Updates == [state : States, text : Texts, tools : Seq(ToolDeltas)]

LEMMA SoundUpdate ==
  ASSUME NEW s, NEW t, NEW text, NEW deltas, Sound(s, Update(t, text, deltas))
  PROVE  Update(t, text, deltas) \in Updates
BY DEF Sound, Update, Updates

(* The tool calls of the output, one after another.                          *)
JoinStep(u, x) ==
  IF u.state.failed THEN u
  ELSE LET v == ToolSnapshot(u.state, x.item, x.at)
       IN Update(v.state, u.text, u.tools \o v.tools)

LEMMA ToolSnapshotBrief ==
  ASSUME NEW s \in States, Pointing(s), NEW item \in Items, NEW at \in Nat
  PROVE  /\ ToolSnapshot(s, item, at).text = <<>>
         /\ Short(ToolSnapshot(s, item, at).tools)
<1> DEFINE u == ToolSnapshot(s, item, at)
<1>1. u.tools \in Seq(ToolDeltas)
  BY ToolSnapshotSound DEF Sound
<1>2. u.text = <<>> /\ (u.tools = <<>> \/ \E d : u.tools = <<d>>)
  BY DEF ToolSnapshot, ArgsSnapshot, ArgsDelta, FirstDelta, Update, Quiet, Failure
<1> HIDE DEF u
<1>3. Short(u.tools)
  <2>1. CASE u.tools = <<>>
    BY <2>1 DEF Short
  <2>2. ASSUME NEW d, u.tools = <<d>> PROVE Short(u.tools)
    <3>1. d \in ToolDeltas
      <4>1. Len(u.tools) = 1 /\ u.tools[1] = d
        BY <2>2
      <4>2. 1 \in 1 .. Len(u.tools)
        BY <4>1
      <4>3. u.tools[1] \in ToolDeltas
        BY <1>1, <4>2, ElementOfSeq
      <4> QED
        BY <4>1, <4>3
    <3> QED
      BY <2>2, <3>1 DEF Short
  <2> QED
    BY <1>2, <2>1, <2>2
<1> QED
  BY <1>2, <1>3 DEF u

LEMMA JoinSound ==
  ASSUME NEW s \in States, NEW u, Sound(s, u), NEW x \in [at : Nat, item : Items]
  PROVE  /\ Sound(s, JoinStep(u, x))
         /\ Orderly(s, u) /\ x.item.name = Known(x.at) => Orderly(s, JoinStep(u, x))
         /\ JoinStep(u, x).state.items = u.state.items
<1>1. CASE u.state.failed
  BY <1>1 DEF JoinStep
<1>2. CASE ~u.state.failed
  <2> DEFINE m == u.state
             v == ToolSnapshot(m, x.item, x.at)
             w == JoinStep(u, x)
  <2>1. m \in States /\ Pointing(m) /\ u.text \in Texts /\ u.tools \in Seq(ToolDeltas)
    BY DEF Sound
  <2>2. x.item \in Items /\ x.at \in Nat
    OBVIOUS
  <2>3. v.text = <<>> /\ Short(v.tools)
    BY <2>1, <2>2, ToolSnapshotBrief
  <2>4. /\ Sound(m, v) /\ (Placed(m) /\ x.item.name = Known(x.at) => Orderly(m, v))
        /\ Same(Ensured(m, x.item, x.at), v.state)
    BY <2>1, <2>2, ToolSnapshotSound
  <2>5. Ensured(m, x.item, x.at).items = m.items
    BY <2>1, <2>2, EnsuredKeeps
  <2>6. v.state.items = m.items
    BY <2>4, <2>5 DEF Same
  <2>7. w.state = v.state /\ w.text = u.text /\ w.tools = u.tools \o v.tools
    BY <1>2 DEF JoinStep, Update
  <2>8. m.text = s.text \o u.text /\ Tells(u.tools, s.calls, m.calls)
    BY <1>2 DEF Sound
  <2>9. Orderly(s, u) => Placed(m) /\ TellsNames(u.tools, s.calls, m.calls)
    BY <1>2 DEF Orderly
  <2> HIDE DEF v, w, m
  <2>10. v.state \in States /\ Pointing(v.state)
    BY <2>4 DEF Sound
  <2>11. u.tools \o v.tools \in Seq(ToolDeltas)
    <3>1. v.tools \in Seq(ToolDeltas)
      BY <2>4 DEF Sound
    <3> QED
      BY <2>1, <3>1, ConcatProperties
  <2>12. CASE v.state.failed
    <3>1. Sound(s, w)
      BY <2>1, <2>7, <2>10, <2>11, <2>12 DEF Sound
    <3>2. Orderly(s, w)
      BY <2>7, <2>12 DEF Orderly
    <3> QED
      BY <2>6, <2>7, <3>1, <3>2 DEF w, m
  <2>13. CASE ~v.state.failed
    <3>1. v.state.text = m.text \o <<>> /\ Tells(v.tools, m.calls, v.state.calls)
      BY <2>3, <2>4, <2>13 DEF Sound
    <3>2. v.state.text = m.text
      BY <2>1, <3>1, NoText, StateParts
    <3>3. /\ Tells(u.tools \o v.tools, s.calls, v.state.calls)
          /\ TellsNames(u.tools, s.calls, m.calls) /\ TellsNames(v.tools, m.calls, v.state.calls) =>
               TellsNames(u.tools \o v.tools, s.calls, v.state.calls)
      BY <2>1, <2>3, <2>8, <3>1, TellsMore
    <3>4. Sound(s, w)
      BY <2>1, <2>7, <2>8, <2>10, <2>11, <3>2, <3>3 DEF Sound
    <3>5. Orderly(m, v) => Placed(v.state) /\ TellsNames(v.tools, m.calls, v.state.calls)
      BY <2>13 DEF Orderly
    <3>6. Orderly(s, u) /\ x.item.name = Known(x.at) => Orderly(s, w)
      BY <2>4, <2>7, <2>9, <3>3, <3>5 DEF Orderly
    <3> QED
      BY <2>6, <2>7, <3>4, <3>6 DEF w, m
  <2> QED
    BY <2>12, <2>13
<1> QED
  BY <1>1, <1>2

JoiningCalls(base, calls) ==
  CHOOSE f : f = [r \in SUBSET DOMAIN calls |->
                    IF r = {} THEN base ELSE JoinStep(f[r \ {Max(r)}], calls[Max(r)])]

TextFirst(s, messages) ==
  IF messages # <<>> THEN TextSnapshot(s, TextOf(messages), TRUE)
  ELSE IF s.text # <<>> THEN Failure(s) ELSE Quiet(s)

LEMMA JoinedIsFold ==
  ASSUME NEW s, NEW messages, NEW calls
  PROVE  Joined(s, messages, calls) = JoiningCalls(TextFirst(s, messages), calls)[DOMAIN calls]
BY DEF Joined, FoldLeft, MapThenFoldSet, JoiningCalls, TextFirst, JoinStep

LEMMA TextFirstSound ==
  ASSUME NEW s \in States, Pointing(s), NEW messages \in Seq([at : Nat, item : Items])
  PROVE  /\ Sound(s, TextFirst(s, messages))
         /\ Placed(s) => Orderly(s, TextFirst(s, messages))
         /\ TextFirst(s, messages).state.items = s.items
<1>1. CASE messages # <<>>
  <2>1. TextOf(messages) \in Texts
    BY TextOfTyped
  <2>2. TextFirst(s, messages) = TextSnapshot(s, TextOf(messages), TRUE)
    BY <1>1 DEF TextFirst
  <2> QED
    BY <2>1, <2>2, SnapshotSound, ZenonT(30) DEF Same
<1>2. CASE messages = <<>> /\ s.text # <<>>
  <2>1. TextFirst(s, messages) = Failure(s)
    BY <1>2 DEF TextFirst
  <2> QED
    BY <2>1, SoundFailure DEF Same
<1>3. CASE messages = <<>> /\ s.text = <<>>
  <2>1. TextFirst(s, messages) = Quiet(s)
    BY <1>3 DEF TextFirst
  <2> QED
    BY <2>1, SoundQuiet
<1> QED
  BY <1>1, <1>2, <1>3

LEMMA JoinedSteps ==
  ASSUME NEW s \in States, Pointing(s), NEW messages \in Seq([at : Nat, item : Items]),
         NEW calls \in Seq([at : Nat, item : Items])
  PROVE  LET base == TextFirst(s, messages)
             g == JoiningCalls(base, calls)
             Good == Placed(s) /\ AtPlaces(calls)
         IN /\ g[{}] = base
            /\ \A r \in SUBSET DOMAIN calls : r # {} => g[r] = JoinStep(g[r \ {Max(r)}], calls[Max(r)])
            /\ \A r \in SUBSET DOMAIN calls :
                 /\ g[r] \in Updates /\ Sound(s, g[r]) /\ (Good => Orderly(s, g[r]))
                 /\ g[r].state.items = s.items
<1> DEFINE Good == Placed(s) /\ AtPlaces(calls)
           V == {u \in Updates :
                   Sound(s, u) /\ (Good => Orderly(s, u)) /\ u.state.items = s.items}
           n == Len(calls)
           S == DOMAIN calls
           base == TextFirst(s, messages)
           G == [p \in S \X V |-> JoinStep(p[2], calls[p[1]])]
           g == JoiningCalls(base, calls)
<1>1. n \in Nat /\ S = 1 .. n
  BY LenProperties
<1>2. S \in SUBSET (0 .. n)
  BY <1>1
<1>3. ASSUME NEW i \in S, NEW u \in V PROVE JoinStep(u, calls[i]) \in V
  <2> DEFINE x == calls[i]
             w == JoinStep(u, x)
  <2>1. x \in [at : Nat, item : Items]
    BY <1>1, ElementOfSeq
  <2>2. Good => x.item.name = Known(x.at)
    BY <1>1 DEF AtPlaces
  <2>3. Sound(s, u) /\ (Good => Orderly(s, u)) /\ u.state.items = s.items
    OBVIOUS
  <2> HIDE DEF x, Good
  <2>4. Sound(s, w) /\ (Good => Orderly(s, w)) /\ w.state.items = s.items
    BY <2>1, <2>2, <2>3, JoinSound
  <2>5. w \in Updates
    <3>1. CASE u.state.failed
      BY <3>1 DEF JoinStep
    <3>2. CASE ~u.state.failed
      <4>1. w = Update(w.state, w.text, w.tools)
        BY <3>2 DEF JoinStep, Update
      <4>2. w.state \in States /\ w.text \in Texts /\ w.tools \in Seq(ToolDeltas)
        BY <2>4 DEF Sound
      <4> QED
        BY <4>1, <4>2 DEF Update, Updates
    <3> QED
      BY <3>1, <3>2
  <2> QED
    BY <2>4, <2>5 DEF x
<1>4. base \in V
  <2>1. Sound(s, base) /\ (Placed(s) => Orderly(s, base)) /\ base.state.items = s.items
    BY TextFirstSound
  <2>2. base = Update(base.state, base.text, base.tools)
    BY DEF TextFirst, TextSnapshot, Failure, Quiet, Update
  <2> HIDE DEF base
  <2>3. base.state \in States /\ base.text \in Texts /\ base.tools \in Seq(ToolDeltas)
    BY <2>1 DEF Sound
  <2>4. base \in Updates
    BY <2>2, <2>3 DEF Update, Updates
  <2> QED
    BY <2>1, <2>4
<1> HIDE DEF S, n, V, base
<1>5. G \in [S \X V -> V]
  BY <1>3
<1>6. \A i \in S : \A v \in V : G[<<i, v>>] = JoinStep(v, calls[i])
  OBVIOUS
<1> HIDE DEF G
<1>7. PICK f \in [SUBSET S -> V] : Folding(f, G, base, S)
  BY <1>1, <1>2, <1>4, <1>5, FoldExists
<1>8. \A r \in SUBSET S : r # {} => Max(r) \in S
  BY <1>1, <1>2, MaxIn
<1>9. \A r \in SUBSET S : r # {} =>
        G[<<Max(r), f[r \ {Max(r)}]>>] = JoinStep(f[r \ {Max(r)}], calls[Max(r)])
  <2> TAKE r \in SUBSET S
  <2> HAVE r # {}
  <2>1. Max(r) \in S /\ f[r \ {Max(r)}] \in V
    BY <1>7, <1>8
  <2> QED
    BY <1>6, <2>1
<1>10. f = [r \in SUBSET S |-> IF r = {} THEN base ELSE JoinStep(f[r \ {Max(r)}], calls[Max(r)])]
  BY <1>7, <1>9 DEF Folding
<1>11. g = [r \in SUBSET S |-> IF r = {} THEN base ELSE JoinStep(g[r \ {Max(r)}], calls[Max(r)])]
  BY <1>10 DEF JoiningCalls, S
<1> HIDE DEF g
<1>12. g[{}] = base
  BY <1>11
<1>13. \A r \in SUBSET S : r # {} /\ g[r \ {Max(r)}] \in V => g[r] \in V
  <2> TAKE r \in SUBSET S
  <2> HAVE r # {} /\ g[r \ {Max(r)}] \in V
  <2> DEFINE i == Max(r)
             u == g[r \ {i}]
  <2>1. g[r] = JoinStep(u, calls[i])
    BY <1>11
  <2>2. i \in S /\ u \in V
    BY <1>8
  <2> HIDE DEF i, u
  <2>3. JoinStep(u, calls[i]) \in V
    BY <1>3, <2>2
  <2> QED
    BY <2>1, <2>3
<1>14. \A r \in SUBSET S : g[r] \in V
  <2> TAKE r \in SUBSET S
  <2>1. r \in SUBSET (0 .. n)
    BY <1>2
  <2>2. \A q \in SUBSET r : q # {} /\ g[q \ {Max(q)}] \in V => g[q] \in V
    BY <1>13
  <2> QED
    BY <1>1, <1>4, <1>12, <2>1, <2>2, FoldStays
<1>15. \A r \in SUBSET S : r # {} => g[r] = JoinStep(g[r \ {Max(r)}], calls[Max(r)])
  BY <1>11
<1> QED
  BY <1>12, <1>14, <1>15 DEF S, V, g, base

LEMMA JoinedSound ==
  ASSUME NEW s \in States, Pointing(s), NEW messages \in Seq([at : Nat, item : Items]),
         NEW calls \in Seq([at : Nat, item : Items])
  PROVE  /\ Sound(s, Joined(s, messages, calls))
         /\ Placed(s) /\ AtPlaces(calls)
              => Orderly(s, Joined(s, messages, calls))
         /\ Joined(s, messages, calls).state.items = s.items
         /\ Joined(s, messages, calls) \in Updates
<1> DEFINE g == JoiningCalls(TextFirst(s, messages), calls)
           S == DOMAIN calls
           Fine(u) == /\ Sound(s, u) /\ (Placed(s) /\ AtPlaces(calls) => Orderly(s, u))
                      /\ u.state.items = s.items /\ u \in Updates
<1>1. Joined(s, messages, calls) = g[S]
  BY JoinedIsFold
<1>2. \A q \in SUBSET S : Fine(g[q])
  BY JoinedSteps, ZenonT(40)
<1> HIDE DEF Fine, g, S
<1>3. Fine(g[S])
  BY <1>2
<1> QED
  BY <1>1, <1>3 DEF Fine

(* reconcileTerminalOutput of the stream.                                    *)
InPlace(s) == \A i \in DOMAIN s.items : s.items[i].name = Known(i)

(* Its items have the names that go with their places, if those that were    *)
(* noted have them, and those that the terminal event tells.                 *)
LEMMA ResolvedListed ==
  ASSUME NEW s \in States, NEW output \in Seq(Items), NEW type,
         NEW m \in Nat, DOMAIN s.items \subseteq 0 .. m,
         NEW calls, calls = Resolved(s, output, type)
  PROVE  /\ calls \in Seq([at : Nat, item : Items])
         /\ InPlace(s) /\ InOrder(output) =>
              AtPlaces(calls)
<1> DEFINE Good == InPlace(s) /\ InOrder(output)
<1>1. calls \in Seq(Finals(s, output))
  BY ResolvedTyped
<1>2. Finals(s, output) \subseteq [at : Nat, item : Items]
  BY DEF Finals
<1>3. calls \in Seq([at : Nat, item : Items])
  <2>1. \A q \in Seq(Finals(s, output)) : q \in Seq([at : Nat, item : Items])
    BY <1>2, SeqMonotonic
  <2> QED
    BY <1>1, <2>1
<1>4. Good => AtPlaces(calls)
  <2> SUFFICES ASSUME Good, NEW k \in 1 .. Len(calls) PROVE calls[k].item.name = Known(calls[k].at)
    BY DEF AtPlaces
  <2>0. /\ \A j \in 1 .. Len(output) : output[j].name = Known(j - 1)
        /\ \A i \in DOMAIN s.items : s.items[i].name = Known(i)
    BY DEF InPlace, InOrder
  <2>1. calls[k] \in Finals(s, output)
    BY <1>1, ElementOfSeq
  <2> DEFINE x == calls[k]
  <2>2. x.at \in Nat /\ (\/ x.at + 1 \in DOMAIN output /\ x.item = output[x.at + 1]
                         \/ x.at \in DOMAIN s.items /\ x.item = s.items[x.at])
    BY <2>1 DEF Finals
  <2> HIDE DEF x
  <2>3. CASE x.at + 1 \in DOMAIN output /\ x.item = output[x.at + 1]
    <3>1. x.at + 1 \in 1 .. Len(output) /\ x.at + 1 - 1 = x.at
      BY <2>2, <2>3, LenProperties
    <3>2. output[x.at + 1].name = Known(x.at + 1 - 1)
      BY <2>0, <2>2, <3>1
    <3>3. x.item.name = Known(x.at)
      BY <2>3, <3>1, <3>2
    <3> QED
      BY <3>3 DEF x
  <2>4. CASE x.at \in DOMAIN s.items /\ x.item = s.items[x.at]
    BY <2>0, <2>4 DEF x
  <2> QED
    BY <2>2, <2>3, <2>4
<1> QED
  BY <1>3, <1>4

LEMMA ReconciledSound ==
  ASSUME NEW s \in States, Pointing(s), NEW output \in Seq(Items),
         NEW m \in Nat, DOMAIN s.items \subseteq 0 .. m
  PROVE  /\ Sound(s, Reconciled(s, output, TRUE))
         /\ Placed(s) /\ InPlace(s) /\ InOrder(output)
              => Orderly(s, Reconciled(s, output, TRUE))
         /\ Reconciled(s, output, TRUE).state.items = s.items
         /\ Reconciled(s, output, TRUE) \in Updates
<1> DEFINE messages == Resolved(s, output, "message")
           calls == Resolved(s, output, "call")
           joined == Joined(s, messages, calls)
           Good == InPlace(s) /\ InOrder(output)
           w == Reconciled(s, output, TRUE)
<1>3. messages \in Seq([at : Nat, item : Items]) /\ calls \in Seq([at : Nat, item : Items])
  BY ResolvedListed
<1>4. Good => AtPlaces(calls)
  BY ResolvedListed
<1> HIDE DEF messages, calls
<1>5. /\ Sound(s, joined)
      /\ Placed(s) /\ AtPlaces(calls)
           => Orderly(s, joined)
      /\ joined.state.items = s.items
      /\ joined \in Updates
  BY <1>3, JoinedSound
<1>6. Placed(s) /\ Good => Orderly(s, joined)
  BY <1>4, <1>5
<1>7. w \in {Quiet(s), Failure(s), joined}
  BY DEF Reconciled, Completed, messages, calls
<1> HIDE DEF w, joined, Good
<1>8. CASE w = Quiet(s)
  <2>1. Sound(s, Quiet(s)) /\ (Placed(s) => Orderly(s, Quiet(s))) /\ Quiet(s).state = s
    BY SoundQuiet
  <2>2. Quiet(s) \in Updates
    BY SoundUpdate, <2>1 DEF Quiet, Update
  <2> QED
    BY <1>8, <2>1, <2>2 DEF w
<1>9. CASE w = Failure(s)
  <2>1. Sound(s, Failure(s)) /\ Orderly(s, Failure(s)) /\ Failure(s).state.items = s.items
    BY SoundFailure DEF Same
  <2>2. Failure(s) \in Updates
    BY SoundUpdate, <2>1 DEF Failure, Quiet, Update
  <2> QED
    BY <1>9, <2>1, <2>2 DEF w
<1>10. CASE w = joined
  BY <1>5, <1>6, <1>10 DEF w, Good
<1> QED
  BY <1>7, <1>8, <1>9, <1>10

(* applyTerminalResponse.                                                    *)
LEMMA EndedIs ==
  ASSUME NEW r \in Updates, NEW reason \in {"completed", "length", "content_filter"}, NEW w, w = Ended(r, reason)
  PROVE  /\ r.state.failed => w = r
         /\ ~r.state.failed =>
              /\ w.text = r.text /\ w.tools = r.tools /\ w.state \in States /\ Same(r.state, w.state)
              /\ w.state.calls = r.state.calls /\ w.state.text = r.state.text
              /\ w.state.terminal /\ ~w.state.failed
              /\ w.state.finish = IF reason # "completed" THEN reason
                                  ELSE IF r.state.calls # <<>> THEN "tool_calls" ELSE "stop"
<1>1. CASE r.state.failed
  BY <1>1 DEF Ended
<1>2. CASE ~r.state.failed
  <2> DEFINE finish == IF reason # "completed" THEN reason
                       ELSE IF r.state.calls # <<>> THEN "tool_calls" ELSE "stop"
             q == [r.state EXCEPT !.finish = finish, !.terminal = TRUE]
  <2>1. finish \in Reasons
    <3>1. CASE reason # "completed"
      BY <3>1 DEF Reasons
    <3>2. CASE reason = "completed" /\ r.state.calls # <<>>
      BY <3>2 DEF Reasons
    <3>3. CASE reason = "completed" /\ r.state.calls = <<>>
      BY <3>3 DEF Reasons
    <3> QED
      BY <3>1, <3>2, <3>3
  <2>2. w = [r EXCEPT !.state.finish = finish, !.state.terminal = TRUE]
    BY <1>2 DEF Ended
  <2>3. r.state \in States
    BY DEF Updates
  <2> HIDE DEF finish
  <2>4. /\ q \in States /\ q.calls = r.state.calls /\ q.text = r.state.text
        /\ q.terminal /\ q.failed = r.state.failed /\ q.finish = finish
    BY <2>1, <2>3 DEF States
  <2>5. Same(r.state, q)
    BY <2>3 DEF Same, States
  <2>6. w.text = r.text /\ w.tools = r.tools /\ w.state = q
    BY <2>2 DEF Updates
  <2> HIDE DEF q
  <2> QED
    BY <1>2, <2>4, <2>5, <2>6 DEF finish
<1> QED
  BY <1>1, <1>2

LEMMA TerminalSound ==
  ASSUME NEW s \in States, Pointing(s), NEW e, e.output \in Seq(Items), e.reason \in {"completed", "length", "content_filter"},
         NEW m \in Nat, DOMAIN s.items \subseteq 0 .. m
  PROVE  /\ Sound(s, Terminal(s, e, TRUE))
         /\ Placed(s) /\ InPlace(s) /\ InOrder(e.output)
              => Orderly(s, Terminal(s, e, TRUE))
         /\ Terminal(s, e, TRUE).state.items = s.items
         /\ Terminal(s, e, TRUE).state.terminal \/ Terminal(s, e, TRUE).state.failed
<1> DEFINE t == [s EXCEPT !.usage = TRUE]
           r == Reconciled(t, e.output, TRUE)
           w == Terminal(s, e, TRUE)
           Good == InPlace(s) /\ InOrder(e.output)
<1>1. t \in States /\ t.calls = s.calls /\ t.text = s.text /\ t.items = s.items
  BY DEF States
<1>2. Same(s, t)
  BY DEF Same, States
<1>3. Pointing(t) /\ (Placed(s) => Placed(t))
  BY <1>1, <1>2, SameKeeps
<1> HIDE DEF t
<1>4. InPlace(s) => InPlace(t)
  BY <1>1 DEF InPlace
<1>5. /\ Sound(t, r)
      /\ Placed(t) /\ InPlace(t) /\ InOrder(e.output)
           => Orderly(t, r)
      /\ r.state.items = s.items
      /\ r \in Updates
  BY <1>1, <1>3, ReconciledSound
<1>6. SameArgs(s.calls, t.calls) /\ SameNames(s.calls, t.calls)
  BY <1>1 DEF SameArgs, SameNames
<1>7. Sound(s, r) /\ (Orderly(t, r) => Orderly(s, r))
  BY <1>1, <1>5, <1>6, SoundAfter
<1>8. Placed(s) /\ Good => Orderly(s, r)
  BY <1>3, <1>4, <1>5, <1>7
<1>9. w = Ended(r, e.reason)
  BY DEF Terminal, t
<1> HIDE DEF r, w, Good
<1>10. CASE r.state.failed
  <2>1. w = r
    BY <1>5, <1>9, <1>10, EndedIs
  <2> QED
    BY <1>5, <1>7, <1>8, <1>10, <2>1 DEF w, Good
<1>11. CASE ~r.state.failed
  <2> DEFINE q == w.state
  <2>1. /\ w.text = r.text /\ w.tools = r.tools /\ q \in States /\ Same(r.state, q)
        /\ q.calls = r.state.calls /\ q.text = r.state.text /\ q.terminal /\ ~q.failed
    BY <1>5, <1>9, <1>11, EndedIs
  <2>2. q.items = r.state.items
    BY <2>1 DEF Same
  <2>3. r.state \in States /\ Pointing(r.state)
    BY <1>7 DEF Sound
  <2> HIDE DEF q
  <2>4. Pointing(q) /\ (Placed(r.state) => Placed(q))
    BY <2>1, <2>3, SameKeeps
  <2>5. Sound(s, w)
    BY <1>7, <1>11, <2>1, <2>4 DEF Sound, q
  <2>6. Orderly(s, r) => Orderly(s, w)
    BY <1>11, <2>1, <2>4 DEF Orderly, q
  <2> QED
    BY <1>5, <1>8, <2>1, <2>2, <2>5, <2>6 DEF w, Good, q
<1> QED
  BY <1>10, <1>11

-----------------------------------------------------------------------------
(* outputIndexForEvent.                                                      *)
LEMMA IndexedIs ==
  ASSUME NEW s \in States, Pointing(s), NEW e, e.item \in Items, e.at \in Nat \cup {NoIndex}
  PROVE  /\ OutputIndex(s, e) \in Nat
         /\ Indexed(s, e) \in States
         /\ Indexed(s, e).calls = s.calls /\ Indexed(s, e).text = s.text
         /\ Indexed(s, e).byName = s.byName /\ Indexed(s, e).byOutput = s.byOutput
         /\ Indexed(s, e).current = s.current /\ Indexed(s, e).items = s.items
         /\ Indexed(s, e).failed = s.failed /\ Indexed(s, e).terminal = s.terminal
<1>1. /\ s.next \in Nat /\ s.calls \in Seq(Calls) /\ e.item.name \in Nat
  BY StateParts DEF Items
<1>2. OutputIndex(s, e) \in Nat
  <2>1. CASE e.at # NoIndex
    BY <2>1 DEF OutputIndex
  <2>2. CASE e.at = NoIndex /\ Lookup(s, e.item.name) # NoItem
    <3>1. Lookup(s, e.item.name) \in 1 .. Len(s.calls)
      <4>1. Lookup(s, e.item.name) \in 0 .. Len(s.calls)
        BY <1>1, LookupIs
      <4> QED
        BY <2>2, <4>1 DEF NoItem
    <3>2. s.calls[Lookup(s, e.item.name)] \in Calls
      BY <1>1, <3>1, ElementOfSeq
    <3> QED
      BY <2>2, <3>2 DEF OutputIndex, Calls
  <2>3. CASE e.at = NoIndex /\ Lookup(s, e.item.name) = NoItem
    BY <1>1, <2>3 DEF OutputIndex
  <2> QED
    BY <2>1, <2>2, <2>3
<1>3. \E n \in Nat : Indexed(s, e) = [s EXCEPT !.next = n]
  <2>1. CASE e.at # NoIndex
    <3>1. (IF e.at >= s.next THEN e.at + 1 ELSE s.next) \in Nat
      BY <1>1, <2>1
    <3>2. Indexed(s, e) = [s EXCEPT !.next = IF e.at >= s.next THEN e.at + 1 ELSE s.next]
      BY <2>1 DEF Indexed
    <3> QED
      BY <3>1, <3>2
  <2>2. CASE e.at = NoIndex /\ Lookup(s, e.item.name) # NoItem
    <3>1. Indexed(s, e) = [s EXCEPT !.next = s.next]
      BY <2>2 DEF Indexed, States
    <3> QED
      BY <1>1, <3>1
  <2>3. CASE e.at = NoIndex /\ Lookup(s, e.item.name) = NoItem
    <3>1. Indexed(s, e) = [s EXCEPT !.next = s.next + 1] /\ s.next + 1 \in Nat
      BY <1>1, <2>3 DEF Indexed
    <3> QED
      BY <3>1
  <2> QED
    BY <2>1, <2>2, <2>3
<1>4. PICK n \in Nat : Indexed(s, e) = [s EXCEPT !.next = n]
  BY <1>3
<1>5. /\ [s EXCEPT !.next = n] \in States
      /\ [s EXCEPT !.next = n].calls = s.calls /\ [s EXCEPT !.next = n].text = s.text
      /\ [s EXCEPT !.next = n].byName = s.byName /\ [s EXCEPT !.next = n].byOutput = s.byOutput
      /\ [s EXCEPT !.next = n].current = s.current /\ [s EXCEPT !.next = n].items = s.items
      /\ [s EXCEPT !.next = n].failed = s.failed /\ [s EXCEPT !.next = n].terminal = s.terminal
  BY DEF States
<1> QED
  BY <1>2, <1>4, <1>5

(* The item that was reported done is noted at its index.                    *)
Noted(s, e) == [Indexed(s, e) EXCEPT !.items = Put(@, OutputIndex(s, e), e.item)]

LEMMA NotedIs ==
  ASSUME NEW s \in States, Pointing(s), NEW e, e.item \in Items, e.at \in Nat \cup {NoIndex}
  PROVE  /\ Noted(s, e) \in States
         /\ Noted(s, e).calls = s.calls /\ Noted(s, e).text = s.text
         /\ Noted(s, e).byName = s.byName /\ Noted(s, e).byOutput = s.byOutput
         /\ Noted(s, e).current = s.current /\ Noted(s, e).next = Indexed(s, e).next
         /\ Noted(s, e).items = Put(s.items, OutputIndex(s, e), e.item)
         /\ Noted(s, e).failed = s.failed /\ Noted(s, e).terminal = s.terminal
<1> DEFINE t == Indexed(s, e)
           items == Put(s.items, OutputIndex(s, e), e.item)
<1>1. /\ OutputIndex(s, e) \in Nat /\ t \in States
      /\ t.calls = s.calls /\ t.text = s.text /\ t.byName = s.byName /\ t.byOutput = s.byOutput
      /\ t.current = s.current /\ t.items = s.items
      /\ t.failed = s.failed /\ t.terminal = s.terminal
  BY IndexedIs
<1>2. items \in Maps(Nat, Items)
  <2>1. s.items \in Maps(Nat, Items)
    BY StateParts
  <2> QED
    BY <1>1, <2>1, PutTyped
<1>3. Noted(s, e) = [t EXCEPT !.items = items]
  BY <1>1 DEF Noted
<1> HIDE DEF t, items
<1>4. /\ [t EXCEPT !.items = items] \in States
      /\ [t EXCEPT !.items = items].calls = t.calls /\ [t EXCEPT !.items = items].text = t.text
      /\ [t EXCEPT !.items = items].byName = t.byName /\ [t EXCEPT !.items = items].byOutput = t.byOutput
      /\ [t EXCEPT !.items = items].current = t.current /\ [t EXCEPT !.items = items].next = t.next
      /\ [t EXCEPT !.items = items].items = items
      /\ [t EXCEPT !.items = items].failed = t.failed /\ [t EXCEPT !.items = items].terminal = t.terminal
  BY <1>1, <1>2 DEF States
<1> QED
  BY <1>1, <1>3, <1>4 DEF t, items

(* A state with the same calls and maps finds the same calls.                *)
LEMMA SameFinds ==
  ASSUME NEW s, NEW t, t.calls = s.calls, t.byName = s.byName, t.byOutput = s.byOutput,
         t.current = s.current
  PROVE  /\ \A item, at : CallFor(t, item, at) = CallFor(s, item, at)
         /\ Pointing(s) => Pointing(t)
         /\ Placed(s) => Placed(t)
<1>1. \A item, at : CallFor(t, item, at) = CallFor(s, item, at)
  BY DEF CallFor, Lookup
<1>2. Pointing(s) => Pointing(t)
  BY DEF Pointing
<1>3. Placed(s) => Placed(t)
  BY DEF Placed
<1> QED
  BY <1>1, <1>2, <1>3

-----------------------------------------------------------------------------
(* What applyResponsesEvent does with each event of a response that is open. *)
Open(s) == ~s.terminal /\ ~s.failed

LEMMA ApplyClosed ==
  ASSUME NEW s, NEW e, ~Open(s) \/ e.kind = "malformed"
  PROVE  Apply(s, e, TRUE) = Failure(s)
BY DEF Apply, Open

LEMMA ApplyTextDelta ==
  ASSUME NEW s, NEW e, Open(s), e.kind = "text delta"
  PROVE  Apply(s, e, TRUE) = Update([s EXCEPT !.text = @ \o e.body], e.body, <<>>)
BY DEF Apply, Open

LEMMA ApplyTextDone ==
  ASSUME NEW s, NEW e, Open(s), e.kind = "text done"
  PROVE  Apply(s, e, TRUE) = TextSnapshot(s, e.body, TRUE)
BY DEF Apply, Open

LEMMA ApplyAdded ==
  ASSUME NEW s, NEW e, Open(s), e.kind = "item added"
  PROVE  /\ e.item.type # "call" => Apply(s, e, TRUE) = Quiet(s)
         /\ e.item.type = "call" =>
              Apply(s, e, TRUE) =
                IF CallFor(s, e.item, OutputIndex(s, e)) <= Len(s.calls)
                THEN Quiet(Ensured(Indexed(s, e), e.item, OutputIndex(s, e)))
                ELSE Update(Ensured(Indexed(s, e), e.item, OutputIndex(s, e)), <<>>,
                            FirstDelta(Ensured(Indexed(s, e), e.item, OutputIndex(s, e)),
                                       Len(Ensured(Indexed(s, e), e.item, OutputIndex(s, e)).calls)))
BY DEF Apply, Open

LEMMA ApplyDone ==
  ASSUME NEW s, NEW e, Open(s), e.kind = "item done"
  PROVE  /\ e.item.type = "reasoning" => Apply(s, e, TRUE) = Quiet(Noted(s, e))
         /\ e.item.type = "message" => Apply(s, e, TRUE) = TextSnapshot(Noted(s, e), e.item.body, TRUE)
         /\ e.item.type = "call" => Apply(s, e, TRUE) = ToolSnapshot(Noted(s, e), e.item, OutputIndex(s, e))
BY DEF Apply, Open, Noted

LEMMA ApplyArgsDelta ==
  ASSUME NEW s, NEW e, Open(s), e.kind = "args delta"
  PROVE  Apply(s, e, TRUE) =
           IF CallOfEvent(s, e) = NoItem THEN Failure(s)
           ELSE Update([s EXCEPT !.calls[CallOfEvent(s, e)].args = @ \o e.body], <<>>,
                       ArgsDelta(CallOfEvent(s, e), e.body))
BY DEF Apply, Open

LEMMA ApplyArgsDone ==
  ASSUME NEW s, NEW e, Open(s), e.kind = "args done"
  PROVE  Apply(s, e, TRUE) =
           IF CallOfEvent(s, e) = NoItem THEN Failure(s)
           ELSE ArgsSnapshot(s, CallOfEvent(s, e), e.body, TRUE)
BY DEF Apply, Open

LEMMA ApplyTerminal ==
  ASSUME NEW s, NEW e, Open(s), e.kind = "terminal"
  PROVE  Apply(s, e, TRUE) = Terminal(s, e, TRUE)
BY DEF Apply, Open

LEMMA ApplyFailed ==
  ASSUME NEW s, NEW e, Open(s), e.kind = "failed"
  PROVE  Apply(s, e, TRUE) = Failure([s EXCEPT !.usage = @ \/ e.usage])
BY DEF Apply, Open

LEMMA ApplyOther ==
  ASSUME NEW s, NEW e, Open(s), e.kind = "other"
  PROVE  Apply(s, e, TRUE) = Quiet(s)
BY DEF Apply, Open

(* toolIndexForPayload.                                                      *)
LEMMA CallOfEventIs ==
  ASSUME NEW s \in States, Pointing(s), NEW e, e.name \in Nat
  PROVE  CallOfEvent(s, e) \in 0 .. Len(s.calls)
<1>1. Lookup(s, e.name) \in 0 .. Len(s.calls)
  BY LookupIs
<1>2. /\ \A i \in DOMAIN s.byOutput : s.byOutput[i] \in 0 .. Len(s.calls)
      /\ s.current \in 0 .. Len(s.calls)
  BY PointsWithin
<1> QED
  BY <1>1, <1>2 DEF CallOfEvent

(* Events that tell of no item: texts, arguments, and what breaks a response. *)
Telling(e) ==
  /\ e.kind \in {"malformed", "text delta", "text done", "args delta", "args done", "failed", "other"}
  /\ e.kind \in {"text delta", "text done", "args delta", "args done"} => e.body \in Texts /\ e.name \in Nat
  /\ e.kind = "failed" => e.usage \in BOOLEAN

LEMMA UsageSet ==
  ASSUME NEW s \in States, NEW usage \in BOOLEAN
  PROVE  /\ [s EXCEPT !.usage = @ \/ usage] \in States
         /\ [s EXCEPT !.usage = @ \/ usage].calls = s.calls
         /\ [s EXCEPT !.usage = @ \/ usage].text = s.text
         /\ Same(s, [s EXCEPT !.usage = @ \/ usage])
<1> DEFINE t == [s EXCEPT !.usage = @ \/ usage]
<1>1. (s.usage \/ usage) \in BOOLEAN
  BY Zenon
<1>2. t = [s EXCEPT !.usage = (s.usage \/ usage)]
  OBVIOUS
<1> DEFINE b == (s.usage \/ usage)
<1> HIDE DEF b
<1>3. b \in BOOLEAN /\ t = [s EXCEPT !.usage = b]
  BY <1>1, <1>2 DEF b
<1> HIDE DEF t
<1>4. t \in States /\ t.calls = s.calls /\ t.text = s.text
  BY <1>3 DEF States
<1>5. Same(s, t)
  BY <1>3 DEF Same, States
<1> QED
  BY <1>4, <1>5 DEF t

LEMMA TellingSound ==
  ASSUME NEW s \in States, Pointing(s), NEW e, Telling(e)
  PROVE  /\ Sound(s, Apply(s, e, TRUE))
         /\ Placed(s) => Orderly(s, Apply(s, e, TRUE))
         /\ Same(s, Apply(s, e, TRUE).state)
<1> DEFINE u == Apply(s, e, TRUE)
<1>1. CASE ~Open(s) \/ e.kind = "malformed"
  <2>1. u = Failure(s)
    BY <1>1, ApplyClosed
  <2> HIDE DEF u
  <2>2. Sound(s, u) /\ Orderly(s, u) /\ Same(s, u.state)
    BY <2>1, SoundFailure
  <2> QED
    BY <2>2 DEF u
<1>2. CASE Open(s) /\ e.kind = "text delta"
  <2>1. e.body \in Texts
    BY <1>2 DEF Telling
  <2> DEFINE text == s.text \o e.body
             t == [s EXCEPT !.text = text]
  <2>2. u = Update(t, e.body, <<>>)
    BY <1>2, ApplyTextDelta
  <2>3. text \in Texts
    BY <2>1, TextJoined, StateParts
  <2> HIDE DEF u
  <2>4. t \in States /\ t.text = text /\ t.calls = s.calls /\ Same(s, t)
    <3> HIDE DEF text
    <3> QED
      BY <2>3, TextSet
  <2> HIDE DEF t
  <2>5. Sound(s, u) /\ (Placed(s) => Orderly(s, u))
    BY <2>1, <2>2, <2>4, SoundText
  <2>6. u.state = t
    BY <2>2 DEF Update
  <2> QED
    BY <2>4, <2>5, <2>6 DEF u
<1>3. CASE Open(s) /\ e.kind = "text done"
  <2>1. e.body \in Texts
    BY <1>3 DEF Telling
  <2>2. u = TextSnapshot(s, e.body, TRUE)
    BY <1>3, ApplyTextDone
  <2> QED
    BY <2>1, <2>2, SnapshotSound
<1>4. CASE Open(s) /\ e.kind \in {"args delta", "args done"}
  <2>1. e.body \in Texts /\ e.name \in Nat
    BY <1>4 DEF Telling
  <2> DEFINE k == CallOfEvent(s, e)
  <2>2. k \in 0 .. Len(s.calls) /\ Len(s.calls) \in Nat
    BY <2>1, CallOfEventIs, StateParts
  <2>3. CASE k = NoItem
    <3>1. u = Failure(s)
      BY <1>4, <2>3, ApplyArgsDelta, ApplyArgsDone
    <3> QED
      BY <3>1, SoundFailure
  <2>4. CASE k # NoItem
    <3>1. k \in 1 .. Len(s.calls)
      BY <2>2, <2>4 DEF NoItem
    <3>2. CASE e.kind = "args delta"
      <4> DEFINE args == s.calls[k].args \o e.body
                 t == [s EXCEPT !.calls[k].args = args]
      <4>1. u = Update(t, <<>>, ArgsDelta(k, e.body))
        BY <1>4, <2>4, <3>2, ApplyArgsDelta
      <4>2. args \in Texts
        <5>1. s.calls[k] \in Calls
          BY <3>1, StateParts, ElementOfSeq
        <5>2. s.calls[k].args \in Texts
          BY <5>1 DEF Calls
        <5> QED
          BY <2>1, <5>2, TextJoined
      <4>3. Extends(s, k, e.body, args)
        BY DEF Extends
      <4>4. SetsArgs(s, t, k, args)
        BY <3>1, <4>2, ArgsSetChanges
      <4> HIDE DEF u, args, k, t
      <4>5. /\ Sound(s, Update(t, <<>>, ArgsDelta(k, e.body)))
            /\ Placed(s) => Orderly(s, Update(t, <<>>, ArgsDelta(k, e.body)))
            /\ Same(s, t)
        BY <2>1, <3>1, <4>2, <4>3, <4>4, SoundArgs
      <4>6. u.state = t
        BY <4>1 DEF Update
      <4> QED
        BY <4>1, <4>5, <4>6 DEF u
    <3>3. CASE e.kind = "args done"
      <4>1. u = ArgsSnapshot(s, k, e.body, TRUE)
        BY <1>4, <2>4, <3>3, ApplyArgsDone
      <4> QED
        BY <2>1, <3>1, <4>1, ArgsSnapshotSound
    <3> QED
      BY <1>4, <3>2, <3>3
  <2> QED
    BY <2>3, <2>4
<1>5. CASE Open(s) /\ e.kind = "failed"
  <2>1. e.usage \in BOOLEAN
    BY <1>5 DEF Telling
  <2> DEFINE t == [s EXCEPT !.usage = @ \/ e.usage]
  <2>2. u = Failure(t)
    BY <1>5, ApplyFailed
  <2>3. t \in States /\ t.calls = s.calls /\ t.text = s.text /\ Same(s, t)
    BY <2>1, UsageSet
  <2> HIDE DEF t, u
  <2>4. Pointing(t)
    BY <2>3, SameKeeps
  <2>5. Sound(t, u) /\ u.state.failed /\ Same(t, u.state)
    BY <2>2, <2>3, <2>4, SoundFailure
  <2>6. SameArgs(s.calls, t.calls)
    BY <2>3 DEF SameArgs
  <2>7. Sound(s, u)
    BY <2>3, <2>5, <2>6, SoundAfter
  <2>8. Orderly(s, u)
    BY <2>5 DEF Orderly
  <2>9. Same(s, u.state)
    BY <2>3, <2>5 DEF Same
  <2> QED
    BY <2>7, <2>8, <2>9 DEF u
<1>6. CASE Open(s) /\ e.kind = "other"
  <2>1. u = Quiet(s)
    BY <1>6, ApplyOther
  <2>2. Same(s, s)
    BY DEF Same
  <2> QED
    BY <2>1, <2>2, SoundQuiet
<1>7. e.kind \in {"malformed", "text delta", "text done", "args delta", "args done", "failed", "other"}
  BY DEF Telling
<1> QED
  BY <1>1, <1>2, <1>3, <1>4, <1>5, <1>6, <1>7

(* response.output_item.added.                                               *)
LEMMA AddedEvent ==
  ASSUME NEW s \in States, Pointing(s), Open(s), NEW e, e.kind = "item added",
         e.item \in Items, e.at \in Nat \cup {NoIndex}
  PROVE  /\ Sound(s, Apply(s, e, TRUE))
         /\ Placed(s) /\ (e.item.type = "call" => e.item.name = Known(OutputIndex(s, e)))
              => Orderly(s, Apply(s, e, TRUE))
         /\ Apply(s, e, TRUE).state = IF e.item.type # "call" THEN s
                                      ELSE Ensured(Indexed(s, e), e.item, OutputIndex(s, e))
<1> DEFINE u == Apply(s, e, TRUE)
           at == OutputIndex(s, e)
           m == Indexed(s, e)
<1>1. CASE e.item.type # "call"
  <2>1. u = Quiet(s)
    BY <1>1, ApplyAdded
  <2> QED
    BY <1>1, <2>1, SoundQuiet
<1>2. CASE e.item.type = "call"
  <2>1. u = IF CallFor(s, e.item, at) <= Len(s.calls) THEN Quiet(Ensured(m, e.item, at))
            ELSE Update(Ensured(m, e.item, at), <<>>,
                        FirstDelta(Ensured(m, e.item, at), Len(Ensured(m, e.item, at).calls)))
    BY <1>2, ApplyAdded
  <2>2. /\ at \in Nat /\ m \in States /\ m.calls = s.calls /\ m.text = s.text
        /\ m.byName = s.byName /\ m.byOutput = s.byOutput /\ m.current = s.current
    BY IndexedIs
  <2> HIDE DEF u, at, m
  <2>3. Pointing(m) /\ (Placed(s) => Placed(m)) /\ CallFor(m, e.item, at) = CallFor(s, e.item, at)
    <3>1. Pointing(m) /\ (Placed(s) => Placed(m))
      BY <2>2, SameFinds
    <3>2. \A item, i : CallFor(m, item, i) = CallFor(s, item, i)
      BY <2>2, SameFinds
    <3> QED
      BY <3>1, <3>2
  <2>4. u = IF CallFor(m, e.item, at) <= Len(m.calls) THEN Quiet(Ensured(m, e.item, at))
            ELSE Update(Ensured(m, e.item, at), <<>>,
                        FirstDelta(Ensured(m, e.item, at), Len(Ensured(m, e.item, at).calls)))
    BY <2>1, <2>2, <2>3
  <2>5. /\ Sound(m, u)
        /\ Placed(m) /\ e.item.name = Known(at) => Orderly(m, u)
        /\ u.state = Ensured(m, e.item, at)
    BY <2>2, <2>3, <2>4, AddedSound
  <2>6. SameArgs(s.calls, m.calls) /\ SameNames(s.calls, m.calls)
    BY <2>2 DEF SameArgs, SameNames
  <2>7. Sound(s, u) /\ (Orderly(m, u) => Orderly(s, u))
    BY <2>2, <2>5, <2>6, SoundAfter
  <2> QED
    BY <1>2, <2>3, <2>5, <2>7 DEF u, at, m
<1> QED
  BY <1>1, <1>2

(* response.output_item.done.                                                *)
LEMMA DoneEvent ==
  ASSUME NEW s \in States, Pointing(s), Open(s), NEW e, e.kind = "item done",
         e.item \in Items, e.at \in Nat \cup {NoIndex}
  PROVE  /\ Sound(s, Apply(s, e, TRUE))
         /\ Placed(s) /\ (e.item.type = "call" => e.item.name = Known(OutputIndex(s, e)))
              => Orderly(s, Apply(s, e, TRUE))
         /\ Same(IF e.item.type # "call" THEN Noted(s, e)
                 ELSE Ensured(Noted(s, e), e.item, OutputIndex(s, e)),
                 Apply(s, e, TRUE).state)
<1> DEFINE u == Apply(s, e, TRUE)
           at == OutputIndex(s, e)
           m == Noted(s, e)
<1>1. /\ m \in States /\ m.calls = s.calls /\ m.text = s.text
      /\ m.byName = s.byName /\ m.byOutput = s.byOutput /\ m.current = s.current
  BY NotedIs
<1>2. at \in Nat /\ e.item.type \in {"message", "call", "reasoning"} /\ e.item.body \in Texts
  BY IndexedIs DEF Items
<1>3. /\ e.item.type = "reasoning" => u = Quiet(m)
      /\ e.item.type = "message" => u = TextSnapshot(m, e.item.body, TRUE)
      /\ e.item.type = "call" => u = ToolSnapshot(m, e.item, at)
  BY ApplyDone
<1> HIDE DEF u, at, m
<1>4. Pointing(m) /\ (Placed(s) => Placed(m))
  BY <1>1, SameFinds
<1>5. SameArgs(s.calls, m.calls) /\ SameNames(s.calls, m.calls)
  BY <1>1 DEF SameArgs, SameNames
<1>6. Sound(m, u) => Sound(s, u) /\ (Orderly(m, u) => Orderly(s, u))
  BY <1>1, <1>5, SoundAfter
<1>7. CASE e.item.type = "reasoning"
  <2>1. u = Quiet(m)
    BY <1>3, <1>7
  <2>2. Sound(m, u) /\ (Placed(m) => Orderly(m, u)) /\ u.state = m
    BY <1>1, <1>4, <2>1, SoundQuiet
  <2>3. Same(m, u.state)
    BY <2>2 DEF Same
  <2> QED
    BY <1>4, <1>6, <1>7, <2>2, <2>3 DEF u, at, m
<1>8. CASE e.item.type = "message"
  <2>1. u = TextSnapshot(m, e.item.body, TRUE)
    BY <1>3, <1>8
  <2>2. Sound(m, u) /\ (Placed(m) => Orderly(m, u)) /\ Same(m, u.state)
    BY <1>1, <1>2, <1>4, <2>1, SnapshotSound
  <2> QED
    BY <1>4, <1>6, <1>8, <2>2 DEF u, at, m
<1>9. CASE e.item.type = "call"
  <2>1. u = ToolSnapshot(m, e.item, at)
    BY <1>3, <1>9
  <2>2. /\ Sound(m, u)
        /\ Placed(m) /\ e.item.name = Known(at) => Orderly(m, u)
        /\ Same(Ensured(m, e.item, at), u.state)
    BY <1>1, <1>2, <1>4, <2>1, ToolSnapshotSound
  <2> QED
    BY <1>4, <1>6, <1>9, <2>2 DEF u, at, m
<1> QED
  BY <1>2, <1>7, <1>8, <1>9

(* Nothing opens a response again.                                           *)
LEMMA StaysClosed ==
  ASSUME NEW s \in States, NEW e, ~Open(s)
  PROVE  Apply(s, e, TRUE) = Failure(s) /\ ~Open(Apply(s, e, TRUE).state)
<1>1. Apply(s, e, TRUE) = Failure(s)
  BY ApplyClosed
<1>2. Failure(s).state.failed
  BY DEF Failure, Quiet, Update, States
<1> QED
  BY <1>1, <1>2 DEF Open

-----------------------------------------------------------------------------
(* The counter behind outputIndexForEvent, when items have names only: how   *)
(* far it is, what it has given out, and what was noted at the wrong place.  *)
Counting(s, t) ==
  /\ DOMAIN s.byName = {k \in DOMAIN answer : t[k].begun /\ answer[k].type = "call"}
  /\ \A k \in DOMAIN answer : t[k].begun =>
       k - 1 <= s.next /\ (answer[k].type = "call" \/ t[k].done => k <= s.next)
  /\ InPlace(s) => \A k \in DOMAIN answer : ~t[k].begun => s.next <= k - 1
  /\ \A i \in DOMAIN s.byOutput \cup DOMAIN s.items : i < s.next
  /\ \A n \in DOMAIN s.byName : s.calls[s.byName[n]].name = n
  /\ \A j \in 1 .. Len(s.calls) :
       s.calls[j].at \in DOMAIN s.byOutput /\ s.byOutput[s.calls[j].at] = j
  /\ \A i \in DOMAIN s.items : s.items[i].name # i + 1 =>
       \A j \in 1 .. Len(s.calls) : s.calls[j].at = i => s.calls[j].name = s.items[i].name

AnswerOK == answer \in Seq([type : {"message", "call", "reasoning"}, body : Texts])

LEMMA AnswerIs ==
  ASSUME AnswerOK
  PROVE  /\ Len(answer) \in Nat /\ DOMAIN answer = 1 .. Len(answer)
         /\ \A k \in DOMAIN answer : k \in Nat \ {0} /\ answer[k].body \in Texts
              /\ answer[k].type \in {"message", "call", "reasoning"}
<1>1. Len(answer) \in Nat /\ DOMAIN answer = 1 .. Len(answer)
  BY LenProperties DEF AnswerOK
<1>2. ASSUME NEW k \in DOMAIN answer
      PROVE  k \in Nat \ {0} /\ answer[k].body \in Texts
             /\ answer[k].type \in {"message", "call", "reasoning"}
  <2>1. answer[k] \in [type : {"message", "call", "reasoning"}, body : Texts]
    BY <1>1, ElementOfSeq DEF AnswerOK
  <2> QED
    BY <1>1, <2>1
<1> QED
  BY <1>1, <1>2

(* An item is noted at a place.                                              *)
Notes(s, r, at, item) ==
  /\ DOMAIN r.items = DOMAIN s.items \cup {at} /\ r.items[at] = item
  /\ \A i \in DOMAIN s.items : i # at => r.items[i] = s.items[i]

LEMMA PutNotes ==
  ASSUME NEW s, NEW r, NEW at, NEW item, r.items = Put(s.items, at, item)
  PROVE  Notes(s, r, at, item)
<1>1. DOMAIN r.items = DOMAIN s.items \cup {at}
  BY PutDomain, ZenonT(30)
<1>2. r.items[at] = item
  BY PutAt
<1>3. ASSUME NEW i \in DOMAIN s.items, i # at PROVE r.items[i] = s.items[i]
  BY <1>3, PutElse
<1> QED
  BY <1>1, <1>2, <1>3 DEF Notes

LEMMA CountingSame ==
  ASSUME NEW s \in States, Pointing(s), NEW r \in States, Same(s, r), NEW t, NEW b,
         \A k \in DOMAIN answer : (b[k].begun <=> t[k].begun) /\ (b[k].done <=> t[k].done),
         Counting(s, t)
  PROVE  Counting(r, b)
<1>1. \A n \in DOMAIN s.byName : s.byName[n] \in 1 .. Len(s.calls)
  BY PointsWithin
<1>2. InPlace(r) <=> InPlace(s)
  BY DEF InPlace, Same
<1>3. DOMAIN r.byName = {k \in DOMAIN answer : b[k].begun /\ answer[k].type = "call"}
  BY DEF Counting, Same
<1>4. \A k \in DOMAIN answer : b[k].begun =>
        k - 1 <= r.next /\ (answer[k].type = "call" \/ b[k].done => k <= r.next)
  BY DEF Counting, Same
<1>5. InPlace(r) => \A k \in DOMAIN answer : ~b[k].begun => r.next <= k - 1
  BY <1>2 DEF Counting, Same
<1>6. /\ \A i \in DOMAIN r.byOutput \cup DOMAIN r.items : i < r.next
      /\ \A n \in DOMAIN r.byName : r.calls[r.byName[n]].name = n
  BY <1>1 DEF Counting, Same
<1>7. \A j \in 1 .. Len(r.calls) :
        r.calls[j].at \in DOMAIN r.byOutput /\ r.byOutput[r.calls[j].at] = j
  BY DEF Counting, Same
<1>8. \A i \in DOMAIN r.items : r.items[i].name # i + 1 =>
        \A j \in 1 .. Len(r.calls) : r.calls[j].at = i => r.calls[j].name = r.items[i].name
  BY DEF Counting, Same
<1> QED
  BY <1>3, <1>4, <1>5, <1>6, <1>7, <1>8 DEF Counting

(* Upstream sends the first, or more, of item k.                             *)
Begins(b, k) == b[k].begun /\ \A i \in DOMAIN answer : i # k => b[i] = sent[i]

(* An event for a call that is known by its name: it keeps name and place.   *)
Keeps(s, r) ==
  /\ r.next = s.next /\ r.byName = s.byName /\ r.byOutput = s.byOutput
  /\ Len(r.calls) = Len(s.calls)
  /\ \A j \in 1 .. Len(s.calls) : r.calls[j].name = s.calls[j].name /\ r.calls[j].at = s.calls[j].at

(* The item is of call k, which has number p and place at.                   *)
IsCall(s, k, p, at, item) == p = s.byName[k] /\ s.calls[p].at = at /\ item.name = k

LEMMA CountingKnown ==
  ASSUME AnswerOK, labels = {"id"}, NEW s \in States, Pointing(s), Counting(s, sent), NEW r \in States, Keeps(s, r),
         NEW k \in DOMAIN s.byName, NEW p, NEW at, NEW item, IsCall(s, k, p, at, item),
         Notes(s, r, at, item), NEW b, Begins(b, k)
  PROVE  Counting(r, b) /\ (InPlace(r) => InPlace(s))
<1>0. k \in DOMAIN answer /\ sent[k].begun /\ answer[k].type = "call"
  BY DEF Counting
<1>14. \A i \in DOMAIN answer : (b[i].begun <=> sent[i].begun) /\ (i # k => b[i].done = sent[i].done)
  BY <1>0 DEF Begins
<1>15. /\ r.next = s.next /\ r.byName = s.byName /\ r.byOutput = s.byOutput
       /\ Len(r.calls) = Len(s.calls)
  BY DEF Keeps
<1>16. \A j \in 1 .. Len(s.calls) : r.calls[j].name = s.calls[j].name /\ r.calls[j].at = s.calls[j].at
  BY DEF Keeps
<1>17. \A n \in DOMAIN s.byName : s.calls[s.byName[n]].name = n
  BY DEF Counting
<1>18. \A j \in 1 .. Len(s.calls) :
         s.calls[j].at \in DOMAIN s.byOutput /\ s.byOutput[s.calls[j].at] = j
  BY DEF Counting
<1>19. \A i \in DOMAIN s.items : s.items[i].name # i + 1 =>
         \A j \in 1 .. Len(s.calls) : s.calls[j].at = i => s.calls[j].name = s.items[i].name
  BY DEF Counting
<1>20. \A i \in DOMAIN s.byOutput \cup DOMAIN s.items : i < s.next
  BY DEF Counting
<1>1. /\ \A n \in DOMAIN s.byName : s.byName[n] \in 1 .. Len(s.calls)
      /\ p \in 1 .. Len(s.calls) /\ s.calls[p].name = k /\ s.calls[p].at = at /\ item.name = k
  <2>1. \A n \in DOMAIN s.byName : s.byName[n] \in 1 .. Len(s.calls)
    BY PointsWithin
  <2> QED
    BY <1>17, <2>1 DEF IsCall
<1>2. at \in DOMAIN s.byOutput /\ s.byOutput[at] = p /\ at < s.next
  <2>1. at \in DOMAIN s.byOutput /\ s.byOutput[at] = p
    BY <1>1, <1>18
  <2> QED
    BY <1>20, <2>1
<1>3. \A j \in 1 .. Len(s.calls) : s.calls[j].at = at => j = p
  BY <1>2, <1>18
<1>4. /\ DOMAIN r.items = DOMAIN s.items \cup {at} /\ r.items[at] = item
      /\ \A i \in DOMAIN s.items : i # at => r.items[i] = s.items[i]
  BY DEF Notes
<1>21. \A i : Known(i) = i + 1
  BY DEF Known
<1>5. ASSUME InPlace(r) PROVE InPlace(s)
  <2>1. item.name = at + 1
    <3>1. at \in DOMAIN r.items /\ r.items[at] = item
      BY <1>4
    <3>2. r.items[at].name = at + 1
      BY <1>5, <1>21, <3>1 DEF InPlace
    <3> QED
      BY <3>1, <3>2
  <2>2. at \in DOMAIN s.items => s.items[at].name = at + 1
    <3>1. ASSUME at \in DOMAIN s.items, s.items[at].name # at + 1 PROVE FALSE
      <4>1. \A j \in 1 .. Len(s.calls) : s.calls[j].at = at => s.calls[j].name = s.items[at].name
        BY <1>19, <3>1
      <4>2. s.calls[p].name = s.items[at].name
        BY <1>1, <4>1
      <4>3. s.items[at].name = k
        BY <1>1, <4>2
      <4>4. k = at + 1
        BY <1>1, <2>1
      <4> QED
        BY <3>1, <4>3, <4>4
    <3> QED
      BY <3>1
  <2>3. ASSUME NEW i \in DOMAIN s.items PROVE s.items[i].name = Known(i)
    <3>1. CASE i = at
      BY <1>21, <2>2, <3>1
    <3>2. CASE i # at
      <4>1. i \in DOMAIN r.items /\ r.items[i] = s.items[i]
        BY <1>4, <3>2
      <4> QED
        BY <1>5, <4>1 DEF InPlace
    <3> QED
      BY <3>1, <3>2
  <2> QED
    BY <2>3 DEF InPlace
<1>6. DOMAIN r.byName = {i \in DOMAIN answer : b[i].begun /\ answer[i].type = "call"}
  BY <1>14, <1>15 DEF Counting
<1>7. \A i \in DOMAIN answer : b[i].begun =>
        i - 1 <= r.next /\ (answer[i].type = "call" \/ b[i].done => i <= r.next)
  <2>1. \A i \in DOMAIN answer : sent[i].begun =>
          i - 1 <= s.next /\ (answer[i].type = "call" \/ sent[i].done => i <= s.next)
    BY DEF Counting
  <2> QED
    BY <1>0, <1>14, <1>15, <2>1
<1>8. InPlace(r) => \A i \in DOMAIN answer : ~b[i].begun => r.next <= i - 1
  BY <1>5, <1>14, <1>15 DEF Counting
<1>9. \A i \in DOMAIN r.byOutput \cup DOMAIN r.items : i < r.next
  BY <1>2, <1>4, <1>15, <1>20
<1>10. \A n \in DOMAIN r.byName : r.calls[r.byName[n]].name = n
  BY <1>1, <1>15, <1>16, <1>17
<1>11. \A j \in 1 .. Len(r.calls) :
         r.calls[j].at \in DOMAIN r.byOutput /\ r.byOutput[r.calls[j].at] = j
  BY <1>15, <1>16, <1>18
<1>12. ASSUME NEW i \in DOMAIN r.items, r.items[i].name # i + 1,
              NEW j \in 1 .. Len(r.calls), r.calls[j].at = i
       PROVE  r.calls[j].name = r.items[i].name
  <2>0. /\ j \in 1 .. Len(s.calls) /\ s.calls[j].at = i
        /\ r.calls[j].name = s.calls[j].name
    BY <1>12, <1>15, <1>16
  <2>1. CASE i = at
    <3>1. j = p
      BY <1>3, <2>0, <2>1
    <3>2. s.calls[j].name = k
      BY <1>1, <3>1
    <3>3. r.items[i].name = k
      BY <1>1, <1>4, <2>1
    <3> QED
      BY <2>0, <3>2, <3>3
  <2>2. CASE i # at
    <3>1. i \in DOMAIN s.items /\ r.items[i] = s.items[i]
      BY <1>4, <2>2
    <3>2. s.calls[j].name = s.items[i].name
      BY <1>12, <1>19, <2>0, <3>1
    <3> QED
      BY <2>0, <3>1, <3>2
  <2> QED
    BY <2>1, <2>2
<1>13. Counting(r, b)
  BY <1>6, <1>7, <1>8, <1>9, <1>10, <1>11, <1>12 DEF Counting
<1> QED
  BY <1>5, <1>13

(* The item takes the next place: a call is the next one, too.               *)
Grows(s, r, k, n) ==
  \/ /\ answer[k].type # "call"
     /\ r.calls = s.calls /\ r.byName = s.byName /\ r.byOutput = s.byOutput
  \/ /\ answer[k].type = "call"
     /\ Len(r.calls) = n /\ \A j \in 1 .. Len(s.calls) : r.calls[j] = s.calls[j]
     /\ r.calls[n].name = k /\ r.calls[n].at = s.next
     /\ DOMAIN r.byName = DOMAIN s.byName \cup {k} /\ r.byName[k] = n
     /\ \A i \in DOMAIN s.byName : i # k => r.byName[i] = s.byName[i]
     /\ DOMAIN r.byOutput = DOMAIN s.byOutput \cup {s.next} /\ r.byOutput[s.next] = n
     /\ \A i \in DOMAIN s.byOutput : i # s.next => r.byOutput[i] = s.byOutput[i]

LEMMA CountingNext ==
  ASSUME AnswerOK, labels = {"id"}, NEW s \in States, Pointing(s), NEW r \in States, Counting(s, sent),
         NEW k \in DOMAIN answer, NEW item, item.name = k, r.next = s.next + 1, k - 1 <= s.next,
         NEW b, Begins(b, k), \A i \in DOMAIN answer : ~b[i].begun => k < i,
         r.items = s.items \/ Notes(s, r, s.next, item),
         InPlace(r) => k = s.next + 1,
         NEW n, n = Len(s.calls) + 1, Grows(s, r, k, n)
  PROVE  Counting(r, b) /\ (InPlace(r) => InPlace(s))
<1> USE DEF Begins, Grows
<1>0. /\ s.next \in Nat /\ Len(s.calls) \in Nat /\ n \in Nat /\ n \notin 1 .. Len(s.calls)
      /\ \A i \in DOMAIN answer : i \in Nat \ {0}
      /\ DOMAIN s.items \subseteq Nat /\ DOMAIN s.byOutput \subseteq Nat
  <2>1. s.next \in Nat /\ Len(s.calls) \in Nat
    BY StateParts
  <2>2. \A i \in DOMAIN answer : i \in Nat \ {0}
    BY AnswerIs
  <2>3. DOMAIN s.items \subseteq Nat /\ DOMAIN s.byOutput \subseteq Nat
    BY StateParts, MapIs
  <2> QED
    BY <2>1, <2>2, <2>3
<1>1. \A i \in DOMAIN s.byName : s.byName[i] \in 1 .. Len(s.calls)
  BY PointsWithin
<1>2. s.next \notin DOMAIN s.items /\ s.next \notin DOMAIN s.byOutput
  BY <1>0 DEF Counting
<1>3. /\ DOMAIN r.items = DOMAIN s.items \/ (DOMAIN r.items = DOMAIN s.items \cup {s.next} /\ r.items[s.next] = item)
      /\ \A i \in DOMAIN s.items : i \in DOMAIN r.items /\ r.items[i] = s.items[i]
  <2>1. CASE r.items = s.items
    BY <2>1
  <2>2. CASE Notes(s, r, s.next, item)
    BY <1>2, <2>2 DEF Notes
  <2> QED
    BY <2>1, <2>2
<1>4. InPlace(r) => InPlace(s)
  BY <1>3 DEF InPlace
<1>5. DOMAIN r.byName = {i \in DOMAIN answer : b[i].begun /\ answer[i].type = "call"}
  BY DEF Counting
<1>6. ASSUME NEW i \in DOMAIN answer, b[i].begun
      PROVE  i - 1 <= r.next /\ (answer[i].type = "call" \/ b[i].done => i <= r.next)
  <2>1. CASE i = k
    BY <1>0, <2>1
  <2>2. CASE i # k
    <3>1. i - 1 <= s.next /\ (answer[i].type = "call" \/ b[i].done => i <= s.next)
      BY <1>6, <2>2 DEF Counting
    <3> QED
      BY <1>0, <3>1
  <2> QED
    BY <2>1, <2>2
<1>7. ASSUME InPlace(r), NEW i \in DOMAIN answer, ~b[i].begun PROVE r.next <= i - 1
  <2>1. k = s.next + 1 /\ k < i
    BY <1>7
  <2> QED
    BY <1>0, <2>1
<1>8. \A i \in DOMAIN r.byOutput \cup DOMAIN r.items : i < r.next
  <2>1. \A i \in DOMAIN r.byOutput \cup DOMAIN r.items :
          i \in DOMAIN s.byOutput \cup DOMAIN s.items \cup {s.next}
    BY <1>3
  <2>2. \A i \in DOMAIN s.byOutput \cup DOMAIN s.items : i < s.next /\ i \in Nat
    BY <1>0 DEF Counting
  <2> QED
    BY <1>0, <2>1, <2>2
<1>9. \A i \in DOMAIN r.byName : r.calls[r.byName[i]].name = i
  <2>1. \A i \in DOMAIN s.byName : s.calls[s.byName[i]].name = i
    BY DEF Counting
  <2> QED
    BY <1>1, <2>1, SMTT(30)
<1>10. \A j \in 1 .. Len(r.calls) :
         r.calls[j].at \in DOMAIN r.byOutput /\ r.byOutput[r.calls[j].at] = j
  <2>1. \A j \in 1 .. Len(s.calls) :
          s.calls[j].at \in DOMAIN s.byOutput /\ s.byOutput[s.calls[j].at] = j
    BY DEF Counting
  <2>2. CASE answer[k].type # "call"
    BY <2>1, <2>2
  <2>3. CASE answer[k].type = "call"
    <3>1. \A j \in 1 .. Len(r.calls) : j \in 1 .. Len(s.calls) \/ j = n
      BY <1>0, <2>3
    <3>2. \A j \in 1 .. Len(s.calls) :
            r.calls[j].at \in DOMAIN r.byOutput /\ r.byOutput[r.calls[j].at] = j
      BY <1>2, <2>1, <2>3, SMTT(30)
    <3> QED
      BY <2>3, <3>1, <3>2
  <2> QED
    BY <2>2, <2>3
<1>11. ASSUME NEW i \in DOMAIN r.items, r.items[i].name # i + 1,
              NEW j \in 1 .. Len(r.calls), r.calls[j].at = i
       PROVE  r.calls[j].name = r.items[i].name
  <2>1. \A l \in 1 .. Len(s.calls) : s.calls[l].at \in DOMAIN s.byOutput /\ s.calls[l].at # s.next
    BY <1>2 DEF Counting
  <2>2. CASE j \in 1 .. Len(s.calls)
    <3>1. r.calls[j] = s.calls[j]
      BY <2>2
    <3>2. i # s.next
      BY <1>11, <2>1, <2>2, <3>1
    <3>3. i \in DOMAIN s.items /\ r.items[i] = s.items[i]
      BY <1>3, <3>2
    <3> QED
      BY <1>11, <2>2, <3>1, <3>3 DEF Counting
  <2>3. CASE j \notin 1 .. Len(s.calls)
    <3>1. answer[k].type = "call" /\ j = n
      BY <1>0, <2>3
    <3>2. i = s.next /\ r.calls[j].name = k
      BY <1>11, <3>1
    <3>3. r.items[s.next] = item
      BY <1>2, <1>3, <3>2
    <3> QED
      BY <3>2, <3>3
  <2> QED
    BY <2>2, <2>3
<1>12. Counting(r, b)
  BY <1>5, <1>6, <1>7, <1>8, <1>9, <1>10, <1>11 DEF Counting
<1> QED
  BY <1>4, <1>12

-----------------------------------------------------------------------------
(* Upstream begins its items in order, and one after another but for calls.  *)
SentOK ==
  /\ sent \in [DOMAIN answer -> [begun : BOOLEAN, told : Nat, repeated : BOOLEAN, done : BOOLEAN]]
  /\ \A k \in DOMAIN answer : sent[k].told <= Len(answer[k].body) /\ (sent[k].done => sent[k].begun)
  /\ \A k \in DOMAIN answer : sent[k].begun =>
       \A j \in 1 .. k - 1 : sent[j].begun /\ (answer[j].type # "call" => sent[j].done)

(* An item that is there, or may begin, comes before all that are not there. *)
Arrives(k) == sent[k].begun \/ MayBegin(k)

LEMMA ArrivesInOrder ==
  ASSUME AnswerOK, SentOK, NEW k \in DOMAIN answer, Arrives(k)
  PROVE  /\ \A j \in 1 .. k - 1 : j \in DOMAIN answer /\ sent[j].begun
                                  /\ (answer[j].type = "call" \/ sent[j].done)
         /\ \A i \in DOMAIN answer : ~sent[i].begun /\ i # k => k < i
<1>1. /\ DOMAIN answer = 1 .. Len(answer) /\ Len(answer) \in Nat /\ k \in Nat
      /\ \A j \in 1 .. k - 1 : j \in DOMAIN answer
  BY AnswerIs
<1>2. ASSUME NEW j \in 1 .. k - 1
      PROVE  sent[j].begun /\ (answer[j].type = "call" \/ sent[j].done)
  <2>1. CASE sent[k].begun
    BY <2>1 DEF SentOK
  <2>2. CASE MayBegin(k)
    <3>1. sent[j].begun /\ (~sent[j].done => answer[j].type = "call")
      BY <2>2 DEF MayBegin, Speaks
    <3> QED
      BY <3>1
  <2> QED
    BY <2>1, <2>2 DEF Arrives
<1>3. ASSUME NEW i \in DOMAIN answer, ~sent[i].begun, i # k PROVE k < i
  <2>1. i \in Nat /\ i \notin 1 .. k - 1 /\ i >= 1
    BY <1>1, <1>2, <1>3
  <2> QED
    BY <1>1, <1>3, <2>1
<1> QED
  BY <1>1, <1>2, <1>3

LEMMA Reached ==
  ASSUME AnswerOK, SentOK, NEW k \in DOMAIN answer, Arrives(k),
         NEW s \in States, Counting(s, sent)
  PROVE  k - 1 <= s.next
<1>1. s.next \in Nat /\ k \in Nat /\ k >= 1
  BY StateParts, AnswerIs
<1>2. CASE k = 1
  BY <1>1, <1>2
<1>3. CASE k # 1
  <2> DEFINE j == k - 1
  <2>1. j \in 1 .. k - 1 /\ k - 1 = j
    BY <1>1, <1>3
  <2>2. j \in DOMAIN answer /\ sent[j].begun /\ (answer[j].type = "call" \/ sent[j].done)
    BY <2>1, ArrivesInOrder
  <2> HIDE DEF j
  <2>3. j <= s.next
    BY <2>2 DEF Counting
  <2> QED
    BY <2>1, <2>3
<1> QED
  BY <1>2, <1>3

(* An item that is not known takes the next place.                           *)
LEMMA NextPlace ==
  ASSUME NEW s \in States, Pointing(s), NEW t, Counting(s, t), NEW e, e.item \in Items, e.at = NoIndex,
         e.item.name \notin DOMAIN s.byName
  PROVE  /\ OutputIndex(s, e) = s.next /\ Indexed(s, e).next = s.next + 1
         /\ CallFor(s, e.item, s.next) = Len(s.calls) + 1
<1>1. Lookup(s, e.item.name) = NoItem
  BY DEF Lookup
<1>2. s.next \in Nat
  BY StateParts
<1>3. s.next \notin DOMAIN s.byOutput
  BY <1>2 DEF Counting
<1>4. OutputIndex(s, e) = s.next
  BY <1>1 DEF OutputIndex
<1>5. Indexed(s, e) = [s EXCEPT !.next = s.next + 1]
  BY <1>1 DEF Indexed
<1>6. Indexed(s, e).next = s.next + 1
  BY <1>5 DEF States
<1>7. CallFor(s, e.item, s.next) = Len(s.calls) + 1
  BY <1>1, <1>3 DEF CallFor
<1> QED
  BY <1>4, <1>6, <1>7

(* The call for the item is put after the calls of s, with number n.         *)
AddsCall(s, r, item, at, n) ==
  /\ Len(r.calls) = n /\ \A j \in 1 .. Len(s.calls) : r.calls[j] = s.calls[j]
  /\ r.calls[n].name = item.name /\ r.calls[n].at = at
  /\ DOMAIN r.byName = DOMAIN s.byName \cup {item.name} /\ r.byName[item.name] = n
  /\ \A i \in DOMAIN s.byName : i # item.name => r.byName[i] = s.byName[i]
  /\ DOMAIN r.byOutput = DOMAIN s.byOutput \cup {at} /\ r.byOutput[at] = n
  /\ \A i \in DOMAIN s.byOutput : i # at => r.byOutput[i] = s.byOutput[i]

(* What ensureToolCall does with it.                                         *)
LEMMA EnsuredNext ==
  ASSUME NEW s \in States, Pointing(s), NEW item \in Items, NEW at \in Nat, NEW r, r = Ensured(s, item, at),
         NEW n, n = Len(s.calls) + 1, CallFor(s, item, at) = n, item.name # NoName
  PROVE  AddsCall(s, r, item, at, n)
<1>1. ~(CallFor(s, item, at) <= Len(s.calls)) /\ Len(s.calls) \in Nat
  BY StateParts
<1>2. Len(r.calls) = n /\ \A j \in 1 .. Len(s.calls) : r.calls[j] = s.calls[j]
  BY <1>1, EnsuredNew
<1>3. r.calls[n] = NewCall(s, item, at)
  BY EnsuredCalls
<1>4. r.calls[n].name = item.name /\ r.calls[n].at = at
  BY <1>3, NewCallIs
<1>5. /\ DOMAIN r.byName = DOMAIN s.byName \cup {item.name}
      /\ \A i \in DOMAIN r.byName :
           IF i = item.name /\ i # NoName THEN r.byName[i] = n ELSE r.byName[i] = s.byName[i]
      /\ DOMAIN r.byOutput = DOMAIN s.byOutput \cup {at}
      /\ \A i \in DOMAIN r.byOutput : IF i = at THEN r.byOutput[i] = n ELSE r.byOutput[i] = s.byOutput[i]
  <2>1. /\ DOMAIN r.byName = DOMAIN s.byName \cup (IF item.name = NoName THEN {} ELSE {item.name})
        /\ \A i \in DOMAIN r.byName :
             IF i = item.name /\ i # NoName THEN r.byName[i] = n ELSE r.byName[i] = s.byName[i]
        /\ DOMAIN r.byOutput = DOMAIN s.byOutput \cup {at}
        /\ \A i \in DOMAIN r.byOutput : IF i = at THEN r.byOutput[i] = n ELSE r.byOutput[i] = s.byOutput[i]
    BY EnsuredMaps
  <2> QED
    BY <2>1
<1>6. r.byName[item.name] = n /\ \A i \in DOMAIN s.byName : i # item.name => r.byName[i] = s.byName[i]
  BY <1>5
<1>7. r.byOutput[at] = n /\ \A i \in DOMAIN s.byOutput : i # at => r.byOutput[i] = s.byOutput[i]
  BY <1>5
<1> QED
  BY <1>2, <1>4, <1>5, <1>6, <1>7 DEF AddsCall

(* The item is of call k of s, which is found by its name and its place.     *)
FindsCall(s, item, at, k) ==
  /\ item.name \in DOMAIN s.byName /\ k = s.byName[item.name]
  /\ s.calls[k].name = item.name /\ s.calls[k].at = at
  /\ at \in DOMAIN s.byOutput /\ s.byOutput[at] = k

(* The calls are where they were, and are found as they were.                *)
KeepsCalls(s, r) ==
  /\ r.byName = s.byName /\ r.byOutput = s.byOutput /\ Len(r.calls) = Len(s.calls)
  /\ \A j \in 1 .. Len(s.calls) : r.calls[j].name = s.calls[j].name /\ r.calls[j].at = s.calls[j].at

(* A call that is known stays as it was, but for its arguments.              *)
LEMMA EnsuredAgain ==
  ASSUME NEW s \in States, Pointing(s), NEW item \in Items, NEW at \in Nat, NEW r, r = Ensured(s, item, at),
         NEW k, FindsCall(s, item, at, k)
  PROVE  KeepsCalls(s, r)
<1>8. /\ item.name \in DOMAIN s.byName /\ k = s.byName[item.name]
      /\ at \in DOMAIN s.byOutput /\ s.byOutput[at] = k
  BY DEF FindsCall
<1>9. s.calls[k].name = item.name /\ s.calls[k].at = at
  BY DEF FindsCall
<1>1. k \in 1 .. Len(s.calls) /\ item.name # NoName /\ Len(s.calls) \in Nat
  <2>1. NoName \notin DOMAIN s.byName
    BY EnsuredMaps
  <2> QED
    BY <1>8, <2>1, PointsWithin
<1>2. CallFor(s, item, at) = k
  BY <1>1, <1>8 DEF CallFor, Lookup, NoItem
<1>3. r.byName = Put(s.byName, item.name, k) /\ r.byOutput = Put(s.byOutput, at, k)
  <2>1. Ensured(s, item, at).byName =
          IF item.name = NoName THEN s.byName ELSE Put(s.byName, item.name, CallFor(s, item, at))
    BY EnsuredAll
  <2>2. Ensured(s, item, at).byOutput = Put(s.byOutput, at, CallFor(s, item, at))
    BY EnsuredAll
  <2> QED
    BY ONLY <1>1, <1>2, <2>1, <2>2, r = Ensured(s, item, at)
<1>4. Put(s.byName, item.name, k) = s.byName
  <2>1. s.byName \in Maps(Nat \ {0}, Nat \ {0})
    BY StateParts
  <2>2. s.byName = [n \in DOMAIN s.byName |-> s.byName[n]] /\ DOMAIN s.byName \cup {item.name} = DOMAIN s.byName
    BY <1>8, <2>1 DEF Maps
  <2> QED
    BY <1>8, <2>2 DEF Put
<1>5. Put(s.byOutput, at, k) = s.byOutput
  <2>1. s.byOutput \in Maps(Nat, Nat \ {0})
    BY StateParts
  <2>2. s.byOutput = [n \in DOMAIN s.byOutput |-> s.byOutput[n]] /\ DOMAIN s.byOutput \cup {at} = DOMAIN s.byOutput
    BY <1>8, <2>1 DEF Maps
  <2> QED
    BY <1>8, <2>2 DEF Put
<1>6. /\ Len(r.calls) = Len(s.calls)
      /\ \A j \in 1 .. Len(s.calls) : j # k => r.calls[j] = s.calls[j]
      /\ r.calls[k] = NewCall(s, item, at)
  <2>1. /\ Len(r.calls) = IF k <= Len(s.calls) THEN Len(s.calls) ELSE Len(s.calls) + 1
        /\ \A j \in 1 .. Len(s.calls) : j # k => r.calls[j] = s.calls[j]
        /\ r.calls[k] = NewCall(s, item, at)
    BY <1>2, EnsuredCalls
  <2> QED
    BY <1>1, <2>1
<1>7. r.calls[k].name = item.name /\ r.calls[k].at = at
  BY <1>1, <1>2, <1>6, NewCallIs
<1> QED
  <2>1. \A j \in 1 .. Len(s.calls) : r.calls[j].name = s.calls[j].name /\ r.calls[j].at = s.calls[j].at
    BY <1>6, <1>7, <1>9
  <2>2. r.byName = s.byName /\ r.byOutput = s.byOutput
    BY <1>3, <1>4, <1>5
  <2> QED
    BY <1>6, <2>1, <2>2 DEF KeepsCalls

-----------------------------------------------------------------------------
(* What holds of the state of the stream between two events, t being what    *)
(* upstream has sent: while no item is out of place, each call has its name. *)
Noting(s) ==
  /\ \E m \in Nat : DOMAIN s.items \subseteq 0 .. m
  /\ \A i \in DOMAIN s.items : s.items[i].name = NoName <=> "id" \notin labels
  /\ labels # {"id"} => InPlace(s)

ChatInv(s, t) ==
  /\ s \in States /\ Pointing(s) /\ Noting(s)
  /\ Open(s) => (labels = {"id"} => Counting(s, t)) /\ (InPlace(s) => Placed(s))

(* What an event makes of it.                                                *)
EventOK(s, u, t) ==
  /\ Sound(s, u) /\ ChatInv(u.state, t)
  /\ InPlace(u.state) => InPlace(s) /\ Orderly(s, u)

LabelsOK == labels \subseteq {"id", "index"}

(* An event that tells of item k.                                            *)
Upon(e, k) ==
  /\ e.item \in Items /\ e.item.name = Name(k) /\ e.item.type = answer[k].type
  /\ e.at = Index(k)

LEMMA SameItems ==
  ASSUME NEW s, NEW r, r.items = s.items
  PROVE  (InPlace(r) <=> InPlace(s)) /\ (Noting(s) => Noting(r))
<1>1. InPlace(r) <=> InPlace(s)
  BY DEF InPlace
<1> QED
  BY <1>1 DEF Noting

LEMMA ClosedOK ==
  ASSUME NEW s, NEW t, NEW e, NEW b, ChatInv(s, t), ~Open(s)
  PROVE  EventOK(s, Apply(s, e, TRUE), b)
<1>1. s \in States /\ Pointing(s) /\ Noting(s)
  BY DEF ChatInv
<1>2. Apply(s, e, TRUE) = Failure(s) /\ ~Open(Apply(s, e, TRUE).state)
  BY <1>1, StaysClosed
<1> DEFINE u == Failure(s)
<1>3. Sound(s, u) /\ Orderly(s, u) /\ Same(s, u.state)
  BY <1>1, SoundFailure
<1>4. ~Open(u.state)
  BY <1>2
<1> HIDE DEF u
<1>5. u.state.items = s.items /\ u.state \in States /\ Pointing(u.state)
  BY <1>3 DEF Same, Sound
<1>6. (InPlace(u.state) <=> InPlace(s)) /\ Noting(u.state)
  BY <1>1, <1>5, SameItems
<1>7. ChatInv(u.state, b)
  BY <1>4, <1>5, <1>6 DEF ChatInv
<1>8. EventOK(s, u, b)
  BY <1>3, <1>6, <1>7 DEF EventOK
<1> QED
  BY <1>2, <1>8 DEF u

LEMMA TellingOK ==
  ASSUME NEW s, NEW t, NEW e, NEW b, ChatInv(s, t), Telling(e),
         \A k \in DOMAIN answer : (b[k].begun <=> t[k].begun) /\ (b[k].done <=> t[k].done)
  PROVE  EventOK(s, Apply(s, e, TRUE), b)
<1>1. CASE ~Open(s)
  BY <1>1, ClosedOK
<1>2. CASE Open(s)
  <2> DEFINE u == Apply(s, e, TRUE)
  <2>1. s \in States /\ Pointing(s) /\ Noting(s)
    BY DEF ChatInv
  <2>2. Sound(s, u) /\ (Placed(s) => Orderly(s, u)) /\ Same(s, u.state)
    BY <2>1, TellingSound
  <2> HIDE DEF u
  <2>3. u.state.items = s.items /\ u.state \in States /\ Pointing(u.state)
    BY <2>2 DEF Same, Sound
  <2>4. (InPlace(u.state) <=> InPlace(s)) /\ Noting(u.state)
    BY <2>1, <2>3, SameItems
  <2>5. labels = {"id"} => Counting(u.state, b)
    <3> SUFFICES ASSUME labels = {"id"} PROVE Counting(u.state, b)
      OBVIOUS
    <3>1. Counting(s, t)
      BY <1>2 DEF ChatInv
    <3> DEFINE r == u.state
    <3>2. r \in States /\ Same(s, r)
      BY <2>2, <2>3
    <3> HIDE DEF r
    <3>3. Counting(r, b)
      BY <2>1, <3>1, <3>2, CountingSame
    <3> QED
      BY <3>3 DEF r
  <2>6. InPlace(s) => Placed(s)
    BY <1>2 DEF ChatInv
  <2>7. Placed(s) => Placed(u.state)
    BY <2>1, <2>2, <2>3, SameKeeps
  <2>8. ChatInv(u.state, b)
    BY <2>3, <2>4, <2>5, <2>6, <2>7 DEF ChatInv
  <2>9. EventOK(s, u, b)
    BY <2>2, <2>4, <2>6, <2>8 DEF EventOK
  <2> QED
    BY <2>9 DEF u
<1> QED
  BY <1>1, <1>2

LEMMA ConcludeOK ==
  ASSUME NEW s, NEW t, NEW e, ChatInv(s, t), e.kind = "terminal", e.output \in Seq(Items),
         e.reason \in {"completed", "length", "content_filter"},
         InOrder(e.output)
  PROVE  EventOK(s, Apply(s, e, TRUE), t)
<1>1. CASE ~Open(s)
  BY <1>1, ClosedOK
<1>2. CASE Open(s)
  <2> DEFINE u == Apply(s, e, TRUE)
  <2>1. s \in States /\ Pointing(s) /\ Noting(s) /\ (InPlace(s) => Placed(s))
    BY <1>2 DEF ChatInv
  <2>2. PICK m \in Nat : DOMAIN s.items \subseteq 0 .. m
    BY <2>1 DEF Noting
  <2>3. u = Terminal(s, e, TRUE)
    BY <1>2, ApplyTerminal
  <2> HIDE DEF u
  <2>4. /\ Sound(s, u) /\ (Placed(s) /\ InPlace(s) => Orderly(s, u))
        /\ u.state.items = s.items /\ ~Open(u.state)
    BY <2>1, <2>2, <2>3, TerminalSound DEF Open
  <2>5. (InPlace(u.state) <=> InPlace(s)) /\ Noting(u.state)
    BY <2>1, <2>4, SameItems
  <2>6. ChatInv(u.state, t)
    BY <2>4, <2>5 DEF ChatInv, Sound
  <2>7. EventOK(s, u, t)
    BY <2>1, <2>4, <2>5, <2>6 DEF EventOK
  <2> QED
    BY <2>7 DEF u
<1> QED
  BY <1>1, <1>2

(* An item that is told by its index, or by no name, is at its place.        *)
LEMMA ItemPlace ==
  ASSUME AnswerOK, LabelsOK, labels # {"id"}, NEW s, NEW k \in DOMAIN answer, NEW e, Upon(e, k)
  PROVE  e.item.name = Known(OutputIndex(s, e))
<1>1. k \in Nat \ {0}
  BY AnswerIs
<1>2. CASE "id" \notin labels
  BY <1>2 DEF Upon, Name, Known
<1>3. CASE "id" \in labels
  <2>1. "index" \in labels
    BY <1>3 DEF LabelsOK
  <2>2. e.at = k - 1 /\ e.item.name = k
    BY <1>3, <2>1 DEF Upon, Index, Name
  <2>3. OutputIndex(s, e) = k - 1
    BY <1>1, <2>2 DEF OutputIndex, NoIndex
  <2> QED
    BY <1>1, <1>3, <2>2, <2>3 DEF Known
<1> QED
  BY <1>2, <1>3

(* A call that upstream adds, or an item that is done, and that is told by   *)
(* its name only: if it is new, it takes the next place.                     *)
LEMMA Unknown ==
  ASSUME AnswerOK, SentOK, labels = {"id"}, NEW s \in States, Counting(s, sent),
         NEW k \in DOMAIN answer, Arrives(k),
         answer[k].type # "call" \/ ~sent[k].begun
  PROVE  k \notin DOMAIN s.byName /\ k - 1 <= s.next
         /\ \A i \in DOMAIN answer : ~sent[i].begun /\ i # k => k < i
<1>1. k \notin DOMAIN s.byName
  BY DEF Counting
<1>2. k - 1 <= s.next
  BY Reached
<1>3. \A i \in DOMAIN answer : ~sent[i].begun /\ i # k => k < i
  BY ArrivesInOrder
<1> QED
  BY <1>1, <1>2, <1>3

(* The call is added.                                                        *)
LEMMA AddedCounting ==
  ASSUME AnswerOK, SentOK, labels = {"id"}, NEW s \in States, Pointing(s), Counting(s, sent),
         NEW k \in DOMAIN answer, Arrives(k), ~sent[k].begun, answer[k].type = "call",
         NEW e, Upon(e, k), NEW b, Begins(b, k)
  PROVE  Counting(Ensured(Indexed(s, e), e.item, OutputIndex(s, e)), b)
<1> DEFINE m == Indexed(s, e)
           r == Ensured(m, e.item, s.next)
           n == Len(s.calls) + 1
<1>1. /\ k \notin DOMAIN s.byName /\ k - 1 <= s.next
      /\ \A i \in DOMAIN answer : ~sent[i].begun /\ i # k => k < i
  BY Unknown
<1>2. /\ k \in Nat \ {0} /\ e.item \in Items /\ e.item.name = k /\ e.at = NoIndex
      /\ s.next \in Nat
  BY AnswerIs, StateParts DEF Upon, Name, Index
<1>3. /\ OutputIndex(s, e) = s.next /\ m.next = s.next + 1
      /\ CallFor(s, e.item, s.next) = n
  BY <1>1, <1>2, NextPlace
<1>4. /\ m \in States /\ m.calls = s.calls /\ m.byName = s.byName /\ m.byOutput = s.byOutput
      /\ m.current = s.current /\ m.items = s.items
  BY <1>2, IndexedIs
<1> HIDE DEF m
<1>5. Pointing(m) /\ CallFor(m, e.item, s.next) = n
  BY <1>3, <1>4, SameFinds
<1>6. r \in States /\ r.items = m.items /\ r.next = m.next
  BY <1>2, <1>4, <1>5, EnsuredTyped, EnsuredKeeps
<1>7. /\ Len(r.calls) = n /\ \A j \in 1 .. Len(m.calls) : r.calls[j] = m.calls[j]
      /\ r.calls[n].name = e.item.name /\ r.calls[n].at = s.next
      /\ DOMAIN r.byName = DOMAIN m.byName \cup {e.item.name} /\ r.byName[e.item.name] = n
      /\ \A i \in DOMAIN m.byName : i # e.item.name => r.byName[i] = m.byName[i]
      /\ DOMAIN r.byOutput = DOMAIN m.byOutput \cup {s.next} /\ r.byOutput[s.next] = n
      /\ \A i \in DOMAIN m.byOutput : i # s.next => r.byOutput[i] = m.byOutput[i]
  <2>1. e.item.name # NoName /\ n = Len(m.calls) + 1 /\ r = Ensured(m, e.item, s.next)
    BY <1>2, <1>4 DEF NoName
  <2> HIDE DEF r, n
  <2>2. m \in States /\ e.item \in Items /\ s.next \in Nat
    BY <1>2, <1>4
  <2>3. AddsCall(m, r, e.item, s.next, n)
    BY <1>5, <2>1, <2>2, EnsuredNext
  <2> QED
    BY <2>3 DEF AddsCall
<1>8. InPlace(r) => k = s.next + 1
  <2>1. InPlace(r) => InPlace(s)
    BY <1>4, <1>6, SameItems
  <2>2. InPlace(s) => s.next <= k - 1
    BY DEF Counting
  <2> QED
    BY <1>1, <1>2, <2>1, <2>2
<1> HIDE DEF r, n
<1>9. Counting(r, b)
  <2>1. \A i \in DOMAIN answer : ~b[i].begun => k < i
    BY <1>1 DEF Begins
  <2>2. r.items = s.items /\ r.next = s.next + 1 /\ n = Len(s.calls) + 1
    BY <1>3, <1>4, <1>6 DEF n
  <2>3. /\ Len(r.calls) = n /\ \A j \in 1 .. Len(s.calls) : r.calls[j] = s.calls[j]
        /\ r.calls[n].name = k /\ r.calls[n].at = s.next
        /\ DOMAIN r.byName = DOMAIN s.byName \cup {k} /\ r.byName[k] = n
        /\ \A i \in DOMAIN s.byName : i # k => r.byName[i] = s.byName[i]
        /\ DOMAIN r.byOutput = DOMAIN s.byOutput \cup {s.next} /\ r.byOutput[s.next] = n
        /\ \A i \in DOMAIN s.byOutput : i # s.next => r.byOutput[i] = s.byOutput[i]
    BY <1>2, <1>4, <1>7
  <2>4. Grows(s, r, k, n)
    BY <2>3 DEF Grows
  <2> DEFINE item == e.item
  <2>5. item.name = k /\ r \in States
    BY <1>2, <1>6
  <2> HIDE DEF item
  <2> QED
    BY <1>1, <1>8, <2>1, <2>2, <2>4, <2>5, CountingNext
<1> QED
  BY <1>3, <1>9 DEF r, m

(* An item that begins and is no call changes nothing yet.                   *)
LEMMA BegunCounting ==
  ASSUME AnswerOK, SentOK, NEW s \in States, Counting(s, sent),
         NEW k \in DOMAIN answer, MayBegin(k), answer[k].type # "call",
         NEW b, Begins(b, k), b[k].done = sent[k].done
  PROVE  Counting(s, b)
<1>1. /\ ~sent[k].begun /\ Arrives(k)
      /\ b[k].begun /\ \A i \in DOMAIN answer : i # k => b[i] = sent[i]
  BY DEF MayBegin, Arrives, Begins
<1>2. k - 1 <= s.next /\ ~b[k].done
  BY <1>1, Reached DEF SentOK
<1>3. DOMAIN s.byName = {i \in DOMAIN answer : b[i].begun /\ answer[i].type = "call"}
  BY <1>1 DEF Counting
<1>4. \A i \in DOMAIN answer : b[i].begun =>
        i - 1 <= s.next /\ (answer[i].type = "call" \/ b[i].done => i <= s.next)
  BY <1>1, <1>2 DEF Counting
<1>5. InPlace(s) => \A i \in DOMAIN answer : ~b[i].begun => s.next <= i - 1
  BY <1>1 DEF Counting
<1> QED
  BY <1>3, <1>4, <1>5 DEF Counting

LEMMA AddedOK ==
  ASSUME AnswerOK, LabelsOK, SentOK, NEW s, ChatInv(s, sent),
         NEW k \in DOMAIN answer, MayBegin(k), NEW e, e.kind = "item added", Upon(e, k),
         NEW b, Begins(b, k), b[k].done = sent[k].done
  PROVE  EventOK(s, Apply(s, e, TRUE), b)
<1>0. CASE ~Open(s)
  BY <1>0, ClosedOK
<1>1. CASE Open(s)
  <2> DEFINE u == Apply(s, e, TRUE)
             at == OutputIndex(s, e)
  <2>1. s \in States /\ Pointing(s) /\ Noting(s) /\ (InPlace(s) => Placed(s))
        /\ (labels = {"id"} => Counting(s, sent))
    BY <1>1 DEF ChatInv
  <2>2. e.item \in Items /\ e.at \in Nat \cup {NoIndex} /\ e.item.type = answer[k].type
    <3>1. k \in Nat \ {0}
      BY AnswerIs
    <3>2. e.item \in Items /\ e.at = Index(k) /\ e.item.type = answer[k].type
      BY DEF Upon
    <3>3. Index(k) \in Nat \cup {NoIndex}
      BY ONLY <3>1 DEF Index
    <3> QED
      BY <3>2, <3>3
  <2>3. ~sent[k].begun /\ Arrives(k)
    BY DEF MayBegin, Arrives
  <2>4. /\ Sound(s, u)
        /\ Placed(s) /\ (e.item.type = "call" => e.item.name = Known(at)) => Orderly(s, u)
        /\ u.state = IF e.item.type # "call" THEN s ELSE Ensured(Indexed(s, e), e.item, at)
    BY <1>1, <2>1, <2>2, AddedEvent
  <2>5. u.state.items = s.items
    <3>1. CASE e.item.type # "call"
      BY <2>4, <3>1
    <3>2. CASE e.item.type = "call"
      <4>1. /\ Indexed(s, e) \in States /\ Indexed(s, e).items = s.items /\ at \in Nat
            /\ Pointing(Indexed(s, e))
        BY <2>1, <2>2, IndexedIs, SameFinds
      <4> HIDE DEF at
      <4>2. Ensured(Indexed(s, e), e.item, at).items = Indexed(s, e).items
        BY <2>2, <4>1, EnsuredKeeps
      <4> QED
        BY <2>4, <3>2, <4>1, <4>2
    <3> QED
      BY <3>1, <3>2
  <2>6. labels = {"id"} => Counting(u.state, b)
    <3>1. CASE e.item.type # "call"
      <4>1. labels = {"id"} => Counting(s, b)
        BY <2>1, <2>2, <3>1, BegunCounting
      <4> QED
        BY <2>4, <3>1, <4>1
    <3>2. CASE e.item.type = "call"
      <4>1. CASE labels = {"id"}
        <5>1. Counting(s, sent) /\ answer[k].type = "call"
          BY <2>1, <2>2, <3>2, <4>1
        <5>2. Counting(Ensured(Indexed(s, e), e.item, OutputIndex(s, e)), b)
          BY <2>1, <2>3, <4>1, <5>1, AddedCounting
        <5> QED
          BY <2>4, <3>2, <5>2
      <4> QED
        BY <4>1
    <3> QED
      BY <3>1, <3>2
  <2>7. InPlace(s) /\ e.item.type = "call" => e.item.name = Known(at)
    <3>1. CASE labels # {"id"}
      BY <3>1, ItemPlace
    <3>2. CASE labels = {"id"} /\ InPlace(s) /\ e.item.type = "call"
      <4>1. k \notin DOMAIN s.byName /\ k - 1 <= s.next
        BY <2>1, <2>2, <2>3, <3>2, Unknown
      <4>2. e.item.name = k /\ e.at = NoIndex
        BY <3>2 DEF Upon, Name, Index
      <4>3. at = s.next
        BY <2>1, <2>2, <3>2, <4>1, <4>2, NextPlace
      <4>4. s.next <= k - 1
        BY <2>1, <2>3, <3>2 DEF Counting
      <4>5. k \in Nat /\ s.next \in Nat
        BY <2>1, AnswerIs, StateParts
      <4> HIDE DEF at
      <4>6. k = at + 1
        BY ONLY <4>1, <4>3, <4>4, <4>5
      <4> QED
        BY ONLY <3>2, <4>2, <4>6 DEF Known
    <3> QED
      BY <3>1, <3>2
  <2> HIDE DEF u, at
  <2>8. (InPlace(u.state) <=> InPlace(s)) /\ Noting(u.state)
    BY <2>1, <2>5, SameItems
  <2>9. InPlace(s) => Orderly(s, u)
    BY <2>1, <2>4, <2>7
  <2>10. ChatInv(u.state, b)
    BY <2>4, <2>6, <2>8, <2>9 DEF ChatInv, Sound, Orderly, Open
  <2>11. EventOK(s, u, b)
    BY <2>4, <2>8, <2>9, <2>10 DEF EventOK
  <2> QED
    BY <2>11 DEF u
<1> QED
  BY <1>0, <1>1

(* What "item done" makes of the maps and the counter, whatever the item says. *)
Recorded(s, e) ==
  IF e.item.type # "call" THEN Noted(s, e) ELSE Ensured(Noted(s, e), e.item, OutputIndex(s, e))

LEMMA RecordedIs ==
  ASSUME NEW s \in States, Pointing(s), NEW e, e.item \in Items, e.at \in Nat \cup {NoIndex}
  PROVE  /\ Recorded(s, e) \in States /\ Pointing(Recorded(s, e))
         /\ Notes(s, Recorded(s, e), OutputIndex(s, e), e.item)
<1> DEFINE m == Noted(s, e)
           at == OutputIndex(s, e)
           r == Ensured(m, e.item, at)
<1>1. /\ m \in States /\ m.calls = s.calls /\ m.byName = s.byName /\ m.byOutput = s.byOutput
      /\ m.current = s.current /\ m.items = Put(s.items, at, e.item) /\ at \in Nat
  BY NotedIs, IndexedIs
<1> HIDE DEF m, at
<1>2. Pointing(m)
  BY <1>1, SameFinds
<1>3. r \in States /\ Pointing(r) /\ r.items = m.items
  BY <1>1, <1>2, EnsuredTyped, EnsuredPoints, EnsuredKeeps
<1>4. Recorded(s, e) \in {m, r}
  BY DEF Recorded, m, at
<1> HIDE DEF r
<1> DEFINE w == Recorded(s, e)
           item == e.item
<1>5. w \in States /\ Pointing(w) /\ w.items = Put(s.items, at, item)
  BY <1>1, <1>2, <1>3, <1>4
<1> HIDE DEF w, item
<1>6. Notes(s, w, at, item)
  BY <1>5, PutNotes
<1> QED
  BY <1>5, <1>6 DEF w, item, at

LEMMA RecordedNew ==
  ASSUME AnswerOK, SentOK, labels = {"id"}, NEW s \in States, Pointing(s), Counting(s, sent),
         NEW k \in DOMAIN answer, Arrives(k), answer[k].type # "call" \/ ~sent[k].begun,
         NEW e, Upon(e, k), NEW b, Begins(b, k)
  PROVE  /\ Counting(Recorded(s, e), b)
         /\ InPlace(Recorded(s, e)) => InPlace(s)
         /\ Grows(s, Recorded(s, e), k, Len(s.calls) + 1) /\ k \notin DOMAIN s.byName
<1> DEFINE m == Noted(s, e)
           r == Recorded(s, e)
           n == Len(s.calls) + 1
           item == e.item
<1>1. /\ k \notin DOMAIN s.byName /\ k - 1 <= s.next
      /\ \A i \in DOMAIN answer : ~sent[i].begun /\ i # k => k < i
  BY Unknown
<1>2. /\ k \in Nat \ {0} /\ item \in Items /\ item.name = k /\ e.at = NoIndex
      /\ s.next \in Nat /\ item.type = answer[k].type
  BY AnswerIs, StateParts DEF Upon, Name, Index
<1>3. /\ OutputIndex(s, e) = s.next /\ Indexed(s, e).next = s.next + 1
      /\ CallFor(s, item, s.next) = n
  BY <1>1, <1>2, NextPlace
<1>4. /\ m \in States /\ m.calls = s.calls /\ m.byName = s.byName /\ m.byOutput = s.byOutput
      /\ m.current = s.current /\ m.next = s.next + 1
  BY <1>2, <1>3, NotedIs
<1>5. r \in States /\ Notes(s, r, s.next, item)
  BY <1>2, <1>3, RecordedIs
<1>6. r = IF answer[k].type # "call" THEN m ELSE Ensured(m, item, s.next)
  BY <1>2, <1>3 DEF Recorded
<1> HIDE DEF m, r, n, item
<1>7. Pointing(m) /\ CallFor(m, item, s.next) = n
  BY <1>3, <1>4, SameFinds
<1>8. Grows(s, r, k, n) /\ r.next = s.next + 1
  <2>1. CASE answer[k].type # "call"
    BY <1>4, <1>6, <2>1 DEF Grows
  <2>2. CASE answer[k].type = "call"
    <3>1. item.name # NoName /\ n = Len(m.calls) + 1 /\ r = Ensured(m, item, s.next)
      BY <1>2, <1>4, <1>6, <2>2 DEF NoName, n
    <3>2. /\ Len(r.calls) = n /\ \A j \in 1 .. Len(m.calls) : r.calls[j] = m.calls[j]
          /\ r.calls[n].name = item.name /\ r.calls[n].at = s.next
          /\ DOMAIN r.byName = DOMAIN m.byName \cup {item.name} /\ r.byName[item.name] = n
          /\ \A i \in DOMAIN m.byName : i # item.name => r.byName[i] = m.byName[i]
          /\ DOMAIN r.byOutput = DOMAIN m.byOutput \cup {s.next} /\ r.byOutput[s.next] = n
          /\ \A i \in DOMAIN m.byOutput : i # s.next => r.byOutput[i] = m.byOutput[i]
      <4>1. m \in States /\ item \in Items /\ s.next \in Nat
        BY <1>2, <1>4
      <4>2. AddsCall(m, r, item, s.next, n)
        BY <1>7, <3>1, <4>1, EnsuredNext
      <4> QED
        BY <4>2 DEF AddsCall
    <3>3. Grows(s, r, k, n)
      BY <1>2, <1>4, <2>2, <3>2 DEF Grows
    <3>4. r.next = m.next
      BY <1>2, <1>4, <1>7, <3>1, EnsuredKeeps
    <3> QED
      BY <1>4, <3>3, <3>4
  <2> QED
    BY <2>1, <2>2
<1>9. InPlace(r) => k = s.next + 1
  <2>1. s.next \in DOMAIN r.items /\ r.items[s.next] = item
    BY <1>5 DEF Notes
  <2>2. InPlace(r) => item.name = Known(s.next)
    BY <2>1 DEF InPlace
  <2> QED
    BY <1>2, <2>2 DEF Known
<1>10. \A i \in DOMAIN answer : ~b[i].begun => k < i
  BY <1>1 DEF Begins
<1>11. n = Len(s.calls) + 1 /\ item.name = k
  BY <1>2 DEF n
<1>12. Counting(r, b) /\ (InPlace(r) => InPlace(s))
  BY <1>1, <1>5, <1>8, <1>9, <1>10, <1>11, CountingNext
<1> QED
  BY <1>1, <1>8, <1>12 DEF r, n

LEMMA RecordedAgain ==
  ASSUME AnswerOK, labels = {"id"}, NEW s \in States, Pointing(s), Counting(s, sent),
         NEW k \in DOMAIN answer, answer[k].type = "call", sent[k].begun,
         NEW e, Upon(e, k), NEW b, Begins(b, k)
  PROVE  /\ Counting(Recorded(s, e), b)
         /\ InPlace(Recorded(s, e)) => InPlace(s)
         /\ Keeps(s, Recorded(s, e))
<1> DEFINE m == Noted(s, e)
           c == s.byName[k]
           at == s.calls[c].at
           item == e.item
           r == Recorded(s, e)
<1>1. k \in DOMAIN s.byName /\ c \in 1 .. Len(s.calls) /\ Len(s.calls) \in Nat
  BY PointsWithin DEF Counting
<1>2. k \in Nat \ {0} /\ item \in Items /\ item.name = k /\ e.at = NoIndex /\ item.type = "call"
  BY AnswerIs DEF Upon, Name, Index
<1>3. s.calls[c].name = k /\ at \in DOMAIN s.byOutput /\ s.byOutput[at] = c
  BY <1>1 DEF Counting
<1>4. Lookup(s, item.name) = c /\ c # NoItem
  BY <1>1, <1>2 DEF Lookup, NoItem
<1>5. OutputIndex(s, e) = at /\ Indexed(s, e) = s
  BY <1>2, <1>4 DEF OutputIndex, Indexed
<1>6. /\ m \in States /\ m.calls = s.calls /\ m.byName = s.byName /\ m.byOutput = s.byOutput
      /\ m.current = s.current /\ m.next = s.next /\ at \in Nat
  BY <1>2, <1>5, NotedIs, IndexedIs
<1>7. r \in States /\ Notes(s, r, at, item) /\ r = Ensured(m, item, at)
  BY <1>2, <1>5, RecordedIs DEF Recorded
<1>8. Pointing(m)
  BY <1>6, SameFinds
<1>14. c = s.byName[k] /\ s.calls[c].at = at
  OBVIOUS
<1> HIDE DEF m, r, item, at, c
<1>9. /\ r.byName = m.byName /\ r.byOutput = m.byOutput /\ Len(r.calls) = Len(m.calls)
      /\ \A j \in 1 .. Len(m.calls) : r.calls[j].name = m.calls[j].name /\ r.calls[j].at = m.calls[j].at
  <2>1. FindsCall(m, item, at, c)
    <3>1. k \in DOMAIN m.byName /\ c = m.byName[k]
      BY <1>1, <1>6, <1>14
    <3>2. m.calls[c].name = k /\ m.calls[c].at = at
      BY <1>3, <1>6, <1>14
    <3>3. at \in DOMAIN m.byOutput /\ m.byOutput[at] = c
      BY <1>3, <1>6
    <3> QED
      BY <1>2, <3>1, <3>2, <3>3 DEF FindsCall
  <2>2. m \in States /\ item \in Items /\ at \in Nat /\ r = Ensured(m, item, at)
    BY <1>2, <1>6, <1>7
  <2>3. KeepsCalls(m, r)
    BY <1>8, <2>1, <2>2, EnsuredAgain
  <2> QED
    BY <2>3 DEF KeepsCalls
<1>10. r.next = s.next
  BY <1>2, <1>6, <1>7, <1>8, EnsuredKeeps
<1>11. IsCall(s, k, c, at, item)
  BY <1>2, <1>14 DEF IsCall
<1>12. Keeps(s, r)
  BY <1>6, <1>9, <1>10 DEF Keeps
<1>13. Counting(r, b) /\ (InPlace(r) => InPlace(s))
  BY <1>1, <1>2, <1>7, <1>11, <1>12, CountingKnown
<1> QED
  BY <1>12, <1>13 DEF r

LEMMA DoneOK ==
  ASSUME AnswerOK, LabelsOK, SentOK, NEW s, ChatInv(s, sent),
         NEW k \in DOMAIN answer, Arrives(k), NEW e, e.kind = "item done", Upon(e, k),
         NEW b, Begins(b, k)
  PROVE  EventOK(s, Apply(s, e, TRUE), b)
<1>0. CASE ~Open(s)
  BY <1>0, ClosedOK
<1>1. CASE Open(s)
  <2> DEFINE u == Apply(s, e, TRUE)
             at == OutputIndex(s, e)
             r == Recorded(s, e)
  <2>1. s \in States /\ Pointing(s) /\ Noting(s) /\ (InPlace(s) => Placed(s))
        /\ (labels = {"id"} => Counting(s, sent))
    BY <1>1 DEF ChatInv
  <2>2. e.item \in Items /\ e.at \in Nat \cup {NoIndex} /\ e.item.name = Name(k) /\ k \in Nat \ {0}
    <3>1. k \in Nat \ {0}
      BY AnswerIs
    <3>2. e.item \in Items /\ e.at = Index(k) /\ e.item.name = Name(k)
      BY DEF Upon
    <3>3. Index(k) \in Nat \cup {NoIndex}
      BY ONLY <3>1 DEF Index
    <3> QED
      BY <3>1, <3>2, <3>3
  <2>3. /\ Sound(s, u)
        /\ Placed(s) /\ (e.item.type = "call" => e.item.name = Known(at)) => Orderly(s, u)
        /\ Same(r, u.state)
    BY <1>1, <2>1, <2>2, DoneEvent DEF Recorded
  <2>4. r \in States /\ Pointing(r) /\ Notes(s, r, at, e.item) /\ at \in Nat
    BY <2>1, <2>2, RecordedIs, IndexedIs
  <2>5. InPlace(r) => InPlace(s)
    <3>1. CASE labels = {"id"}
      <4>1. CASE answer[k].type # "call" \/ ~sent[k].begun
        BY <2>1, <3>1, <4>1, RecordedNew
      <4>2. CASE answer[k].type = "call" /\ sent[k].begun
        BY <2>1, <3>1, <4>2, RecordedAgain
      <4> QED
        BY <4>1, <4>2
    <3>2. CASE labels # {"id"}
      BY <2>1, <3>2 DEF Noting
    <3> QED
      BY <3>1, <3>2
  <2>6. labels = {"id"} => Counting(r, b)
    <3>1. CASE answer[k].type # "call" \/ ~sent[k].begun
      BY <2>1, <3>1, RecordedNew
    <3>2. CASE answer[k].type = "call" /\ sent[k].begun
      BY <2>1, <3>2, RecordedAgain
    <3> QED
      BY <3>1, <3>2
  <2>7. InPlace(r) => e.item.name = Known(at)
    BY <2>4 DEF Notes, InPlace
  <2>8. labels # {"id"} => e.item.name = Known(at)
    BY ItemPlace
  <2> HIDE DEF u, at, r
  <2>9. Noting(r)
    <3>1. \E m \in Nat : DOMAIN r.items \subseteq 0 .. m
      <4>1. PICK m \in Nat : DOMAIN s.items \subseteq 0 .. m
        BY <2>1 DEF Noting
      <4>2. m + at \in Nat /\ at \in 0 .. m + at /\ \A i \in 0 .. m : i \in 0 .. m + at
        BY ONLY <2>4, m \in Nat
      <4>3. DOMAIN r.items \subseteq 0 .. m + at
        BY <2>4, <4>1, <4>2 DEF Notes
      <4> QED
        BY <4>2, <4>3
    <3>2. e.item.name = NoName <=> "id" \notin labels
      BY <2>2 DEF Name, NoName
    <3>3. \A i \in DOMAIN r.items : r.items[i].name = NoName <=> "id" \notin labels
      <4>1. \A i \in DOMAIN s.items : s.items[i].name = NoName <=> "id" \notin labels
        BY <2>1 DEF Noting
      <4>2. /\ DOMAIN r.items = DOMAIN s.items \cup {at} /\ r.items[at] = e.item
            /\ \A i \in DOMAIN s.items : i # at => r.items[i] = s.items[i]
        BY <2>4 DEF Notes
      <4> QED
        BY <3>2, <4>1, <4>2
    <3>4. labels # {"id"} => InPlace(r)
      <4> SUFFICES ASSUME labels # {"id"} PROVE InPlace(r)
        OBVIOUS
      <4>1. InPlace(s) /\ e.item.name = Known(at)
        BY <2>1, <2>8 DEF Noting
      <4> QED
        BY <2>4, <4>1 DEF Notes, InPlace
    <3> QED
      BY <3>1, <3>3, <3>4 DEF Noting
  <2>10. u.state.items = r.items
    BY <2>3 DEF Same
  <2>11. (InPlace(u.state) <=> InPlace(r)) /\ Noting(u.state)
    BY <2>9, <2>10, SameItems
  <2>12. labels = {"id"} => Counting(u.state, b)
    <3> SUFFICES ASSUME labels = {"id"} PROVE Counting(u.state, b)
      OBVIOUS
    <3> DEFINE w == u.state
    <3>1. w \in States /\ Same(r, w) /\ Counting(r, b)
      BY <2>3, <2>6 DEF Sound
    <3> HIDE DEF w
    <3>2. Counting(w, b)
      BY <2>4, <3>1, CountingSame
    <3> QED
      BY <3>2 DEF w
  <2>13. InPlace(u.state) => InPlace(s) /\ Orderly(s, u)
    BY <2>1, <2>3, <2>5, <2>7, <2>11
  <2>14. ChatInv(u.state, b)
    BY <2>3, <2>11, <2>12, <2>13 DEF ChatInv, Sound, Orderly, Open
  <2>15. EventOK(s, u, b)
    BY <2>3, <2>13, <2>14 DEF EventOK
  <2> QED
    BY <2>15 DEF u
<1> QED
  BY <1>0, <1>1

(* What upstream may say of an item.                                         *)
LEMMA ToldTyped ==
  ASSUME AnswerOK, NEW k \in DOMAIN answer, NEW n \in 0 .. Len(answer[k].body)
  PROVE  /\ Told(k, n) \in Items /\ Told(k, n).name = Name(k) /\ Told(k, n).type = answer[k].type
         /\ Told(k, n).name = Known(k - 1)
<1>1. k \in Nat \ {0} /\ answer[k].body \in Texts /\ answer[k].type \in {"message", "call", "reasoning"}
  BY AnswerIs
<1>2. SubSeq(answer[k].body, 1, n) \in Texts
  <2> DEFINE body == answer[k].body
  <2>1. body \in Seq(Letters) /\ n \in 0 .. Len(body) /\ Len(body) \in Nat
    BY <1>1, LenProperties DEF Texts
  <2> HIDE DEF body
  <2>2. SubSeq(body, 1, n) \in Seq(Letters)
    BY <2>1, SubSeqProperties
  <2> QED
    BY <2>2 DEF body, Texts
<1>3. Name(k) \in Nat /\ Name(k) = Known(k - 1)
  BY <1>1 DEF Name, NoName, Known
<1> QED
  BY <1>1, <1>2, <1>3 DEF Told, Items

LEMMA PieceTyped ==
  ASSUME AnswerOK, NEW k \in DOMAIN answer, NEW a \in Nat, NEW n \in Nat, a + n <= Len(answer[k].body)
  PROVE  SubSeq(answer[k].body, a + 1, a + n) \in Texts
<1> DEFINE body == answer[k].body
<1>1. body \in Seq(Letters) /\ Len(body) \in Nat
  BY AnswerIs, LenProperties DEF Texts
<1> HIDE DEF body
<1>2. a + n <= Len(body)
  BY DEF body
<1>3. \A i \in a + 1 .. a + n : i \in 1 .. Len(body) /\ body[i] \in Letters
  BY <1>1, <1>2, ElementOfSeq
<1>4. SubSeq(body, a + 1, a + n) \in Seq(Letters)
  BY <1>1, <1>2, <1>3, SubSeqProperties
<1> QED
  BY <1>4 DEF body, Texts

LEMMA ReverseTyped ==
  ASSUME NEW body \in Texts
  PROVE  Reverse(body) \in Texts
<1>1. body \in Seq(Letters) /\ Len(body) \in Nat
  BY LenProperties DEF Texts
<1>2. \A i \in 1 .. Len(body) : Len(body) - i + 1 \in 1 .. Len(body)
  BY <1>1
<1>3. \A i \in 1 .. Len(body) : body[Len(body) - i + 1] \in Letters
  BY <1>1, <1>2, ElementOfSeq
<1>4. [i \in 1 .. Len(body) |-> body[Len(body) - i + 1]] \in Seq(Letters)
  BY <1>1, <1>3, IsASeq
<1>5. Reverse(body) = [i \in 1 .. Len(body) |-> body[Len(body) - i + 1]]
  BY <1>1 DEF Reverse
<1> QED
  BY <1>4, <1>5 DEF Texts

-----------------------------------------------------------------------------
(* The stream has written what it read of the first event, and all since.    *)
Seen == phase \in {"read", "flush", "finish", "usage", "done"} \/ Succeeded

SeenAll ==
  /\ said = chat.text
  /\ ~filter.stopped => Matches(tools, chat.calls) /\ (InPlace(chat) => Named(tools, chat.calls))

(* Until then the update of the first event says it all.                     *)
FirstSaysAll ==
  /\ first.text = chat.text /\ first.text \in Texts /\ first.tools \in Seq(ToolDeltas)
  /\ Tells(first.tools, <<>>, chat.calls)
  /\ InPlace(chat) => TellsNames(first.tools, <<>>, chat.calls)

StreamInv ==
  /\ AnswerOK /\ LabelsOK /\ SentOK /\ ChatInv(chat, sent) /\ StopInv
  /\ tools \in Seq(ToolCalls)
  /\ phase \in {"prepare", "role", "first"} => said = <<>> /\ tools = <<>>
  /\ phase = "prepare" => chat = NewState
  /\ phase \in {"role", "first"} => FirstSaysAll
  /\ Seen => SeenAll

LEMMA AssembledTyped ==
  ASSUME NEW known \in Seq(ToolCalls), NEW deltas \in Seq(ToolDeltas)
  PROVE  Assembled(known, deltas) \in Seq(ToolCalls)
<1>1. PICK h \in [0 .. Len(deltas) -> Seq(ToolCalls)] : Assembled(known, deltas) = h[Len(deltas)]
  BY AssembledSteps
<1>2. Len(deltas) \in 0 .. Len(deltas)
  BY LenProperties
<1> QED
  BY <1>1, <1>2

LEMMA NothingYet ==
  /\ Matches(<<>>, NewState.calls) /\ Named(<<>>, NewState.calls)
  /\ <<>> \in Seq(ToolCalls) /\ NewState.text = <<>> /\ NewState.calls = <<>>
BY EmptySeq DEF Matches, Named, NewState

(* emitUpdate. *)
LEMMA EmitSays ==
  ASSUME StopInv, tools \in Seq(ToolCalls), NEW u, Emit(u), u.tools \in Seq(ToolDeltas), u.text \in Texts,
         NEW old, NEW new, Tells(u.tools, old, new), ~filter.stopped => Matches(tools, old)
  PROVE  /\ StopInv' /\ said' = said \o u.text /\ tools' \in Seq(ToolCalls)
         /\ ~filter'.stopped => Matches(tools', new)
         /\ TellsNames(u.tools, old, new) /\ (~filter.stopped => Named(tools, old))
              => (~filter'.stopped => Named(tools', new))
<1>1. said' = said \o u.text /\ filter' = Filtered(u.text)
  BY DEF Emit, Push
<1>2. tools' = IF filter'.stopped THEN tools ELSE Assembled(tools, u.tools)
  BY DEF Emit
<1>3. filter.stopped => filter'.stopped
  BY <1>1 DEF Filtered
<1>4. tools' \in Seq(ToolCalls)
  BY <1>2, AssembledTyped
<1>5. ASSUME ~filter'.stopped PROVE Matches(tools', new)
  <2>1. Matches(tools, old) /\ tools' = Assembled(tools, u.tools)
    BY <1>2, <1>3, <1>5
  <2> QED
    BY <2>1 DEF Tells
<1>6. ASSUME TellsNames(u.tools, old, new), ~filter.stopped => Named(tools, old), ~filter'.stopped
      PROVE  Named(tools', new)
  <2>1. Matches(tools, old) /\ Named(tools, old) /\ tools' = Assembled(tools, u.tools)
    BY <1>2, <1>3, <1>6
  <2> QED
    BY <1>6, <2>1 DEF TellsNames
<1>7. StopInv'
  <2>1. Push(u.text) /\ u.text \in Seq(Letters)
    BY DEF Emit, Texts
  <2> QED
    BY <2>1, PushKeeps
<1> QED
  BY <1>1, <1>4, <1>5, <1>6, <1>7

(* What a request that ends in another way owes nobody.                      *)
LEMMA EndsUnseen ==
  ASSUME AccountInv, phase \notin {"end", "refused"}, NEW outcome, outcome # "success", NEW usage, Account(outcome, usage)
  PROVE  ~Seen' /\ phase' = "end"
<1>1. accounts = <<>> /\ phase' = "end"
  BY DEF AccountInv, Accounted, Account
<1>2. accounts' = <<[outcome |-> outcome, usage |-> usage]>>
  BY <1>1 DEF Account
<1>3. accounts'[1].outcome = outcome
  BY <1>2
<1> QED
  BY <1>1, <1>3 DEF Seen, Succeeded

(* The request has not succeeded while it goes on.                           *)
LEMMA NotYet ==
  ASSUME AccountInv, phase \notin {"end"}, UNCHANGED accounts
  PROVE  ~Succeeded /\ ~Succeeded'
<1>1. accounts = <<>> /\ accounts' = <<>>
  BY DEF AccountInv, Accounted
<1> QED
  BY <1>1 DEF Succeeded

(* The labels and the answer are those of the response throughout.           *)
LEMMA Throughout ==
  ASSUME labels' = labels, answer' = answer
  PROVE  /\ InPlace(chat)' <=> InPlace(chat')
         /\ ChatInv(chat', sent') => ChatInv(chat, sent)'
<1>1. InPlace(chat)' <=> InPlace(chat')
  BY DEF InPlace, Known
<1>2. Placed(chat') => Placed(chat)'
  BY DEF Placed, Known
<1>3. Counting(chat', sent') => Counting(chat, sent)'
  BY <1>1 DEF Counting
<1>4. Noting(chat') => Noting(chat)'
  BY <1>1 DEF Noting
<1>5. chat' \in States /\ Pointing(chat') => (chat \in States)' /\ Pointing(chat)'
  BY DEF Pointing
<1>6. Open(chat)' <=> Open(chat')
  BY DEF Open
<1> QED
  BY <1>1, <1>2, <1>3, <1>4, <1>5, <1>6 DEF ChatInv

(* An event is passed on. *)
LEMMA PassOnSays ==
  ASSUME StreamInv, AccountInv, NEW u, PassOn(u), chat' = u.state, EventOK(chat, u, sent'),
         AnswerOK', LabelsOK', SentOK', labels' = labels, answer' = answer
  PROVE  StreamInv'
<1>1. /\ Sound(chat, u) /\ ChatInv(u.state, sent')
      /\ InPlace(u.state) => InPlace(chat) /\ Orderly(chat, u)
  BY DEF EventOK
<1>2. /\ ChatInv(chat, sent)' /\ (InPlace(chat)' <=> InPlace(u.state))
  BY <1>1, Throughout
<1>3. /\ u.text \in Texts /\ u.tools \in Seq(ToolDeltas)
      /\ ~u.state.failed => /\ chat'.text = chat.text \o u.text
                            /\ Tells(u.tools, chat.calls, chat'.calls)
                            /\ InPlace(u.state) => TellsNames(u.tools, chat.calls, chat'.calls)
  BY <1>1 DEF Sound, Orderly
<1>4. tools \in Seq(ToolCalls)
  BY DEF StreamInv
<1>5. CASE phase = "prepare" /\ u.state.failed /\ Become("refused") /\ UNCHANGED <<stopVars, tools, wire>>
  <2>1. phase' = "refused" /\ ~Succeeded' /\ UNCHANGED tools /\ StopInv'
    BY <1>5, NotYet, StopInvStays DEF Become, StreamInv
  <2> QED
    BY <1>2, <1>4, <2>1 DEF StreamInv, Seen
<1>6. CASE phase = "prepare" /\ ~u.state.failed /\ Become("role") /\ first' = u /\ UNCHANGED <<stopVars, tools, wire>>
  <2>1. phase' = "role" /\ ~Succeeded' /\ UNCHANGED <<tools, said>> /\ first' = u /\ StopInv'
    <3>1. StopInv'
      BY <1>6, StopInvStays DEF StreamInv
    <3> QED
      BY <1>6, <3>1, NotYet DEF Become, stopVars
  <2>2. said = <<>> /\ tools = <<>> /\ chat.text = <<>> /\ chat.calls = <<>>
    BY <1>6, NothingYet DEF StreamInv
  <2>3. chat'.text = u.text
    BY <1>3, <1>6, <2>2, NoText
  <2>4. Tells(first'.tools, <<>>, chat'.calls)
        /\ (InPlace(u.state) => TellsNames(first'.tools, <<>>, chat'.calls))
    BY <1>3, <1>6, <2>1, <2>2
  <2>5. FirstSaysAll'
    <3>1. /\ first'.text = chat'.text /\ first'.text \in Texts /\ first'.tools \in Seq(ToolDeltas)
      BY <1>3, <2>1, <2>3
    <3>2. Tells(first.tools, <<>>, chat.calls)'
      BY <2>4 DEF Tells
    <3>3. InPlace(chat)' => TellsNames(first.tools, <<>>, chat.calls)'
      BY <1>2, <2>4 DEF TellsNames
    <3> QED
      BY <3>1, <3>2, <3>3 DEF FirstSaysAll
  <2> QED
    BY <1>2, <1>4, <2>1, <2>2, <2>5 DEF StreamInv, Seen
<1>7. ASSUME phase = "read", NEW outcome, outcome # "success", Account(outcome, u.state.usage), UNCHANGED <<stopVars, tools>>
      PROVE  StreamInv'
  <2>1. ~Seen' /\ phase' = "end" /\ StopInv'
    BY <1>7, EndsUnseen, StopInvStays DEF StreamInv
  <2> QED
    BY <1>2, <1>4, <1>7, <2>1 DEF StreamInv
<1>8. CASE phase = "read" /\ ~u.state.failed /\ Emit(u) /\ Become("read")
  <2>1. phase' = "read"
    BY <1>8 DEF Become
  <2>2. SeenAll
    BY <1>8 DEF StreamInv, Seen
  <2>3. Tells(u.tools, chat.calls, chat'.calls) /\ (~filter.stopped => Matches(tools, chat.calls))
    BY <1>3, <1>8, <2>2 DEF SeenAll
  <2>4. /\ StopInv' /\ said' = said \o u.text /\ tools' \in Seq(ToolCalls)
        /\ ~filter'.stopped => Matches(tools', chat'.calls)
        /\ TellsNames(u.tools, chat.calls, chat'.calls) /\ (~filter.stopped => Named(tools, chat.calls))
             => (~filter'.stopped => Named(tools', chat'.calls))
    <3>1. StopInv
      BY DEF StreamInv
    <3> QED
      BY <1>3, <1>4, <1>8, <2>3, <3>1, EmitSays
  <2>5. ~filter'.stopped /\ InPlace(chat)' => Named(tools', chat'.calls)
    <3> SUFFICES ASSUME ~filter'.stopped, InPlace(chat)' PROVE Named(tools', chat'.calls)
      OBVIOUS
    <3>1. InPlace(u.state) /\ InPlace(chat)
      BY <1>1, <1>2
    <3>2. TellsNames(u.tools, chat.calls, chat'.calls)
      BY <1>3, <1>8, <3>1
    <3>3. ~filter.stopped => Named(tools, chat.calls)
      BY <2>2, <3>1 DEF SeenAll
    <3> QED
      BY <2>4, <3>2, <3>3
  <2>6. said' = chat'.text
    BY <1>3, <1>8, <2>2, <2>4 DEF SeenAll
  <2>7. SeenAll'
    BY <2>4, <2>5, <2>6 DEF SeenAll, Matches, Named
  <2> QED
    BY <1>2, <2>1, <2>4, <2>7 DEF StreamInv
<1>9. CASE phase = "read" /\ Fails(u.state.usage)
  BY <1>7, <1>9 DEF Fails
<1>10. CASE phase = "read" /\ Unwritten(u.state.usage)
  BY <1>7, <1>10 DEF Unwritten
<1> QED
  BY <1>5, <1>6, <1>8, <1>9, <1>10 DEF PassOn

LEMMA DeliverSays ==
  ASSUME StreamInv, AccountInv, NEW e, Deliver(e), EventOK(chat, Apply(chat, e, TRUE), sent'),
         SentOK', UNCHANGED <<answer, labels>>
  PROVE  StreamInv'
<1> DEFINE u == Apply(chat, e, TRUE)
<1>1. PassOn(u) /\ chat' = u.state
  BY DEF Deliver
<1> HIDE DEF u
<1>2. AnswerOK' /\ LabelsOK'
  BY DEF StreamInv, AnswerOK, LabelsOK
<1>3. EventOK(chat, u, sent')
  BY DEF u
<1> QED
  BY <1>1, <1>2, <1>3, PassOnSays

(* Upstream sends more of item k.                                            *)
Sents == [begun : BOOLEAN, told : Nat, repeated : BOOLEAN, done : BOOLEAN]

LEMMA MoreSent ==
  ASSUME AnswerOK, SentOK, NEW k \in DOMAIN answer, Arrives(k), NEW r \in Sents,
         sent' = [sent EXCEPT ![k] = r], UNCHANGED answer,
         r.begun, r.told <= Len(answer[k].body), sent[k].done => r.done
  PROVE  SentOK' /\ Begins(sent', k)
<1>1. /\ sent \in [DOMAIN answer -> Sents]
      /\ \A i \in DOMAIN answer : sent[i].told <= Len(answer[i].body) /\ (sent[i].done => sent[i].begun)
      /\ \A i \in DOMAIN answer : sent[i].begun =>
           \A j \in 1 .. i - 1 : sent[j].begun /\ (answer[j].type # "call" => sent[j].done)
  BY DEF SentOK, Sents
<1>2. /\ sent' \in [DOMAIN answer -> Sents]
      /\ sent'[k] = r /\ \A i \in DOMAIN answer : i # k => sent'[i] = sent[i]
  BY <1>1
<1>3. \A i \in DOMAIN answer : sent'[i].told <= Len(answer[i].body) /\ (sent'[i].done => sent'[i].begun)
  BY <1>1, <1>2
<1>4. ASSUME NEW i \in DOMAIN answer, sent'[i].begun, NEW j \in 1 .. i - 1
      PROVE  sent'[j].begun /\ (answer[j].type # "call" => sent'[j].done)
  <2>1. i \in Nat /\ j \in DOMAIN answer
    BY AnswerIs
  <2>2. sent[j].begun /\ (answer[j].type # "call" => sent[j].done)
    <3>1. CASE i = k
      BY <3>1, <2>1, ArrivesInOrder
    <3>2. CASE i # k
      BY <1>1, <1>2, <1>4, <3>2
    <3> QED
      BY <3>1, <3>2
  <2>3. CASE j = k
    BY <1>2, <2>2, <2>3
  <2>4. CASE j # k
    BY <1>2, <2>1, <2>2, <2>4
  <2> QED
    BY <2>3, <2>4
<1>5. SentOK'
  BY <1>2, <1>3, <1>4 DEF SentOK, Sents
<1>6. Begins(sent', k)
  BY <1>2 DEF Begins
<1> QED
  BY <1>5, <1>6

LEMMA BeginSays ==
  ASSUME StreamInv, AccountInv, NEW k \in DOMAIN answer, BeginItem(k)
  PROVE  StreamInv'
<1> DEFINE e == [kind |-> "item added", item |-> Told(k, 0), at |-> Index(k)]
           r == [sent[k] EXCEPT !.begun = TRUE]
<1>1. AnswerOK /\ LabelsOK /\ SentOK /\ ChatInv(chat, sent)
  BY DEF StreamInv
<1>2. MayBegin(k) /\ Deliver(e) /\ sent' = [sent EXCEPT ![k].begun = TRUE]
      /\ UNCHANGED <<answer, labels>>
  BY DEF BeginItem, Unchanged
<1>3. sent \in [DOMAIN answer -> Sents] /\ sent[k] \in Sents /\ sent[k].told <= Len(answer[k].body)
  BY <1>1 DEF SentOK, Sents
<1>4. r \in Sents /\ r.begun /\ r.told = sent[k].told /\ r.done = sent[k].done
  BY <1>3 DEF Sents
<1>5. sent' = [sent EXCEPT ![k] = r]
  BY <1>2
<1> HIDE DEF r
<1>6. Arrives(k)
  BY <1>2 DEF Arrives
<1>7. SentOK' /\ Begins(sent', k)
  BY <1>1, <1>2, <1>3, <1>4, <1>5, <1>6, MoreSent
<1>8. sent'[k].done = sent[k].done
  BY <1>3, <1>4, <1>5
<1>9. Upon(e, k) /\ e.kind = "item added"
  <2>1. Len(answer[k].body) \in Nat
    BY <1>1, AnswerIs, LenProperties DEF Texts
  <2>2. Told(k, 0) \in Items /\ Told(k, 0).name = Name(k) /\ Told(k, 0).type = answer[k].type
    BY <1>1, <2>1, ToldTyped
  <2> QED
    BY <2>2 DEF Upon
<1> HIDE DEF e
<1>10. EventOK(chat, Apply(chat, e, TRUE), sent')
  BY <1>1, <1>2, <1>7, <1>8, <1>9, AddedOK
<1> QED
  BY <1>2, <1>7, <1>10, DeliverSays

LEMMA FinishSays ==
  ASSUME StreamInv, AccountInv, NEW k \in DOMAIN answer, FinishItem(k)
  PROVE  StreamInv'
<1> DEFINE n == Len(answer[k].body)
           e == [kind |-> "item done", item |-> Told(k, n), at |-> Index(k)]
           r == [begun |-> TRUE, told |-> n, repeated |-> TRUE, done |-> TRUE]
<1>1. AnswerOK /\ LabelsOK /\ SentOK /\ ChatInv(chat, sent)
  BY DEF StreamInv
<1>2. Arrives(k) /\ Deliver(e) /\ sent' = [sent EXCEPT ![k] = r] /\ UNCHANGED <<answer, labels>>
  BY DEF FinishItem, Unchanged, Entire, Arrives, Speaks
<1>3. n \in 0 .. Len(answer[k].body) /\ n \in Nat
  BY <1>1, AnswerIs, LenProperties DEF Texts
<1>4. r \in Sents /\ r.begun /\ r.told <= Len(answer[k].body) /\ r.done
  BY <1>3 DEF Sents
<1>5. Told(k, n) \in Items /\ Told(k, n).name = Name(k) /\ Told(k, n).type = answer[k].type
  BY <1>1, <1>3, ToldTyped
<1>6. Upon(e, k) /\ e.kind = "item done"
  BY <1>5 DEF Upon
<1> HIDE DEF e, r, n
<1>7. SentOK' /\ Begins(sent', k)
  BY <1>1, <1>2, <1>4, MoreSent
<1>8. EventOK(chat, Apply(chat, e, TRUE), sent')
  BY <1>1, <1>2, <1>6, <1>7, DoneOK
<1> QED
  BY <1>2, <1>7, <1>8, DeliverSays

LEMMA TellSays ==
  ASSUME StreamInv, AccountInv, NEW k \in DOMAIN answer, NEW e, Deliver(e), Telling(e), sent[k].begun,
         NEW r \in Sents, r.begun, r.done = sent[k].done, r.told <= Len(answer[k].body),
         sent' = [sent EXCEPT ![k] = r], UNCHANGED <<answer, labels>>
  PROVE  StreamInv'
<1>1. AnswerOK /\ SentOK /\ ChatInv(chat, sent)
  BY DEF StreamInv
<1>2. Arrives(k)
  BY DEF Arrives
<1>3. SentOK' /\ Begins(sent', k)
  BY <1>1, <1>2, MoreSent
<1>4. sent'[k] = r
  BY <1>1 DEF SentOK
<1>5. \A i \in DOMAIN answer : (sent'[i].begun <=> sent[i].begun) /\ (sent'[i].done <=> sent[i].done)
  BY <1>3, <1>4 DEF Begins
<1>6. EventOK(chat, Apply(chat, e, TRUE), sent')
  BY <1>1, <1>5, TellingOK
<1> QED
  BY <1>3, <1>6, DeliverSays

LEMMA TellItemSays ==
  ASSUME StreamInv, AccountInv, NEW k \in DOMAIN answer, NEW n \in Chunks, TellItem(k, n)
  PROVE  StreamInv'
<1> DEFINE e == [kind |-> IF answer[k].type = "call" THEN "args delta" ELSE "text delta",
                 name |-> Name(k), at |-> Index(k),
                 body |-> SubSeq(answer[k].body, sent[k].told + 1, sent[k].told + n)]
           r == [sent[k] EXCEPT !.told = @ + n]
<1>1. AnswerOK /\ SentOK /\ n \in Nat
  BY StreamAssumption DEF StreamInv
<1>2. sent \in [DOMAIN answer -> Sents] /\ sent[k] \in Sents
  BY <1>1 DEF SentOK, Sents
<1>3. /\ Deliver(e) /\ sent[k].begun /\ sent[k].told + n <= Len(answer[k].body)
      /\ sent' = [sent EXCEPT ![k].told = @ + n] /\ UNCHANGED <<answer, labels>>
  BY DEF TellItem, Unchanged, Speaks
<1>4. r \in Sents /\ r.begun /\ r.done = sent[k].done /\ r.told <= Len(answer[k].body)
  <2>1. r \in Sents
    BY <1>1, <1>2 DEF Sents
  <2>2. r.begun = sent[k].begun /\ r.done = sent[k].done /\ r.told = sent[k].told + n
    BY <1>2 DEF Sents
  <2> HIDE DEF r
  <2> QED
    BY <1>3, <2>1, <2>2
<1>5. sent' = [sent EXCEPT ![k] = r]
  BY <1>2, <1>3
<1>6. SubSeq(answer[k].body, sent[k].told + 1, sent[k].told + n) \in Texts
  BY <1>1, <1>2, <1>3, PieceTyped DEF Sents
<1>7. Name(k) \in Nat
  BY <1>1, AnswerIs DEF Name, NoName
<1>8. Telling(e)
  BY <1>6, <1>7 DEF Telling
<1> HIDE DEF e, r
<1> QED
  BY <1>3, <1>4, <1>5, <1>8, TellSays

LEMMA RepeatSays ==
  ASSUME StreamInv, AccountInv, NEW k \in DOMAIN answer, RepeatItem(k)
  PROVE  StreamInv'
<1> DEFINE e == [kind |-> IF answer[k].type = "call" THEN "args done" ELSE "text done",
                 name |-> Name(k), at |-> Index(k), body |-> answer[k].body]
           n == Len(answer[k].body)
           r == [sent[k] EXCEPT !.repeated = TRUE, !.told = n]
<1>1. AnswerOK /\ SentOK
  BY DEF StreamInv
<1>2. sent \in [DOMAIN answer -> Sents] /\ sent[k] \in Sents
  BY <1>1 DEF SentOK, Sents
<1>3. /\ Deliver(e) /\ sent[k].begun
      /\ sent' = [sent EXCEPT ![k].repeated = TRUE, ![k].told = n] /\ UNCHANGED <<answer, labels>>
  BY DEF RepeatItem, Unchanged, Speaks
<1>4. answer[k].body \in Texts /\ n \in Nat
  BY <1>1, AnswerIs, LenProperties DEF Texts
<1>5. r \in Sents /\ r.begun /\ r.done = sent[k].done /\ r.told <= Len(answer[k].body)
  <2>1. r \in Sents
    BY <1>2, <1>4 DEF Sents
  <2>2. r.begun = sent[k].begun /\ r.done = sent[k].done /\ r.told = n
    BY <1>2 DEF Sents
  <2>3. n <= Len(answer[k].body)
    BY <1>4
  <2> HIDE DEF r, n, e
  <2> QED
    BY <1>3, <2>1, <2>2, <2>3
<1>6. sent' = [sent EXCEPT ![k] = r]
  BY <1>2, <1>3
<1>7. Name(k) \in Nat
  BY <1>1, AnswerIs DEF Name, NoName
<1>8. Telling(e)
  BY <1>4, <1>7 DEF Telling
<1> HIDE DEF e, r, n
<1> QED
  BY <1>3, <1>5, <1>6, <1>8, TellSays

(* The items that have begun are the first ones.                             *)
LEMMA BegunAreFirst ==
  ASSUME AnswerOK, SentOK
  PROVE  \E m \in Nat : {k \in DOMAIN answer : sent[k].begun} = 1 .. m /\ m <= Len(answer)
<1> DEFINE begun == {k \in DOMAIN answer : sent[k].begun}
           others == {i \in 1 .. Len(answer) + 1 : i \notin begun}
<1>1. Len(answer) \in Nat /\ DOMAIN answer = 1 .. Len(answer)
  BY AnswerIs
<1>2. others \in SUBSET Nat /\ Len(answer) + 1 \in others
  BY <1>1
<1>3. \A k \in begun : k \in 1 .. Len(answer) /\ \A j \in 1 .. k - 1 : j \in begun
  BY <1>1 DEF SentOK
<1> HIDE DEF begun
<1>4. PICK p \in others : \A j \in others : p <= j
  <2> HIDE DEF others
  <2> QED
    BY <1>2, LeastNatural
<1>5. p \in 1 .. Len(answer) + 1 /\ p \notin begun /\ p - 1 \in Nat /\ p - 1 <= Len(answer)
  BY <1>1, <1>4
<1>6. ASSUME NEW k \in 1 .. p - 1 PROVE k \in begun
  <2>1. k \in 1 .. Len(answer) + 1 /\ ~(p <= k)
    BY <1>1, <1>5
  <2> QED
    BY <1>4, <2>1
<1>7. ASSUME NEW k \in begun PROVE k \in 1 .. p - 1
  <2>1. k \in 1 .. Len(answer) /\ k # p /\ p \notin 1 .. k - 1
    BY <1>3, <1>5, <1>7
  <2> QED
    BY <1>1, <1>5, <2>1
<1>8. begun = 1 .. p - 1
  BY <1>6, <1>7
<1> QED
  BY <1>5, <1>8 DEF begun

(* What the terminal event names.                                            *)
LEMMA OutputTyped ==
  ASSUME AnswerOK, NEW m \in Nat, m <= Len(answer), NEW n,
         \A k \in 1 .. m : n[k] \in 0 .. Len(answer[k].body)
  PROVE  LET output == [k \in 1 .. m |-> Told(k, n[k])]
         IN /\ output \in Seq(Items) /\ Len(output) = m
            /\ \A k \in 1 .. Len(output) : output[k].name = Known(k - 1) /\ output[k].type = answer[k].type
<1> DEFINE output == [k \in 1 .. m |-> Told(k, n[k])]
<1>1. \A k \in 1 .. m : k \in DOMAIN answer
  BY AnswerIs
<1>2. \A k \in 1 .. m : /\ Told(k, n[k]) \in Items /\ Told(k, n[k]).name = Known(k - 1)
                        /\ Told(k, n[k]).type = answer[k].type
  BY <1>1, ToldTyped
<1>3. output \in Seq(Items)
  BY <1>2, IsASeq
<1>4. Len(output) = m
  BY <1>3, LenProperties
<1> QED
  BY <1>2, <1>3, <1>4

Concluded(reason, named) ==
  IF ~named THEN <<>>
  ELSE IF reason = "completed" THEN [k \in DOMAIN answer |-> Entire(k)]
  ELSE [k \in {k \in DOMAIN answer : sent[k].begun} |-> Told(k, sent[k].told)]

NamesBegun(output) ==
  \A k \in DOMAIN answer : sent[k].begun => k \in 1 .. Len(output) /\ output[k].type = answer[k].type

(* Each item has the place that it has in the answer, and unless the items   *)
(* are left out none that has begun is missing.                              *)
LEMMA ConcludedIs ==
  ASSUME AnswerOK, SentOK, NEW reason, NEW named \in BOOLEAN, NEW output, output = Concluded(reason, named)
  PROVE  /\ output \in Seq(Items) /\ InOrder(output)
         /\ output = <<>> \/ NamesBegun(output)
<1> DEFINE begun == {k \in DOMAIN answer : sent[k].begun}
           entire == [k \in DOMAIN answer |-> Entire(k)]
           part == [k \in begun |-> Told(k, sent[k].told)]
           Fine(f) == f \in Seq(Items) /\ InOrder(f)
<1>1. Len(answer) \in Nat /\ DOMAIN answer = 1 .. Len(answer)
  BY AnswerIs
<1>2. \A k \in DOMAIN answer :
        /\ Len(answer[k].body) \in 0 .. Len(answer[k].body)
        /\ sent[k].told \in 0 .. Len(answer[k].body)
  <2> SUFFICES ASSUME NEW k \in DOMAIN answer
               PROVE  /\ Len(answer[k].body) \in 0 .. Len(answer[k].body)
                      /\ sent[k].told \in 0 .. Len(answer[k].body)
    OBVIOUS
  <2>1. Len(answer[k].body) \in Nat
    BY AnswerIs, LenProperties DEF Texts
  <2>2. sent[k].told \in Nat /\ sent[k].told <= Len(answer[k].body)
    BY DEF SentOK
  <2> QED
    BY <2>1, <2>2
<1>3. Fine(entire) /\ NamesBegun(entire)
  <2> DEFINE n == [k \in DOMAIN answer |-> Len(answer[k].body)]
             m == Len(answer)
             f == [k \in 1 .. m |-> Told(k, n[k])]
  <2>1. m \in Nat /\ m <= Len(answer) /\ \A k \in 1 .. m : n[k] \in 0 .. Len(answer[k].body)
    BY <1>1, <1>2
  <2>2. entire = f
    BY <1>1 DEF Entire
  <2> HIDE DEF n, m
  <2>3. Fine(f) /\ Len(f) = m /\ \A k \in 1 .. Len(f) : f[k].type = answer[k].type
    BY <2>1, OutputTyped, ZenonT(30) DEF InOrder
  <2> HIDE DEF entire, f
  <2>4. NamesBegun(f)
    BY <1>1, <2>3 DEF NamesBegun, m
  <2> QED
    BY <2>2, <2>3, <2>4
<1>4. Fine(part) /\ NamesBegun(part)
  <2>1. PICK m \in Nat : begun = 1 .. m /\ m <= Len(answer)
    BY BegunAreFirst
  <2> DEFINE n == [k \in DOMAIN answer |-> sent[k].told]
             f == [k \in 1 .. m |-> Told(k, n[k])]
  <2>2. \A k \in 1 .. m : k \in DOMAIN answer /\ n[k] \in 0 .. Len(answer[k].body) /\ n[k] = sent[k].told
    BY <1>1, <1>2, <2>1
  <2>3. \A k \in DOMAIN answer : sent[k].begun => k \in 1 .. m
    BY <2>1
  <2> HIDE DEF n, begun
  <2>4. part = f
    BY <2>1, <2>2
  <2>5. Fine(f) /\ Len(f) = m /\ \A k \in 1 .. Len(f) : f[k].type = answer[k].type
    BY <1>1, <2>1, <2>2, OutputTyped, ZenonT(40) DEF InOrder
  <2> HIDE DEF part, f
  <2>6. NamesBegun(f)
    BY <2>3, <2>5 DEF NamesBegun
  <2> QED
    BY <2>4, <2>5, <2>6
<1>5. Fine(<<>>)
  BY EmptySeq DEF InOrder
<1>6. output \in {<<>>, entire, part}
  BY DEF Concluded
<1> HIDE DEF entire, part
<1>7. Fine(output) /\ (output = <<>> \/ NamesBegun(output))
  BY <1>3, <1>4, <1>5, <1>6
<1> QED
  BY <1>7

LEMMA ConcludeSays ==
  ASSUME StreamInv, AccountInv, NEW reason \in {"completed", "length", "content_filter"},
         NEW named \in BOOLEAN, Conclude(reason, named)
  PROVE  StreamInv'
<1> DEFINE output == Concluded(reason, named)
           e == [kind |-> "terminal", reason |-> reason, output |-> output]
<1>1. AnswerOK /\ SentOK /\ ChatInv(chat, sent)
  BY DEF StreamInv
<1>2. Deliver(e) /\ UNCHANGED <<sent, answer, labels>>
  BY DEF Conclude, Concluded
<1>3. output \in Seq(Items) /\ InOrder(output)
  BY <1>1, ConcludedIs
<1> HIDE DEF output
<1>4. /\ e.kind = "terminal" /\ e.output \in Seq(Items) /\ e.reason \in {"completed", "length", "content_filter"}
      /\ InOrder(e.output)
  BY <1>3
<1> HIDE DEF e
<1>5. EventOK(chat, Apply(chat, e, TRUE), sent)
  BY <1>1, <1>4, ConcludeOK
<1>6. SentOK'
  BY <1>1, <1>2 DEF SentOK
<1> QED
  BY <1>2, <1>5, <1>6, DeliverSays

LEMMA DisturbSays ==
  ASSUME StreamInv, AccountInv, NEW e \in Disturbances, Disturb(e)
  PROVE  StreamInv'
<1>1. AnswerOK /\ LabelsOK /\ SentOK /\ ChatInv(chat, sent)
  BY DEF StreamInv
<1>2. Deliver(e) /\ UNCHANGED <<sent, answer, labels>>
  BY DEF Disturb
<1>3. SentOK'
  BY <1>1, <1>2 DEF SentOK
<1>4. CASE e \in {[kind |-> "malformed"], [kind |-> "other"]} \cup [kind : {"failed"}, usage : BOOLEAN]
  <2>1. Telling(e)
    <3>1. \/ e.kind \in {"malformed", "other"}
          \/ e.kind = "failed" /\ e.usage \in BOOLEAN
      BY <1>4
    <3> QED
      BY <3>1 DEF Telling
  <2>2. EventOK(chat, Apply(chat, e, TRUE), sent)
    BY <1>1, <2>1, TellingOK
  <2> QED
    BY <1>2, <1>3, <2>2, DeliverSays
<1>5. CASE e \in Contradictions
  <2>1. PICK k \in DOMAIN answer :
          Speaks(k) /\ e = [kind |-> "item done", at |-> Index(k),
                            item |-> [Entire(k) EXCEPT !.body = Reverse(@)]]
    BY <1>5 DEF Contradictions
  <2> DEFINE n == Len(answer[k].body)
  <2>2. n \in 0 .. Len(answer[k].body)
    BY <1>1, AnswerIs, LenProperties DEF Texts
  <2>3. Told(k, n) \in Items /\ Told(k, n).name = Name(k) /\ Told(k, n).type = answer[k].type
    BY <1>1, <2>2, ToldTyped
  <2>4. Reverse(Told(k, n).body) \in Texts
    BY <2>3, ReverseTyped DEF Items
  <2> DEFINE item == [Told(k, n) EXCEPT !.body = Reverse(@)]
  <2>5. item \in Items /\ item.name = Name(k) /\ item.type = answer[k].type
    <3> DEFINE x == Told(k, n)
    <3>1. x \in Items /\ x.name = Name(k) /\ x.type = answer[k].type /\ Reverse(x.body) \in Texts
      BY <2>3, <2>4
    <3>2. item = [x EXCEPT !.body = Reverse(x.body)]
      OBVIOUS
    <3> HIDE DEF x, item
    <3> QED
      BY <3>1, <3>2 DEF Items
  <2>6. e = [kind |-> "item done", at |-> Index(k), item |-> item]
    BY <2>1 DEF Entire
  <2> HIDE DEF item, n
  <2>7. Upon(e, k) /\ e.kind = "item done"
    BY <2>5, <2>6 DEF Upon
  <2>8. Arrives(k) /\ Begins(sent, k)
    BY <2>1 DEF Speaks, Arrives, Begins
  <2>9. EventOK(chat, Apply(chat, e, TRUE), sent)
    BY <1>1, <2>7, <2>8, DoneOK
  <2> QED
    BY <1>2, <1>3, <2>9, DeliverSays
<1> QED
  BY <1>4, <1>5 DEF Disturbances

(* What is left when an item that was read stays as it is. *)
LEMMA Staying ==
  ASSUME StreamInv, UNCHANGED <<answer, labels, sent, chat>>, tools' \in Seq(ToolCalls)
  PROVE  /\ AnswerOK' /\ LabelsOK' /\ SentOK' /\ ChatInv(chat, sent)' /\ tools' \in Seq(ToolCalls)
         /\ InPlace(chat)' <=> InPlace(chat)
<1>1. AnswerOK' /\ LabelsOK' /\ SentOK'
  BY DEF StreamInv, AnswerOK, LabelsOK, SentOK
<1>2. ChatInv(chat', sent') /\ (InPlace(chat') <=> InPlace(chat))
  BY DEF StreamInv
<1> QED
  BY <1>1, <1>2, Throughout

(* A step of the stream that reads nothing and tells the client no more.     *)
LEMMA QuietSays ==
  ASSUME StreamInv, AccountInv, UNCHANGED <<answer, labels, sent, chat, tools, said>>,
         StopInv', filter'.stopped <=> filter.stopped,
         \/ phase' = "first" /\ phase = "role" /\ UNCHANGED <<first, accounts>>
         \/ phase' \in {"flush", "finish", "usage", "done"} /\ UNCHANGED accounts
            /\ phase \in {"read", "flush", "finish", "usage", "done"}
         \/ phase = "done" /\ phase' = "end"
         \/ ~Seen' /\ phase' = "end"
         \/ UNCHANGED <<phase, first, accounts>>
  PROVE  StreamInv'
<1>1. tools \in Seq(ToolCalls)
  BY DEF StreamInv
<1>2. /\ AnswerOK' /\ LabelsOK' /\ SentOK' /\ ChatInv(chat, sent)' /\ tools' \in Seq(ToolCalls)
      /\ InPlace(chat)' <=> InPlace(chat)
  BY <1>1, Staying
<1>3. SeenAll => SeenAll'
  BY <1>2 DEF SeenAll, Matches, Named
<1>4. FirstSaysAll /\ UNCHANGED first => FirstSaysAll'
  <2> SUFFICES ASSUME FirstSaysAll, UNCHANGED first PROVE FirstSaysAll'
    OBVIOUS
  <2>1. Tells(first.tools, <<>>, chat.calls)'
    BY DEF FirstSaysAll, Tells
  <2>2. InPlace(chat)' => TellsNames(first.tools, <<>>, chat.calls)'
    BY <1>2 DEF FirstSaysAll, TellsNames
  <2> QED
    BY <2>1, <2>2 DEF FirstSaysAll
<1>5. CASE phase' = "first" /\ phase = "role" /\ UNCHANGED <<first, accounts>>
  <2>1. ~Succeeded'
    BY <1>5, NotYet
  <2> QED
    BY <1>2, <1>4, <1>5, <2>1 DEF StreamInv, Seen
<1>6. CASE phase' \in {"flush", "finish", "usage", "done"} /\ phase \in {"read", "flush", "finish", "usage", "done"}
  <2>1. Seen
    BY <1>6 DEF Seen
  <2> QED
    BY <1>2, <1>3, <1>6, <2>1 DEF StreamInv
<1>7. CASE phase = "done" /\ phase' = "end"
  <2>1. Seen
    BY <1>7 DEF Seen
  <2> QED
    BY <1>2, <1>3, <1>7, <2>1 DEF StreamInv
<1>8. CASE ~Seen' /\ phase' = "end"
  BY <1>2, <1>8 DEF StreamInv
<1>9. CASE UNCHANGED <<phase, first, accounts>>
  <2>1. Seen' <=> Seen
    BY <1>9 DEF Seen, Succeeded
  <2> QED
    BY <1>2, <1>3, <1>4, <1>9, <2>1 DEF StreamInv
<1> QED
  BY <1>5, <1>6, <1>7, <1>8, <1>9

LEMMA LeavesUnseen ==
  ASSUME StreamInv, AccountInv, NEW usage, Unwritten(usage), phase \notin {"end", "refused"},
         UNCHANGED <<answer, labels, sent, chat>>
  PROVE  StreamInv'
<1>1. Account("canceled", usage) /\ UNCHANGED <<tools, said, filter>> /\ StopInv'
  BY StopInvStays DEF Unwritten, stopVars, StreamInv
<1>2. ~Seen' /\ phase' = "end"
  BY <1>1, EndsUnseen
<1> QED
  BY <1>1, <1>2, QuietSays

LEMMA BodyEndsSays ==
  ASSUME StreamInv, AccountInv, NEW oversized \in BOOLEAN, BodyEnds(oversized)
  PROVE  StreamInv'
<1>1. /\ UNCHANGED <<answer, labels, sent, first>> /\ phase \in {"prepare", "read"}
      /\ chat' = IF Complete(chat, oversized) THEN chat ELSE [chat EXCEPT !.failed = TRUE]
  BY DEF BodyEnds, upstream
<1>2. CASE phase = "read" /\ Complete(chat, oversized) /\ Become("flush") /\ UNCHANGED <<stopVars, tools>>
  <2>1. /\ UNCHANGED <<answer, labels, sent, chat, tools, said, filter, accounts>>
        /\ phase' = "flush" /\ phase = "read" /\ StopInv'
    BY <1>1, <1>2, StopInvStays DEF Become, stopVars, StreamInv
  <2> QED
    BY <2>1, QuietSays
<1>3. CASE /\ UNCHANGED <<stopVars, tools>>
           /\ \/ phase' = "refused" /\ UNCHANGED accounts
              \/ ~Seen' /\ phase' = "end"
  <2>1. ChatInv(chat, sent) /\ tools \in Seq(ToolCalls) /\ StopInv'
    BY <1>3, StopInvStays DEF StreamInv
  <2>2. ChatInv(chat', sent')
    <3>1. CASE chat' = chat
      BY <1>1, <2>1, <3>1
    <3>2. CASE chat' = [chat EXCEPT !.failed = TRUE]
      <4>1. chat \in States /\ Pointing(chat) /\ Noting(chat)
        BY <2>1 DEF ChatInv
      <4>2. Sound(chat, Failure(chat)) /\ Failure(chat).state.failed /\ Failure(chat).state = chat'
            /\ Same(chat, Failure(chat).state)
        BY <3>2, <4>1, SoundFailure
      <4>3. chat' \in States /\ Pointing(chat') /\ chat'.failed /\ chat'.items = chat.items
        BY <4>2 DEF Sound, Same
      <4>4. Noting(chat')
        BY <4>1, <4>3, SameItems
      <4> QED
        BY <4>3, <4>4 DEF ChatInv, Open
    <3> QED
      BY <1>1, <3>1, <3>2
  <2>3. AnswerOK' /\ LabelsOK' /\ SentOK'
    BY <1>1 DEF StreamInv, AnswerOK, LabelsOK, SentOK
  <2>4. ChatInv(chat, sent)'
    BY <1>1, <2>2, Throughout
  <2>5. ~Seen' /\ phase' \in {"refused", "end"}
    BY <1>1, <1>3, NotYet DEF Seen
  <2> QED
    BY <1>3, <2>1, <2>3, <2>4, <2>5 DEF StreamInv
<1>4. CASE phase = "prepare" /\ Become("refused") /\ UNCHANGED <<stopVars, tools, wire>>
  BY <1>3, <1>4 DEF Become
<1>5. ASSUME NEW outcome, outcome # "success", Account(outcome, chat.usage), UNCHANGED <<stopVars, tools>>
      PROVE  StreamInv'
  <2>1. ~Seen' /\ phase' = "end"
    BY <1>1, <1>5, EndsUnseen
  <2> QED
    BY <1>3, <1>5, <2>1
<1>6. CASE phase = "read" /\ Unwritten(chat.usage)
  BY <1>5, <1>6 DEF Unwritten
<1>7. CASE phase = "read" /\ Fails(chat.usage)
  BY <1>5, <1>7 DEF Fails
<1> QED
  BY <1>2, <1>4, <1>6, <1>7 DEF BodyEnds

LEMMA FirstSays ==
  ASSUME StreamInv, AccountInv, phase = "first", Emit(first), Become("read"),
         UNCHANGED <<answer, labels, sent, chat>>
  PROVE  StreamInv'
<1>1. said = <<>> /\ tools = <<>> /\ FirstSaysAll /\ tools \in Seq(ToolCalls) /\ StopInv
  BY DEF StreamInv
<1>2. Matches(tools, <<>>) /\ Named(tools, <<>>)
  BY <1>1, NothingYet
<1>3. first.text \in Texts /\ first.tools \in Seq(ToolDeltas) /\ Tells(first.tools, <<>>, chat.calls)
  BY <1>1 DEF FirstSaysAll
<1>4. /\ StopInv' /\ said' = said \o first.text /\ tools' \in Seq(ToolCalls)
      /\ ~filter'.stopped => Matches(tools', chat.calls)
      /\ TellsNames(first.tools, <<>>, chat.calls) /\ (~filter.stopped => Named(tools, <<>>))
           => (~filter'.stopped => Named(tools', chat.calls))
  BY <1>1, <1>2, <1>3, EmitSays
<1>5. said' = chat'.text
  BY <1>1, <1>4, NoText DEF FirstSaysAll
<1>6. /\ AnswerOK' /\ LabelsOK' /\ SentOK' /\ ChatInv(chat, sent)'
      /\ InPlace(chat)' <=> InPlace(chat)
  BY <1>4, Staying
<1>7. InPlace(chat)' => TellsNames(first.tools, <<>>, chat.calls)
  BY <1>1, <1>6 DEF FirstSaysAll
<1>8. SeenAll'
  BY <1>2, <1>4, <1>5, <1>7 DEF SeenAll, Matches, Named
<1>9. phase' = "read"
  BY DEF Become
<1> QED
  BY <1>4, <1>6, <1>8, <1>9 DEF StreamInv

LEMMA ProxySays ==
  ASSUME StreamInv, AccountInv, Proxy
  PROVE  StreamInv'
<1>1. ASSUME UNCHANGED <<stopVars, tools>> PROVE StopInv' /\ UNCHANGED <<tools, said, filter>>
  BY <1>1, StopInvStays DEF StreamInv, stopVars
<1>2. ASSUME NEW usage, Unwritten(usage), UNCHANGED <<upstream, readers>>, phase \notin {"end", "refused"}
      PROVE  StreamInv'
  <2>1. UNCHANGED <<answer, labels, sent, chat>>
    BY <1>2 DEF upstream, readers
  <2> QED
    BY <1>2, <2>1, LeavesUnseen
<1>3. CASE WriteRole
  <2>1. CASE Become("first") /\ UNCHANGED <<stopVars, tools>>
    <3>1. UNCHANGED <<answer, labels, sent, chat, first, accounts>> /\ phase = "role" /\ phase' = "first"
      BY <1>3, <2>1 DEF WriteRole, upstream, readers, Become
    <3> QED
      BY <1>1, <2>1, <3>1, QuietSays
  <2> QED
    BY <1>2, <1>3, <2>1 DEF WriteRole
<1>4. CASE WriteFirst
  <2>1. CASE Emit(first) /\ Become("read")
    <3>1. UNCHANGED <<answer, labels, sent, chat>> /\ phase = "first"
      BY <1>4 DEF WriteFirst, upstream, readers
    <3> QED
      BY <2>1, <3>1, FirstSays
  <2> QED
    BY <1>2, <1>4, <2>1 DEF WriteFirst
<1>5. CASE ReadCanceled
  BY <1>2, <1>5 DEF ReadCanceled
<1>6. CASE WriteHeld
  <2>1. CASE Flush /\ Become("finish") /\ UNCHANGED tools
    <3>1. /\ UNCHANGED <<answer, labels, sent, chat, said, accounts>> /\ phase = "flush" /\ phase' = "finish"
          /\ filter' = [filter EXCEPT !.buffered = <<>>]
      BY <1>6, <2>1 DEF WriteHeld, upstream, readers, Become, Flush
    <3>2. StopInv' /\ StopInv
      BY <2>1, FlushKeeps DEF StreamInv
    <3>3. filter'.stopped <=> filter.stopped
      BY <3>1, <3>2 DEF StopInv, StopTypeOK
    <3> QED
      BY <2>1, <3>1, <3>2, <3>3, QuietSays
  <2> QED
    BY <1>2, <1>6, <2>1 DEF WriteHeld
<1>7. ASSUME phase \in {"finish", "usage"}, NEW place \in {"usage", "done"}, Become(place),
             UNCHANGED <<stopVars, tools, upstream, readers>>
      PROVE  StreamInv'
  <2>1. UNCHANGED <<answer, labels, sent, chat, accounts>> /\ phase' \in {"usage", "done"}
    BY <1>7 DEF upstream, readers, Become
  <2>2. StopInv' /\ UNCHANGED <<tools, said, filter>>
    BY <1>1, <1>7
  <2> QED
    BY <1>7, <2>1, <2>2, QuietSays
<1>8. CASE WriteFinish
  BY <1>2, <1>7, <1>8 DEF WriteFinish
<1>9. CASE WriteUsage
  BY <1>2, <1>7, <1>9 DEF WriteUsage
<1>10. CASE WriteDone
  <2>1. CASE Account("success", chat.usage) /\ UNCHANGED <<stopVars, tools>>
    <3>1. UNCHANGED <<answer, labels, sent, chat>> /\ phase = "done" /\ phase' = "end"
      BY <1>10, <2>1 DEF WriteDone, upstream, readers, Account
    <3> QED
      BY <1>1, <2>1, <3>1, QuietSays
  <2> QED
    BY <1>2, <1>10, <2>1 DEF WriteDone
<1> QED
  BY <1>3, <1>4, <1>5, <1>6, <1>8, <1>9, <1>10 DEF Proxy

LEMMA StreamStep == StreamInv /\ AccountInv /\ [StreamNext]_streamVars => StreamInv'
<1> SUFFICES ASSUME StreamInv, AccountInv, [StreamNext]_streamVars PROVE StreamInv'
  OBVIOUS
<1>1. CASE ClientLeaves \/ UNCHANGED streamVars
  <2>1. /\ UNCHANGED <<answer, labels, sent, chat, tools, said, filter, phase, first, accounts>>
        /\ UNCHANGED stopVars
    BY <1>1 DEF ClientLeaves, streamVars, upstream, readers, ours, stopVars
  <2>2. StopInv'
    BY <2>1, StopInvStays DEF StreamInv
  <2> QED
    BY <2>1, <2>2, QuietSays
<1>2. CASE Upstream
  BY <1>2, BeginSays, TellItemSays, RepeatSays, FinishSays, ConcludeSays, DisturbSays, BodyEndsSays
     DEF Upstream
<1> QED
  BY <1>1, <1>2, ProxySays DEF StreamNext

LEMMA NewStateOK ==
  ASSUME AnswerOK, NEW t, \A k \in DOMAIN answer : ~t[k].begun
  PROVE  ChatInv(NewState, t)
<1> DEFINE s == NewState
<1>1. /\ s.calls = <<>> /\ DOMAIN s.byName = {} /\ DOMAIN s.byOutput = {} /\ DOMAIN s.items = {}
      /\ s.current = 0 /\ s.next = 0
  BY DEF NewState, NoItem
<1>2. s \in States
  <2>1. <<>> \in Texts /\ <<>> \in Seq(Calls)
    BY EmptySeq DEF Texts
  <2>2. /\ s.byName \in Maps(Nat \ {0}, Nat \ {0}) /\ s.byOutput \in Maps(Nat, Nat \ {0})
        /\ s.items \in Maps(Nat, Items)
    BY EmptyMap DEF NewState
  <2> QED
    BY <2>1, <2>2 DEF States, NewState, NoItem, Reasons
<1> HIDE DEF s
<1>3. Len(s.calls) = 0
  BY <1>1, EmptySeq
<1>4. Pointing(s) /\ Placed(s) /\ InPlace(s)
  BY <1>1, <1>3 DEF Pointing, Placed, InPlace
<1>5. Noting(s)
  <2>1. 0 \in Nat /\ DOMAIN s.items \subseteq 0 .. 0
    BY <1>1
  <2> QED
    BY <1>1, <1>4, <2>1 DEF Noting
<1>6. Counting(s, t)
  <2>1. \A k \in DOMAIN answer : k \in Nat \ {0}
    BY AnswerIs
  <2> QED
    BY <1>1, <1>3, <2>1 DEF Counting
<1> QED
  BY <1>2, <1>4, <1>5, <1>6 DEF ChatInv, s

LEMMA StreamInvInit == StreamInit => StreamInv
<1> SUFFICES ASSUME StreamInit PROVE StreamInv
  OBVIOUS
<1>1. /\ answer \in Answers /\ labels \in Labels /\ chat = NewState /\ phase = "prepare"
      /\ tools = <<>> /\ said = <<>> /\ accounts = <<>> /\ StopInit
      /\ sent = [k \in DOMAIN answer |-> [begun |-> FALSE, told |-> 0, repeated |-> FALSE, done |-> FALSE]]
  BY DEF StreamInit, StopInit
<1>2. AnswerOK /\ LabelsOK
  BY <1>1, StreamAssumption DEF AnswerOK, LabelsOK, Texts
<1>3. SentOK /\ \A k \in DOMAIN answer : ~sent[k].begun
  <2>1. \A k \in DOMAIN answer : Len(answer[k].body) \in Nat
    BY <1>2, AnswerIs, LenProperties DEF Texts
  <2> QED
    BY <1>1, <2>1 DEF SentOK
<1>4. ChatInv(chat, sent)
  BY <1>1, <1>2, <1>3, NewStateOK
<1>5. StopInv
  BY <1>1, StopInvInit
<1>6. ~Seen
  BY <1>1 DEF Seen, Succeeded
<1> QED
  BY <1>1, <1>2, <1>3, <1>4, <1>5, <1>6, NothingYet DEF StreamInv

LEMMA StreamInvHolds == StreamSpec => [](StreamInv /\ AccountInv)
BY StreamInvInit, AccountInvInit, StreamStep, AccountStep, PTL DEF StreamSpec

(* The items are all in place unless one of them was noted at another place. *)
LEMMA WellPlaced ==
  ASSUME ChatInv(chat, sent), ~Misplaced
  PROVE  InPlace(chat)
<1>1. chat \in States /\ Noting(chat)
  BY DEF ChatInv
<1>2. \A i \in DOMAIN chat.items : i \in Nat
  <2>1. DOMAIN chat.items \subseteq Nat
    BY <1>1, StateParts, MapIs
  <2> QED
    BY <2>1
<1> QED
  BY <1>1, <1>2 DEF Misplaced, InPlace, Known, Noting

LEMMA InvSeesAll == StreamInv => ClientSeesAll
<1> SUFFICES ASSUME StreamInv, Seen PROVE ClientSeesAll
  BY DEF ClientSeesAll, Seen
<1>1. SeenAll /\ ChatInv(chat, sent) /\ tools \in Seq(ToolCalls) /\ chat \in States
  BY DEF StreamInv, ChatInv
<1>2. ASSUME ~filter.stopped
      PROVE  /\ Len(tools) = Len(chat.calls)
             /\ \A i \in DOMAIN tools : tools[i].args = chat.calls[i].args
             /\ ~Misplaced => tools = Plain(chat.calls)
  <2>1. /\ Len(tools) = Len(chat.calls) /\ DOMAIN tools = 1 .. Len(tools)
        /\ DOMAIN chat.calls = 1 .. Len(chat.calls)
    BY <1>1, <1>2, StateParts, LenProperties DEF SeenAll, Matches
  <2>2. \A i \in DOMAIN tools : tools[i].args = chat.calls[i].args
    BY <1>1, <1>2, <2>1 DEF SeenAll, Matches
  <2>3. ASSUME ~Misplaced PROVE tools = Plain(chat.calls)
    <3>1. \A i \in DOMAIN tools : tools[i].name = chat.calls[i].name
      BY <1>1, <1>2, <2>1, <2>3, WellPlaced DEF SeenAll, Named
    <3>2. \A i \in DOMAIN tools : tools[i] = [name |-> tools[i].name, args |-> tools[i].args]
      <4>1. \A i \in DOMAIN tools : tools[i] \in ToolCalls
        BY <1>1, <2>1, ElementOfSeq
      <4> QED
        BY <4>1 DEF ToolCalls
    <3>3. \A i \in DOMAIN tools : tools[i] = [name |-> chat.calls[i].name, args |-> chat.calls[i].args]
      BY <2>2, <3>1, <3>2
    <3>4. tools = [i \in DOMAIN tools |-> tools[i]]
      BY <1>1, <2>1
    <3> QED
      BY <2>1, <3>3, <3>4 DEF Plain
  <2> QED
    BY <2>1, <2>2, <2>3
<1> QED
  BY <1>1, <1>2 DEF ClientSeesAll, SeenAll

(* The client has all that the stream has read: the text, each letter once,  *)
(* and each tool call with its arguments, but for what the stop filter holds *)
(* back or has cut off (emitUpdate, reconcileTextSnapshot,                   *)
(* reconcileToolArguments, reconcileToolSnapshot, reconcileTerminalOutput).  *)
THEOREM StreamSeesAll == StreamSpec => []ClientSeesAll
BY InvSeesAll, StreamInvHolds, PTL

(* The client of the whole stream, too, sees the text up to the first stop   *)
(* sequence, whatever the events make of the text that goes through the      *)
(* filter: deltas, the rest of a snapshot, of an item or of the terminal     *)
(* response (emitUpdate, chatStopFilter.push).                               *)
THEOREM StreamShowsCut == StreamSpec => []ShownIsCut
<1>1. StreamInv => ShownIsCut
  BY DEF StreamInv, StopInv
<1> QED
  BY <1>1, StreamInvHolds, PTL

(* And when it ends it shows the cut of the whole text, unless one stop      *)
(* sequence lies inside another (streamChatCompletion, flush).               *)
THEOREM StreamEndsCut == StreamSpec => []StreamCutsAsWhole
<1>1. StreamInv => StreamCutsAsWhole
  BY StopInvCuts DEF StreamInv
<1> QED
  BY <1>1, StreamInvHolds, PTL

-----------------------------------------------------------------------------
(* The stream and the aggregated answer read the same events, one as they    *)
(* arrive, the other for the terminal event: what each makes of the items    *)
(* that the terminal event resolves (reconcileTerminalOutput).               *)

(* An item that the terminal event resolves, with its output index. *)
Listings == [at : Nat, item : Items]

(* The text of no message.                                                   *)
LEMMA TextOfNone == TextOf(<<>>) = <<>>
<1> DEFINE f == [r \in SUBSET {} |-> <<>>]
           none == <<>>
<1>1. DOMAIN none = {}
  OBVIOUS
<1>2. f = [r \in SUBSET DOMAIN none |-> IF r = {} THEN <<>> ELSE f[r \ {Max(r)}] \o none[Max(r)].item.body]
  BY <1>1
<1> DEFINE g == Joining(none)
<1>3. g = [r \in SUBSET DOMAIN none |-> IF r = {} THEN <<>> ELSE g[r \ {Max(r)}] \o none[Max(r)].item.body]
  BY <1>2, Zenon DEF Joining
<1>4. g[{}] = <<>>
  BY <1>3
<1> HIDE DEF g, none
<1>5. TextOf(none) = g[DOMAIN none]
  BY TextOfIsFold DEF g
<1> QED
  BY <1>1, <1>4, <1>5 DEF none

(* What an item of the output makes of the calls, in both readers.           *)
TakeStep(m, x) ==
  [Ensured(m, x.item, x.at) EXCEPT !.calls[CallFor(m, x.item, x.at)].args = x.item.body]

(* It keeps the call maps sound, and gives the call of the item its          *)
(* arguments.                                                                *)
LEMMA TakeStepIs ==
  ASSUME NEW m \in States, Pointing(m), NEW x \in Listings
  PROVE  LET r == TakeStep(m, x)
         IN /\ r \in States /\ Pointing(r) /\ Len(r.calls) \in Nat \ {0}
            /\ r.text = m.text /\ r.items = m.items /\ r.failed = m.failed /\ r.terminal = m.terminal
            /\ Placed(m) /\ x.item.name = Known(x.at) =>
                 /\ Placed(r)
                 /\ DOMAIN r.byOutput = DOMAIN m.byOutput \cup {x.at}
                 /\ r.calls[r.byOutput[x.at]].args = x.item.body
                 /\ \A i \in DOMAIN m.byOutput : i # x.at =>
                      r.calls[r.byOutput[i]].args = m.calls[m.byOutput[i]].args
<1> DEFINE r == TakeStep(m, x)
           k == CallFor(m, x.item, x.at)
           e == Ensured(m, x.item, x.at)
<1>1. x.item \in Items /\ x.at \in Nat /\ x.item.body \in Texts
  BY DEF Listings, Items
<1>2. /\ k \in 1 .. Len(e.calls)
      /\ \A i \in 1 .. Len(m.calls) : e.calls[i].args = m.calls[i].args
  BY <1>1, EnsuredCalls, SMTT(30)
<1>3. /\ e \in States /\ Pointing(e)
      /\ e.text = m.text /\ e.items = m.items /\ e.failed = m.failed /\ e.terminal = m.terminal
  BY <1>1, EnsuredTyped, EnsuredKeeps, EnsuredPoints
<1>4. /\ DOMAIN e.byOutput = DOMAIN m.byOutput \cup {x.at}
      /\ \A i \in DOMAIN e.byOutput : IF i = x.at THEN e.byOutput[i] = k ELSE e.byOutput[i] = m.byOutput[i]
  BY <1>1, EnsuredMaps
<1>5. Placed(m) /\ x.item.name = Known(x.at) => Placed(e)
  BY <1>1, EnsuredPlaced
<1>6. \A i \in DOMAIN m.byOutput : m.byOutput[i] \in 1 .. Len(m.calls)
  BY PointsWithin
<1>7. r = [e EXCEPT !.calls[k].args = x.item.body]
  BY DEF TakeStep
<1> HIDE DEF e, k, r
<1> DEFINE body == x.item.body
<1>8. r = [e EXCEPT !.calls[k].args = body] /\ body \in Texts
  BY <1>1, <1>7
<1> HIDE DEF body
<1>9. /\ r \in States /\ r.text = e.text /\ r.byOutput = e.byOutput /\ r.items = e.items
      /\ r.failed = e.failed /\ r.terminal = e.terminal
      /\ Len(r.calls) = Len(e.calls) /\ r.calls[k].args = body
      /\ \A i \in 1 .. Len(e.calls) : i # k => r.calls[i] = e.calls[i]
      /\ Pointing(r) /\ (Placed(e) => Placed(r))
  <2>1. SetsArgs(e, r, k, body)
    BY <1>2, <1>3, <1>8, ArgsSetChanges
  <2>2. Pointing(r) /\ (Placed(e) => Placed(r))
    BY <1>3, <2>1, ArgsSetKeeps
  <2> QED
    BY <2>1, <2>2 DEF SetsArgs, Same
<1>10. Len(r.calls) \in Nat \ {0}
  <2>1. Len(r.calls) \in Nat /\ k \in 1 .. Len(r.calls)
    BY <1>2, <1>9, StateParts
  <2> QED
    BY <2>1
<1>11. ASSUME Placed(e), NEW i \in DOMAIN m.byOutput, i # x.at
       PROVE  r.calls[r.byOutput[i]].args = m.calls[m.byOutput[i]].args
  <2> DEFINE p == m.byOutput[i]
  <2>1. p \in 1 .. Len(m.calls) /\ e.byOutput[i] = p /\ i \in DOMAIN e.byOutput
    BY <1>4, <1>6, <1>11
  <2>2. p \in 1 .. Len(e.calls)
    BY <1>3, <2>1, PointsWithin
  <2>3. e.calls[p].at = i /\ e.calls[k].at = x.at
    <3>1. x.at \in DOMAIN e.byOutput /\ e.byOutput[x.at] = k
      BY <1>4
    <3> QED
      BY <1>11, <2>1, <3>1 DEF Placed
  <2>4. r.calls[p] = e.calls[p]
    BY <1>9, <1>11, <2>2, <2>3
  <2> QED
    BY <1>2, <1>9, <2>1, <2>4
<1>12. r.byOutput[x.at] = k /\ DOMAIN r.byOutput = DOMAIN m.byOutput \cup {x.at}
  BY <1>4, <1>9
<1> QED
  BY <1>3, <1>5, <1>9, <1>10, <1>11, <1>12 DEF r, body

(* reconcileToolSnapshot does the same, when it does not fail. *)
LEMMA ToolSnapshotTakes ==
  ASSUME NEW m \in States, Pointing(m), NEW x \in Listings, ~ToolSnapshot(m, x.item, x.at).state.failed
  PROVE  ToolSnapshot(m, x.item, x.at).state = TakeStep(m, x)
<1> DEFINE k == CallFor(m, x.item, x.at)
           known == Ensured(m, x.item, x.at)
<1>1. x.item \in Items /\ x.at \in Nat
  BY DEF Listings
<1>2. known \in States /\ Pointing(known)
  BY <1>1, EnsuredTyped, EnsuredPoints
<1>3. CASE k > Len(m.calls)
  BY <1>3 DEF ToolSnapshot, TakeStep, Update
<1>4. CASE ~(k > Len(m.calls))
  <2>1. ToolSnapshot(m, x.item, x.at) = ArgsSnapshot(known, k, x.item.body, TRUE)
    BY <1>4 DEF ToolSnapshot
  <2>2. TakeStep(m, x) = [known EXCEPT !.calls[k].args = x.item.body]
    BY DEF TakeStep
  <2> HIDE DEF known, k
  <2>3. Failure(known).state.failed
    BY <1>2, SoundFailure
  <2> QED
    BY <2>1, <2>2, <2>3 DEF ArgsSnapshot, Update
<1> QED
  BY <1>3, <1>4

(* The items of C that r picks are calls of t, each with its arguments.      *)
Lists(t, C, r) ==
  \A j \in r : C[j].at \in DOMAIN t.byOutput /\ t.calls[t.byOutput[C[j].at]].args = C[j].item.body

(* An item that is taken joins those that are listed. *)
LEMMA ListsMore ==
  ASSUME NEW C \in Seq(Listings), Apart(C), NEW r \in SUBSET (1 .. Len(C)), NEW k \in r,
         NEW m \in States, Pointing(m), Placed(m), C[k].item.name = Known(C[k].at),
         Lists(m, C, r \ {k})
  PROVE  Lists(TakeStep(m, C[k]), C, r)
<1> DEFINE x == C[k]
           t == TakeStep(m, x)
<1>1. x \in Listings /\ k \in 1 .. Len(C)
  BY ElementOfSeq
<1>2. /\ DOMAIN t.byOutput = DOMAIN m.byOutput \cup {x.at}
      /\ t.calls[t.byOutput[x.at]].args = x.item.body
      /\ \A i \in DOMAIN m.byOutput : i # x.at => t.calls[t.byOutput[i]].args = m.calls[m.byOutput[i]].args
  BY <1>1, TakeStepIs
<1> HIDE DEF t
<1>3. ASSUME NEW j \in r
      PROVE  C[j].at \in DOMAIN t.byOutput /\ t.calls[t.byOutput[C[j].at]].args = C[j].item.body
  <2>1. CASE j = k
    BY <1>2, <2>1
  <2>2. CASE j # k
    <3>1. C[j].at # x.at
      BY <1>1, <2>2 DEF Apart
    <3>2. C[j].at \in DOMAIN m.byOutput /\ m.calls[m.byOutput[C[j].at]].args = C[j].item.body
      BY <2>2 DEF Lists
    <3> HIDE DEF x
    <3> QED
      BY <1>2, <3>1, <3>2
  <2> QED
    BY <2>1, <2>2
<1> QED
  BY <1>3 DEF Lists, t

(* The calls that the items of C say, by the names of their places. *)
Said(C) == {[name |-> Known(C[j].at), args |-> C[j].item.body] : j \in 1 .. Len(C)}

(* Calls that are those of C, and no others, are as many, and the same.      *)
LEMMA ListedCalls ==
  ASSUME NEW t \in States, Pointing(t), Placed(t), NEW C \in Seq(Listings), Apart(C),
         Lists(t, C, 1 .. Len(C)),
         \A p \in 1 .. Len(t.calls) : \E j \in 1 .. Len(C) : t.byOutput[C[j].at] = p
  PROVE  Len(t.calls) = Len(C) /\ ToSet(Plain(t.calls)) = Said(C)
<1> DEFINE n == Len(C)
           m == Len(t.calls)
           f == [j \in 1 .. n |-> t.byOutput[C[j].at]]
<1>1. n \in Nat /\ m \in Nat /\ DOMAIN t.calls = 1 .. m
  BY LenProperties, StateParts
<1>2. \A j \in 1 .. n : /\ f[j] \in 1 .. m /\ C[j].at \in DOMAIN t.byOutput
                        /\ t.calls[f[j]].args = C[j].item.body
                        /\ t.calls[f[j]].at = C[j].at /\ t.calls[f[j]].name = Known(C[j].at)
  <2> TAKE j \in 1 .. n
  <2>1. C[j].at \in DOMAIN t.byOutput /\ t.calls[t.byOutput[C[j].at]].args = C[j].item.body
    BY DEF Lists
  <2>2. /\ t.byOutput[C[j].at] \in 1 .. m
        /\ t.calls[t.byOutput[C[j].at]].at = C[j].at /\ t.calls[t.byOutput[C[j].at]].name = Known(C[j].at)
    BY <2>1, PointsWithin, Zenon DEF Placed
  <2> QED
    BY <2>1, <2>2
<1>3. \A p \in 1 .. m : \E j \in 1 .. n : f[j] = p
  OBVIOUS
<1> HIDE DEF f, n, m
<1>4. f \in [1 .. n -> 1 .. m]
  BY <1>2 DEF f
<1>5. \A i, j \in 1 .. n : f[i] = f[j] => i = j
  BY <1>2 DEF Apart, n
<1>6. f \in Bijection(1 .. n, 1 .. m)
  BY <1>3, <1>4, <1>5 DEF Bijection, Injection, Surjection, IsInjective
<1>7. Cardinality(1 .. m) = n
  <2>1. ExistsBijection(1 .. n, 1 .. m)
    BY <1>6 DEF ExistsBijection
  <2> QED
    BY <1>1, <2>1, FS_CountingElements
<1>8. Cardinality(1 .. m) = m
  <2>1. Cardinality(1 .. m) = IF 1 > m THEN 0 ELSE m - 1 + 1
    BY <1>1, FS_Interval
  <2> QED
    BY <1>1, <2>1
<1> DEFINE Tool(p) == [name |-> t.calls[p].name, args |-> t.calls[p].args]
           Asked(j) == [name |-> Known(C[j].at), args |-> C[j].item.body]
<1>9. ToSet(Plain(t.calls)) = {Tool(p) : p \in 1 .. m}
  BY <1>1 DEF ToSet, Plain
<1>10. Said(C) = {Asked(j) : j \in 1 .. n}
  BY DEF Said, n
<1>11. \A j \in 1 .. n : f[j] \in 1 .. m /\ Asked(j) = Tool(f[j])
  BY <1>2
<1> HIDE DEF Tool, Asked
<1>12. {Tool(p) : p \in 1 .. m} = {Asked(j) : j \in 1 .. n}
  BY <1>3, <1>11
<1> QED
  BY <1>7, <1>8, <1>9, <1>10, <1>12 DEF n, m

-----------------------------------------------------------------------------
(* reconcileTerminalOutput of the stream: what it leaves when it does not    *)
(* fail.                                                                     *)
LEMMA TextFirstIs ==
  ASSUME NEW s \in States, Pointing(s), NEW messages, ~TextFirst(s, messages).state.failed
  PROVE  TextFirst(s, messages).state.text = TextOf(messages)
<1>1. Failure(s).state.failed
  BY SoundFailure
<1>2. CASE messages # <<>>
  <2>1. TextFirst(s, messages) = TextSnapshot(s, TextOf(messages), TRUE)
    BY <1>2 DEF TextFirst
  <2>2. TextSnapshot(s, TextOf(messages), TRUE)
          = Update([s EXCEPT !.text = TextOf(messages)], After(TextOf(messages), Len(s.text)), <<>>)
    BY <1>1, <2>1 DEF TextSnapshot
  <2> DEFINE r == [s EXCEPT !.text = TextOf(messages)]
  <2>3. r.text = TextOf(messages)
    BY DEF States
  <2>4. TextFirst(s, messages) = Update(r, After(TextOf(messages), Len(s.text)), <<>>)
    BY <2>1, <2>2
  <2> HIDE DEF r
  <2>5. TextFirst(s, messages).state = r
    BY <2>4 DEF Update
  <2> QED
    BY <2>3, <2>5
<1>3. CASE messages = <<>>
  <2>1. TextFirst(s, messages) = Quiet(s) /\ s.text = <<>>
    BY <1>1, <1>3 DEF TextFirst
  <2> QED
    BY <1>3, <2>1, TextOfNone DEF Quiet, Update
<1> QED
  BY <1>2, <1>3

(* A stream that does not fail has the text of the messages, and if all      *)
(* are in place it lists the calls.                                          *)
LEMMA JoinedIs ==
  ASSUME NEW s \in States, Pointing(s), NEW messages \in Seq(Listings), NEW C \in Seq(Listings), Apart(C),
         NEW u, u = Joined(s, messages, C), ~u.state.failed
  PROVE  /\ u.state.text = TextOf(messages)
         /\ Placed(s) /\ AtPlaces(C) =>
              Placed(u.state) /\ Lists(u.state, C, 1 .. Len(C))
<1> DEFINE Good == Placed(s) /\ AtPlaces(C)
           base == TextFirst(s, messages)
           g == JoiningCalls(base, C)
           n == Len(C)
           S == DOMAIN C
           T == {r \in SUBSET S : ~g[r].state.failed =>
                   g[r].state.text = TextOf(messages) /\ (Good => Lists(g[r].state, C, r))}
<1>1. n \in Nat /\ S = 1 .. n /\ S \in SUBSET (0 .. n)
  <2>1. n \in Nat /\ S = 1 .. n
    BY LenProperties
  <2> QED
    BY <2>1
<1>2. /\ g[{}] = base
      /\ \A r \in SUBSET S : r # {} => g[r] = JoinStep(g[r \ {Max(r)}], C[Max(r)])
      /\ \A r \in SUBSET S : Sound(s, g[r]) /\ (Good => Orderly(s, g[r]))
  BY JoinedSteps DEF Listings
<1>3. ~base.state.failed => base.state.text = TextOf(messages)
  BY TextFirstIs
<1>4. Good => \A k \in 1 .. n : C[k].item.name = Known(C[k].at)
  BY DEF AtPlaces
<1>5. u = g[S]
  BY JoinedIsFold
<1> HIDE DEF Good, base, g, n, S
<1>6. {} \in T
  BY <1>2, <1>3 DEF Lists
<1>7. ASSUME NEW r \in SUBSET S, r # {}, r \ {Max(r)} \in T PROVE r \in T
  <2> SUFFICES ASSUME ~g[r].state.failed
               PROVE  g[r].state.text = TextOf(messages) /\ (Good => Lists(g[r].state, C, r))
    OBVIOUS
  <2> DEFINE k == Max(r)
             q == r \ {k}
             m == g[q].state
             x == C[k]
  <2>1. k \in r /\ k \in 1 .. n
    <3>1. r \in SUBSET (0 .. n)
      BY <1>1
    <3> QED
      BY <1>1, <1>7, <3>1, MaxIn
  <2>2. x \in Listings
    BY <2>1, ElementOfSeq DEF n
  <2>3. q \in SUBSET S /\ g[r] = JoinStep(g[q], x)
    BY <1>2, <1>7
  <2> HIDE DEF k
  <2>4. ~m.failed
    <3> SUFFICES ASSUME m.failed PROVE FALSE
      OBVIOUS
    <3>1. g[r] = g[q]
      BY <2>3 DEF JoinStep
    <3> QED
      BY <3>1
  <2>5. g[r].state = ToolSnapshot(m, x.item, x.at).state
    BY <2>3, <2>4 DEF JoinStep, Update
  <2>6. m \in States /\ Pointing(m) /\ (Good => Placed(m))
    BY <1>2, <2>3, <2>4 DEF Sound, Orderly
  <2>7. m.text = TextOf(messages) /\ (Good => Lists(m, C, q))
    BY <1>7, <2>4 DEF k
  <2> HIDE DEF m, x
  <2>8. g[r].state = TakeStep(m, x)
    BY <2>2, <2>5, <2>6, ToolSnapshotTakes
  <2>9. TakeStep(m, x).text = m.text
    BY <2>2, <2>6, TakeStepIs
  <2>10. ASSUME Good PROVE Lists(TakeStep(m, x), C, r)
    <3>1. r \in SUBSET (1 .. Len(C)) /\ C[k].item.name = Known(C[k].at)
      BY <1>1, <1>4, <2>1, <2>10 DEF n
    <3>2. Placed(m) /\ Lists(m, C, r \ {k})
      BY <2>6, <2>7, <2>10
    <3> QED
      BY <2>1, <2>6, <3>1, <3>2, ListsMore DEF x
  <2> QED
    BY <2>7, <2>8, <2>9, <2>10
<1> HIDE DEF T
<1>8. S \in T
  BY <1>1, <1>6, <1>7, OverSubsets
<1>9. u.state.text = TextOf(messages) /\ (Good => Lists(u.state, C, 1 .. n))
  BY <1>1, <1>5, <1>8 DEF T
<1>10. Good => Placed(u.state)
  BY <1>2, <1>5 DEF Orderly
<1> QED
  BY <1>9, <1>10 DEF Good, n

(* A call whose place is taken is the one at that place. *)
LEMMA CallForPlaced ==
  ASSUME NEW t \in States, Pointing(t), Placed(t), NEW x \in Listings, x.item.name = Known(x.at),
         x.at \in DOMAIN t.byOutput
  PROVE  CallFor(t, x.item, x.at) = t.byOutput[x.at]
<1>1. x.item \in Items /\ x.at \in Nat /\ x.item.name \in Nat
  BY DEF Listings, Items
<1>2. CASE Lookup(t, x.item.name) # NoItem
  <2> DEFINE k == t.byName[x.item.name]
  <2>1. x.item.name \in DOMAIN t.byName /\ x.item.name # NoName /\ CallFor(t, x.item, x.at) = k
    BY <1>1, <1>2, LookupIs DEF CallFor
  <2>2. k \in 1 .. Len(t.calls)
    BY <2>1, PointsWithin
  <2>3. t.calls[k].name = x.item.name /\ t.calls[k].name = Known(t.calls[k].at)
        /\ t.byOutput[t.calls[k].at] = k
    BY <2>1, <2>2 DEF Placed
  <2>4. t.calls[k].at \in Nat
    <3>1. t.calls[k] \in Calls
      BY <2>2, StateParts, ElementOfSeq
    <3> QED
      BY <3>1 DEF Calls
  <2> HIDE DEF k
  <2>5. t.calls[k].at = x.at
    BY <1>1, <2>1, <2>3, <2>4 DEF Known, NoName
  <2> QED
    BY <2>1, <2>3, <2>5
<1>3. CASE Lookup(t, x.item.name) = NoItem
  BY <1>3 DEF CallFor
<1> QED
  BY <1>2, <1>3

(* The calls of a stream that does not fail are those of the output.         *)
LEMMA CompletedIs ==
  ASSUME NEW s \in States, Pointing(s), NEW messages \in Seq(Listings), NEW C \in Seq(Listings), Apart(C),
         NEW u, u = Completed(s, Joined(s, messages, C), C), ~u.state.failed
  PROVE  /\ u.state.text = TextOf(messages)
         /\ u.state.calls # <<>> <=> C # <<>>
         /\ Placed(s) /\ AtPlaces(C) =>
              Len(u.state.calls) = Len(C) /\ ToSet(Plain(u.state.calls)) = Said(C)
<1> DEFINE t == u.state
           j == Joined(s, messages, C)
<1>1. Failure(s).state.failed
  BY SoundFailure
<1>2. u = j /\ {CallFor(t, C[i].item, C[i].at) : i \in DOMAIN C} = DOMAIN t.calls
  <2>1. ~(j.state.failed \/ {CallFor(j.state, C[i].item, C[i].at) : i \in DOMAIN C} # DOMAIN j.state.calls)
    BY <1>1 DEF Completed
  <2> HIDE DEF j
  <2>2. u = j
    BY <2>1 DEF Completed, j
  <2> QED
    BY <2>1, <2>2
<1>3. t \in States /\ Pointing(t)
  BY <1>2, JoinedSound DEF Sound, Listings
<1>4. /\ t.text = TextOf(messages)
      /\ Placed(s) /\ AtPlaces(C) =>
           Placed(t) /\ Lists(t, C, 1 .. Len(C))
  BY <1>2, JoinedIs
<1> HIDE DEF t, j
<1>5. DOMAIN C = 1 .. Len(C) /\ Len(C) \in Nat /\ DOMAIN t.calls = 1 .. Len(t.calls) /\ Len(t.calls) \in Nat
  BY <1>3, StateParts, LenProperties
<1>6. t.calls # <<>> <=> C # <<>>
  <2>1. C = <<>> <=> Len(C) = 0
    BY EmptySeq
  <2>2. t.calls = <<>> <=> Len(t.calls) = 0
    BY <1>3, StateParts, EmptySeq
  <2>3. \A n \in Nat : n = 0 <=> 1 .. n = {}
    <3> TAKE n \in Nat
    <3>1. n # 0 => 1 \in 1 .. n
      OBVIOUS
    <3>2. n = 0 => 1 .. n = {}
      OBVIOUS
    <3> QED
      BY <3>1, <3>2
  <2>4. (Len(C) = 0 <=> DOMAIN C = {}) /\ (Len(t.calls) = 0 <=> DOMAIN t.calls = {})
    BY <1>5, <2>3
  <2>5. DOMAIN C = {} <=> DOMAIN t.calls = {}
    BY <1>2
  <2> QED
    BY <2>1, <2>2, <2>4, <2>5
<1>7. ASSUME Placed(s), AtPlaces(C)
      PROVE  Len(t.calls) = Len(C) /\ ToSet(Plain(t.calls)) = Said(C)
  <2>1. Placed(t) /\ Lists(t, C, 1 .. Len(C))
    BY <1>4, <1>7
  <2>2. ASSUME NEW p \in 1 .. Len(t.calls) PROVE \E i \in 1 .. Len(C) : t.byOutput[C[i].at] = p
    <3>1. PICK i \in 1 .. Len(C) : CallFor(t, C[i].item, C[i].at) = p
      BY <1>2, <1>5
    <3>2. C[i] \in Listings /\ C[i].item.name = Known(C[i].at) /\ C[i].at \in DOMAIN t.byOutput
      BY <1>7, <2>1, ElementOfSeq DEF Lists, AtPlaces
    <3>3. CallFor(t, C[i].item, C[i].at) = t.byOutput[C[i].at]
      BY <1>3, <2>1, <3>2, CallForPlaced
    <3> QED
      BY <3>1, <3>3
  <2> QED
    BY <1>3, <2>1, <2>2, ListedCalls
<1> QED
  BY <1>4, <1>6, <1>7 DEF t

-----------------------------------------------------------------------------
(* reconcileTerminalOutput of the answer: it starts anew.                    *)
Cleared(s, text) ==
  [s EXCEPT !.text = text, !.calls = <<>>, !.byName = [n \in {} |-> 0],
            !.byOutput = [i \in {} |-> 0], !.current = NoItem]

(* Nothing is left of the calls, of what was noted everything is. *)
LEMMA ClearedIs ==
  ASSUME NEW s \in States, NEW text \in Texts
  PROVE  LET t == Cleared(s, text)
         IN /\ t \in States /\ Pointing(t) /\ Placed(t)
            /\ t.text = text /\ t.items = s.items /\ t.failed = s.failed /\ t.terminal = s.terminal
            /\ t.calls = <<>> /\ DOMAIN t.byOutput = {}
<1> DEFINE t == Cleared(s, text)
           noNames == [n \in {} |-> 0]
           noPlaces == [i \in {} |-> 0]
           none == <<>>
<1>1. /\ none \in Seq(Calls) /\ Len(none) = 0
      /\ noNames \in Maps(Nat \ {0}, Nat \ {0}) /\ noPlaces \in Maps(Nat, Nat \ {0})
      /\ DOMAIN noNames = {} /\ DOMAIN noPlaces = {}
  BY EmptyMap, EmptySeq
<1>2. t = [s EXCEPT !.text = text, !.calls = none, !.byName = noNames, !.byOutput = noPlaces, !.current = NoItem]
  BY DEF Cleared
<1> HIDE DEF t, noNames, noPlaces, none
<1>3. /\ t \in States
      /\ t.text = text /\ t.items = s.items /\ t.failed = s.failed /\ t.terminal = s.terminal
      /\ t.calls = none /\ t.byName = noNames /\ t.byOutput = noPlaces /\ t.current = 0
  BY <1>1, <1>2 DEF States, NoItem
<1>4. Pointing(t) /\ Placed(t)
  BY <1>1, <1>3 DEF Pointing, Placed
<1> QED
  BY <1>1, <1>3, <1>4 DEF t, none

(* The fold over the calls of the output, and what each of its steps         *)
(* makes of it.                                                              *)
Replacing(base, calls) ==
  CHOOSE f : f = [r \in SUBSET DOMAIN calls |->
                    IF r = {} THEN base ELSE TakeStep(f[r \ {Max(r)}], calls[Max(r)])]

(* Replaced is that fold. *)
LEMMA ReplacedIsFold ==
  ASSUME NEW s, NEW messages, NEW calls
  PROVE  Replaced(s, messages, calls) = Quiet(Replacing(Cleared(s, TextOf(messages)), calls)[DOMAIN calls])
BY DEF Replaced, FoldLeft, MapThenFoldSet, Replacing, Cleared, TakeStep

(* Each step takes the last of the calls so far. *)
LEMMA ReplacedSteps ==
  ASSUME NEW base \in States, Pointing(base), NEW C \in Seq(Listings)
  PROVE  LET g == Replacing(base, C)
         IN /\ g[{}] = base
            /\ \A r \in SUBSET DOMAIN C : r # {} => g[r] = TakeStep(g[r \ {Max(r)}], C[Max(r)])
<1> DEFINE V == {t \in States : Pointing(t)}
           n == Len(C)
           S == DOMAIN C
           G == [p \in S \X V |-> TakeStep(p[2], C[p[1]])]
           g == Replacing(base, C)
<1>1. n \in Nat /\ S = 1 .. n /\ S \in SUBSET (0 .. n)
  <2>1. n \in Nat /\ S = 1 .. n
    BY LenProperties
  <2> QED
    BY <2>1
<1>2. ASSUME NEW i \in S, NEW m \in V PROVE TakeStep(m, C[i]) \in V
  <2> DEFINE x == C[i]
  <2>1. x \in Listings
    BY <1>1, ElementOfSeq
  <2> HIDE DEF x
  <2>2. TakeStep(m, x) \in V
    BY <2>1, TakeStepIs
  <2> QED
    BY <2>2 DEF x
<1>3. base \in V
  OBVIOUS
<1> HIDE DEF S, n, V
<1>4. G \in [S \X V -> V]
  BY <1>2
<1>5. \A i \in S : \A v \in V : G[<<i, v>>] = TakeStep(v, C[i])
  OBVIOUS
<1> HIDE DEF G
<1>6. PICK f \in [SUBSET S -> V] : Folding(f, G, base, S)
  BY <1>1, <1>3, <1>4, FoldExists
<1>7. \A r \in SUBSET S : r # {} => Max(r) \in S
  BY <1>1, MaxIn
<1>8. \A r \in SUBSET S : r # {} =>
        G[<<Max(r), f[r \ {Max(r)}]>>] = TakeStep(f[r \ {Max(r)}], C[Max(r)])
  <2> TAKE r \in SUBSET S
  <2> HAVE r # {}
  <2>1. Max(r) \in S /\ f[r \ {Max(r)}] \in V
    BY <1>6, <1>7
  <2> QED
    BY <1>5, <2>1
<1>9. f = [r \in SUBSET S |-> IF r = {} THEN base ELSE TakeStep(f[r \ {Max(r)}], C[Max(r)])]
  BY <1>6, <1>8 DEF Folding
<1>10. g = [r \in SUBSET S |-> IF r = {} THEN base ELSE TakeStep(g[r \ {Max(r)}], C[Max(r)])]
  BY <1>9 DEF Replacing, S
<1> HIDE DEF g
<1>11. /\ g[{}] = base
       /\ \A r \in SUBSET S : r # {} => g[r] = TakeStep(g[r \ {Max(r)}], C[Max(r)])
  BY <1>10
<1> QED
  BY <1>11 DEF S, g

(* The calls of the answer are those of the output.                          *)
LEMMA ReplacedIs ==
  ASSUME NEW s \in States, NEW messages \in Seq(Listings), NEW C \in Seq(Listings), Apart(C),
         NEW t, t = Replaced(s, messages, C).state
  PROVE  /\ t \in States /\ Pointing(t)
         /\ t.text = TextOf(messages) /\ t.failed = s.failed /\ t.terminal = s.terminal
         /\ t.calls # <<>> <=> C # <<>>
         /\ AtPlaces(C) =>
              Len(t.calls) = Len(C) /\ ToSet(Plain(t.calls)) = Said(C)
<1> DEFINE Good == AtPlaces(C)
           text == TextOf(messages)
           base == Cleared(s, text)
           g == Replacing(base, C)
           n == Len(C)
           S == DOMAIN C
           Fits(m, r) ==
             /\ m \in States /\ Pointing(m)
             /\ m.text = text /\ m.failed = s.failed /\ m.terminal = s.terminal
             /\ m.calls # <<>> <=> r # {}
             /\ Good => /\ Placed(m) /\ Lists(m, C, r)
                        /\ \A i \in DOMAIN m.byOutput : \E j \in r : C[j].at = i
           T == {r \in SUBSET S : Fits(g[r], r)}
<1>1. n \in Nat /\ S = 1 .. n /\ S \in SUBSET (0 .. n)
  <2>1. n \in Nat /\ S = 1 .. n
    BY LenProperties
  <2> QED
    BY <2>1
<1>2. text \in Texts
  BY TextOfTyped DEF Listings
<1>3. /\ base \in States /\ Pointing(base) /\ Placed(base)
      /\ base.text = text /\ base.failed = s.failed /\ base.terminal = s.terminal
      /\ base.calls = <<>> /\ DOMAIN base.byOutput = {}
  BY <1>2, ClearedIs
<1>4. /\ g[{}] = base
      /\ \A r \in SUBSET S : r # {} => g[r] = TakeStep(g[r \ {Max(r)}], C[Max(r)])
  BY <1>3, ReplacedSteps
<1>5. t = g[S]
  BY ReplacedIsFold DEF Quiet, Update
<1>6. Good => \A k \in 1 .. n : C[k].item.name = Known(C[k].at)
  BY DEF AtPlaces
<1> HIDE DEF Good, text, base, g, n, S
<1>7. {} \in T
  BY <1>3, <1>4 DEF Lists
<1>8. ASSUME NEW r \in SUBSET S, r # {}, r \ {Max(r)} \in T PROVE r \in T
  <2> DEFINE k == Max(r)
             q == r \ {k}
             m == g[q]
             x == C[k]
             v == TakeStep(m, x)
  <2>1. k \in r /\ k \in 1 .. n
    <3>1. r \in SUBSET (0 .. n)
      BY <1>1
    <3> QED
      BY <1>1, <1>8, <3>1, MaxIn
  <2>2. x \in Listings
    BY <2>1, ElementOfSeq DEF n
  <2>3. g[r] = v
    BY <1>4, <1>8
  <2>4. Fits(m, q)
    BY <1>8
  <2> HIDE DEF k, m, x, v
  <2>5. /\ v \in States /\ Pointing(v) /\ Len(v.calls) \in Nat \ {0}
        /\ v.text = m.text /\ v.failed = m.failed /\ v.terminal = m.terminal
        /\ Placed(m) /\ x.item.name = Known(x.at) =>
             Placed(v) /\ DOMAIN v.byOutput = DOMAIN m.byOutput \cup {x.at}
    BY <2>2, <2>4, TakeStepIs DEF v
  <2>6. v.calls # <<>>
    BY <2>5, EmptySeq
  <2>7. ASSUME Good
        PROVE  /\ Placed(v) /\ Lists(v, C, r)
               /\ \A i \in DOMAIN v.byOutput : \E j \in r : C[j].at = i
    <3>1. r \in SUBSET (1 .. Len(C)) /\ C[k].item.name = Known(C[k].at)
      BY <1>1, <1>6, <2>1, <2>7 DEF n
    <3>2. Placed(m) /\ Lists(m, C, r \ {k}) /\ \A i \in DOMAIN m.byOutput : \E j \in r \ {k} : C[j].at = i
      BY <2>4, <2>7
    <3>3. Lists(v, C, r)
      BY <2>1, <2>4, <3>1, <3>2, ListsMore DEF v, x
    <3>4. Placed(v) /\ DOMAIN v.byOutput = DOMAIN m.byOutput \cup {x.at}
      BY <2>5, <3>1, <3>2 DEF x
    <3>5. C[k].at = x.at
      BY DEF x
    <3> QED
      BY <2>1, <3>2, <3>3, <3>4, <3>5
  <2>8. Fits(v, r)
    BY <1>8, <2>4, <2>5, <2>6, <2>7
  <2> QED
    BY <2>3, <2>8
<1> HIDE DEF T
<1>9. S \in T
  BY <1>1, <1>7, <1>8, OverSubsets
<1>10. Fits(t, 1 .. n)
  BY <1>1, <1>5, <1>9 DEF T
<1>11. 1 .. n # {} <=> C # <<>>
  <2>1. C = <<>> <=> n = 0
    BY EmptySeq DEF n
  <2>2. n # 0 => 1 \in 1 .. n
    BY <1>1
  <2>3. n = 0 => 1 .. n = {}
    OBVIOUS
  <2> QED
    BY <2>1, <2>2, <2>3
<1>12. ASSUME Good PROVE Len(t.calls) = Len(C) /\ ToSet(Plain(t.calls)) = Said(C)
  <2>1. /\ t \in States /\ Pointing(t) /\ Placed(t) /\ Lists(t, C, 1 .. Len(C))
        /\ \A i \in DOMAIN t.byOutput : \E j \in 1 .. Len(C) : C[j].at = i
    BY <1>10, <1>12 DEF n
  <2>2. \A p \in 1 .. Len(t.calls) : \E j \in 1 .. Len(C) : t.byOutput[C[j].at] = p
    <3> TAKE p \in 1 .. Len(t.calls)
    <3> DEFINE at == t.calls[p].at
    <3>1. at \in DOMAIN t.byOutput /\ t.byOutput[at] = p
      BY <2>1 DEF Placed
    <3> HIDE DEF at
    <3>2. PICK j \in 1 .. Len(C) : C[j].at = at
      BY <2>1, <3>1
    <3> QED
      BY <3>1, <3>2
  <2> QED
    BY <2>1, <2>2, ListedCalls
<1> QED
  BY <1>10, <1>11, <1>12 DEF Good, text

-----------------------------------------------------------------------------
(* Both readers resolve the same output: it depends on what was noted only.  *)
ResolvedOf(items, output, type) ==
  LET Item(i) == IF i < Len(output) THEN output[i + 1] ELSE items[i]
      places == {i \in (0 .. Len(output) - 1) \cup DOMAIN items : Item(i).type = type}
  IN MapThenFoldSet(LAMBDA x, y : Append(y, x), <<>>,
                    LAMBDA i : [at |-> i, item |-> Item(i)], Max, places)

(* Readers that have noted the same items resolve the same. *)
LEMMA ResolvedSame ==
  ASSUME NEW s, NEW t, t.items = s.items, NEW output, NEW type
  PROVE  Resolved(t, output, type) = Resolved(s, output, type)
<1>1. Resolved(s, output, type) = ResolvedOf(s.items, output, type)
  BY DEF Resolved, ResolvedOf
<1>2. Resolved(t, output, type) = ResolvedOf(t.items, output, type)
  BY DEF Resolved, ResolvedOf
<1> QED
  BY <1>1, <1>2

(* What is resolved are items with their places. *)
LEMMA CallsListed ==
  ASSUME NEW s \in States, NEW output, output \in Seq(Items),
         InOrder(output),
         NEW m \in Nat, DOMAIN s.items \subseteq 0 .. m
  PROVE  /\ Resolved(s, output, "call") \in Seq(Listings)
         /\ InPlace(s) => AtPlaces(Resolved(s, output, "call"))
<1> DEFINE calls == Resolved(s, output, "call")
<1>1. calls \in Seq([at : Nat, item : Items]) /\ (InPlace(s) /\ InOrder(output) => AtPlaces(calls))
  BY ResolvedListed
<1> HIDE DEF calls
<1>2. calls \in Seq(Listings) /\ (InPlace(s) => AtPlaces(calls))
  BY <1>1 DEF Listings
<1> QED
  BY <1>2 DEF calls

(* The types of the items that have something to say. *)
Telltale == {"message", "call"}

(* The two readers agree on a response that is complete.                     *)
Agree(c, w) ==
  /\ w.terminal /\ ~w.failed /\ w.text = c.text /\ w.finish = c.finish
  /\ InPlace(c) => Len(w.calls) = Len(c.calls) /\ ToSet(Plain(w.calls)) = ToSet(Plain(c.calls))

(* After the terminal event the readers agree, if it resolves an item        *)
(* that has something to say or they were the same before it.                *)
LEMMA TerminalAgrees ==
  ASSUME NEW c \in States, Pointing(c), InPlace(c) => Placed(c),
         NEW w \in States, Pointing(w), ~w.failed, w.items = c.items,
         NEW e, e.output \in Seq(Items), e.reason \in {"completed", "length", "content_filter"},
         InOrder(e.output),
         NEW m \in Nat, DOMAIN c.items \subseteq 0 .. m,
         w = c \/ \E type \in Telltale : PlacesOf(c, e.output, type) # {},
         ~Terminal(c, e, TRUE).state.failed
  PROVE  Agree(Terminal(c, e, TRUE).state, Terminal(w, e, FALSE).state)
<1> DEFINE c1 == [c EXCEPT !.usage = TRUE]
           w1 == [w EXCEPT !.usage = TRUE]
           M == Resolved(c1, e.output, "message")
           C == Resolved(c1, e.output, "call")
           u == Reconciled(c1, e.output, TRUE)
           x == Reconciled(w1, e.output, FALSE)
           c2 == Terminal(c, e, TRUE).state
           w2 == Terminal(w, e, FALSE).state
<1>1. /\ c1 \in States /\ Same(c, c1) /\ c1.items = c.items
      /\ w1 \in States /\ Same(w, w1) /\ w1.items = w.items /\ ~w1.failed
  BY DEF Same, States
<1>2. Pointing(c1) /\ (InPlace(c) => Placed(c1)) /\ Pointing(w1)
  BY <1>1, SameKeeps
<1>3. (w = c => w1 = c1) /\ w1.items = c1.items
  BY <1>1
<1>4. c2 = Ended(u, e.reason).state /\ w2 = Ended(x, e.reason).state
  BY DEF Terminal
<1> HIDE DEF c1, w1
<1>5. M = Resolved(w1, e.output, "message") /\ C = Resolved(w1, e.output, "call")
  BY <1>3, ResolvedSame
<1>6. u = IF M = <<>> /\ C = <<>> THEN Quiet(c1) ELSE Completed(c1, Joined(c1, M, C), C)
  BY DEF Reconciled
<1>7. x = IF M = <<>> /\ C = <<>> THEN Quiet(w1) ELSE Replaced(w1, M, C)
  BY <1>5 DEF Reconciled
<1>8. u \in Updates /\ u.state.items = c.items
  BY <1>1, <1>2, ReconciledSound
<1>9. DOMAIN c1.items \subseteq 0 .. m
  BY <1>1
<1>10. /\ M \in Seq(Listings) /\ C \in Seq(Listings) /\ Apart(C)
       /\ InPlace(c1) => AtPlaces(C)
       /\ PlacesOf(c1, e.output, "message") # {} => M # <<>>
       /\ PlacesOf(c1, e.output, "call") # {} => C # <<>>
  <2>1. M \in Seq(Listings)
    BY <1>1, <1>9, ResolvedListed DEF Listings
  <2>2. /\ C \in Seq(Listings)
        /\ InPlace(c1) => AtPlaces(C)
    BY <1>1, <1>9, CallsListed
  <2>3. PlacesOf(c1, e.output, "message") # {} => M # <<>>
    BY <1>1, <1>9, ResolvedTyped
  <2>4. Apart(C) /\ (PlacesOf(c1, e.output, "call") # {} => C # <<>>)
    BY <1>1, <1>9, ResolvedTyped
  <2> QED
    BY <2>1, <2>2, <2>3, <2>4
<1> HIDE DEF M, C, u, x, c2, w2
<1>11. ~u.state.failed /\ (InPlace(c1) <=> InPlace(c))
       /\ \A type : PlacesOf(c1, e.output, type) = PlacesOf(c, e.output, type)
  <2>1. u.state.failed => Ended(u, e.reason) = u
    BY <1>8, EndedIs
  <2>2. ~c2.failed
    BY DEF c2
  <2>3. /\ InPlace(c1) <=> InPlace(c)
        /\ \A type : PlacesOf(c1, e.output, type) = PlacesOf(c, e.output, type)
    BY <1>1 DEF InPlace, PlacesOf, ItemAt
  <2> QED
    BY <1>4, <2>1, <2>2, <2>3
<1>12. /\ Same(u.state, c2) /\ c2.text = u.state.text /\ c2.calls = u.state.calls
       /\ c2.terminal /\ ~c2.failed
       /\ c2.finish = IF e.reason # "completed" THEN e.reason
                      ELSE IF u.state.calls # <<>> THEN "tool_calls" ELSE "stop"
  BY <1>4, <1>8, <1>11, EndedIs
<1>13. CASE M = <<>> /\ C = <<>>
  <2>1. w = c
    BY <1>10, <1>11, <1>13 DEF Telltale
  <2>2. x = u
    BY <1>3, <1>6, <1>7, <1>13, <2>1
  <2>3. w2 = c2
    BY <1>4, <2>2
  <2> QED
    BY <1>12, <2>3 DEF Agree, c2, w2
<1>14. CASE ~(M = <<>> /\ C = <<>>)
  <2>1. u = Completed(c1, Joined(c1, M, C), C) /\ x = Replaced(w1, M, C)
    BY <1>6, <1>7, <1>14
  <2>2. /\ u.state.text = TextOf(M)
        /\ u.state.calls # <<>> <=> C # <<>>
        /\ InPlace(c) => Len(u.state.calls) = Len(C) /\ ToSet(Plain(u.state.calls)) = Said(C)
    BY <1>1, <1>2, <1>10, <1>11, <2>1, CompletedIs
  <2>3. /\ x.state \in States /\ ~x.state.failed
        /\ x.state.text = TextOf(M)
        /\ x.state.calls # <<>> <=> C # <<>>
        /\ InPlace(c) => Len(x.state.calls) = Len(C) /\ ToSet(Plain(x.state.calls)) = Said(C)
    BY <1>1, <1>10, <1>11, <2>1, ReplacedIs
  <2>4. x \in Updates
    <3>1. x = Quiet(x.state)
      BY <2>1 DEF Replaced, Quiet, Update
    <3>2. \A r \in States : Quiet(r) \in Updates
      BY NoText, EmptySeq DEF Quiet, Update, Updates
    <3> QED
      BY <2>3, <3>1, <3>2
  <2>5. /\ w2.text = x.state.text /\ w2.calls = x.state.calls /\ w2.terminal /\ ~w2.failed
        /\ w2.finish = IF e.reason # "completed" THEN e.reason
                       ELSE IF x.state.calls # <<>> THEN "tool_calls" ELSE "stop"
    BY <1>4, <2>3, <2>4, EndedIs
  <2>6. InPlace(c2) => InPlace(c)
    <3>1. c2.items = c.items
      BY <1>8, <1>12 DEF Same
    <3> QED
      BY <3>1 DEF InPlace
  <2>7. w2.finish = c2.finish
    BY <1>12, <2>2, <2>3, <2>5
  <2>8. w2.text = c2.text
    BY <1>12, <2>2, <2>3, <2>5
  <2>9. InPlace(c2) => Len(w2.calls) = Len(c2.calls) /\ ToSet(Plain(w2.calls)) = ToSet(Plain(c2.calls))
    BY <1>12, <2>2, <2>3, <2>5, <2>6
  <2>10. Agree(c2, w2)
    BY <2>5, <2>7, <2>8, <2>9 DEF Agree
  <2> QED
    BY <2>10 DEF c2, w2
<1> QED
  BY <1>13, <1>14
-----------------------------------------------------------------------------
(* What an event makes of the two readers.                                   *)
Streamed(s, e) == Apply(s, e, TRUE).state
Answered(s, e) == Apply(s, e, FALSE).state

(* The two changes of a state that events of texts and of arguments make. *)
TextPut(s, text) == [s EXCEPT !.text = text]
ArgsPut(s, k, args) == [s EXCEPT !.calls[k].args = args]

(* What the answer makes of an event while the response is open.             *)
LEMMA TextReads ==
  ASSUME NEW s, NEW e, Open(s)
  PROVE  /\ e.kind = "text delta" => Answered(s, e) = TextPut(s, s.text \o e.body)
         /\ e.kind = "text done" => Answered(s, e) = TextPut(s, e.body)
<1>1. CASE e.kind = "text delta"
  BY <1>1 DEF TextPut, Answered, Apply, Open, Update
<1>2. CASE e.kind = "text done"
  BY <1>2 DEF TextPut, Answered, Apply, Open, TextSnapshot, Update, Quiet
<1> QED
  BY <1>1, <1>2

LEMMA ArgsReads ==
  ASSUME NEW s, NEW e, Open(s), NEW k, k = CallOfEvent(s, e), k # NoItem
  PROVE  /\ e.kind = "args delta" => Answered(s, e) = ArgsPut(s, k, s.calls[k].args \o e.body)
         /\ e.kind = "args done" => Answered(s, e) = ArgsPut(s, k, e.body)
<1>1. CASE e.kind = "args delta"
  BY <1>1 DEF ArgsPut, Answered, Apply, Open, Update
<1>2. CASE e.kind = "args done"
  BY <1>2 DEF ArgsPut, Answered, Apply, Open, ArgsSnapshot, Update, Quiet
<1> QED
  BY <1>1, <1>2

LEMMA AddedReads ==
  ASSUME NEW s, NEW e, Open(s), e.kind = "item added"
  PROVE  Answered(s, e) = IF e.item.type # "call" THEN s
                          ELSE Ensured(Indexed(s, e), e.item, OutputIndex(s, e))
BY DEF Answered, Apply, Open, Update, Quiet

LEMMA ItemDoneReads ==
  ASSUME NEW s, NEW e, Open(s), e.kind = "item done"
  PROVE  Answered(s, e) = Noted(s, e)
BY DEF Answered, Apply, Open, Update, Quiet, Noted

LEMMA OtherReads ==
  ASSUME NEW s, NEW e, Open(s), e.kind = "other"
  PROVE  Answered(s, e) = s
BY DEF Answered, Apply, Open, Update, Quiet

(* Both readers take the terminal event, each in its way. *)
LEMMA WholeEnds ==
  ASSUME NEW s, NEW e, Open(s), e.kind = "terminal"
  PROVE  Answered(s, e) = Terminal(s, e, FALSE).state /\ Streamed(s, e) = Terminal(s, e, TRUE).state
BY DEF Answered, Streamed, Apply, Open

(* Unless it fails the stream makes the same of it, but for an item that is  *)
(* done and for the terminal event.                                          *)
LEMMA ReadAlike ==
  ASSUME NEW s \in States, NEW e, Open(s), ~Streamed(s, e).failed,
         e.kind \in {"text delta", "text done", "args delta", "args done", "item added", "other"}
  PROVE  Answered(s, e) = Streamed(s, e)
<1> DEFINE r == Streamed(s, e)
           w == Answered(s, e)
           failure == Failure(s).state
<1>1. failure.failed
  BY DEF Failure, Quiet, Update, States
<1>2. CASE e.kind = "text delta"
  <2>1. r = TextPut(s, s.text \o e.body)
    BY <1>2 DEF Streamed, Apply, Open, Update, TextPut
  <2>2. w = TextPut(s, s.text \o e.body)
    BY <1>2, TextReads
  <2> QED
    BY <2>1, <2>2
<1>3. CASE e.kind = "text done"
  <2>1. r = IF IsPrefix(s.text, e.body) THEN TextPut(s, e.body) ELSE failure
    BY <1>3 DEF Streamed, Apply, Open, TextSnapshot, Update, TextPut
  <2>2. w = TextPut(s, e.body)
    BY <1>3, TextReads
  <2>3. ~r.failed
    OBVIOUS
  <2> HIDE DEF r, w, failure
  <2>4. w = r
    BY <1>1, <2>1, <2>2, <2>3
  <2> QED
    BY <2>4 DEF r, w
<1>4. CASE e.kind \in {"args delta", "args done"}
  <2> DEFINE k == CallOfEvent(s, e)
             args == IF e.kind = "args delta" THEN s.calls[k].args \o e.body ELSE e.body
  <2>1. r = failure \/ (k # NoItem /\ r = ArgsPut(s, k, args))
    <3>1. CASE e.kind = "args delta"
      BY <3>1 DEF Streamed, Apply, Open, Update, ArgsPut
    <3>2. CASE e.kind = "args done"
      BY <3>2 DEF Streamed, Apply, Open, ArgsSnapshot, Update, ArgsPut
    <3> QED
      BY <1>4, <3>1, <3>2
  <2>2. k # NoItem => w = ArgsPut(s, k, args)
    BY <1>4, ArgsReads
  <2>3. ~r.failed
    OBVIOUS
  <2> HIDE DEF r, w, failure, k, args
  <2>4. w = r
    BY <1>1, <2>1, <2>2, <2>3
  <2> QED
    BY <2>4 DEF r, w
<1>5. CASE e.kind = "item added"
  <2> DEFINE x == IF e.item.type # "call" THEN s
                  ELSE Ensured(Indexed(s, e), e.item, OutputIndex(s, e))
  <2>1. r = x
    BY <1>5 DEF Streamed, Apply, Open, Update, Quiet
  <2>2. w = x
    BY <1>5, AddedReads
  <2> HIDE DEF x
  <2> QED
    BY <2>1, <2>2
<1>6. CASE e.kind = "other"
  <2>1. r = s
    BY <1>6 DEF Streamed, Apply, Open, Update, Quiet
  <2>2. w = s
    BY <1>6, OtherReads
  <2> QED
    BY <2>1, <2>2
<1> QED
  BY <1>2, <1>3, <1>4, <1>5, <1>6

(* An event about arguments finds a call: the current one, if no other.      *)
Aimed(w, e) == e.kind \in {"args delta", "args done"} => w.current # NoItem

(* While the answer knows the call of an event about arguments, such an      *)
(* event changes no call but for its arguments.                              *)
LEMMA WholeTells ==
  ASSUME NEW w \in States, Pointing(w), Open(w), NEW e, Telling(e), e.kind \notin {"malformed", "failed"},
         Aimed(w, e),
         NEW r, r = Answered(w, e)
  PROVE  r \in States /\ Pointing(r) /\ Open(r) /\ Same(w, r)
<1> DEFINE Intact(x) == x \in States /\ Same(w, x) /\ x.failed = w.failed /\ x.terminal = w.terminal
<1>1. \A text \in Texts : Intact(TextPut(w, text))
  <2> TAKE text \in Texts
  <2> DEFINE x == TextPut(w, text)
  <2>1. x \in States /\ Same(w, x) /\ x.failed = w.failed
    BY TextSet DEF TextPut
  <2>2. x.terminal = w.terminal
    BY DEF States, TextPut
  <2> QED
    BY <2>1, <2>2
<1>2. \A k \in 1 .. Len(w.calls), args \in Texts : Intact(ArgsPut(w, k, args))
  <2> TAKE k \in 1 .. Len(w.calls), args \in Texts
  <2> DEFINE x == ArgsPut(w, k, args)
  <2>1. SetsArgs(w, x, k, args)
    BY ArgsSetChanges DEF ArgsPut
  <2> HIDE DEF x
  <2>2. x \in States /\ Same(w, x) /\ x.failed = w.failed /\ x.terminal = w.terminal
    BY <2>1 DEF SetsArgs
  <2> QED
    BY <2>2 DEF x
<1>3. Intact(w)
  BY DEF Same
<1>4. \A x, y \in Texts : x \o y \in Texts
  BY ConcatProperties DEF Texts
<1>5. Intact(r)
  <2>1. CASE e.kind = "other"
    BY <1>3, <2>1, OtherReads
  <2>2. CASE e.kind \in {"text delta", "text done"}
    <3>1. w.text \in Texts /\ e.body \in Texts
      BY <2>2, StateParts DEF Telling
    <3>2. r = TextPut(w, w.text \o e.body) \/ r = TextPut(w, e.body)
      BY <2>2, TextReads
    <3> QED
      BY <1>1, <1>4, <3>1, <3>2
  <2>3. CASE e.kind \in {"args delta", "args done"}
    <3> DEFINE k == CallOfEvent(w, e)
    <3>1. e.body \in Texts /\ e.name \in Nat
      BY <2>3 DEF Telling
    <3>2. k \in 0 .. Len(w.calls)
      BY <3>1, CallOfEventIs
    <3>3. k # NoItem
      <4>1. \A i \in DOMAIN w.byOutput : w.byOutput[i] \in 1 .. Len(w.calls)
        BY PointsWithin
      <4>2. \A i \in DOMAIN w.byOutput : w.byOutput[i] # NoItem
        BY <4>1 DEF NoItem
      <4>3. w.current # NoItem
        BY <2>3 DEF Aimed
      <4> QED
        BY <4>2, <4>3 DEF CallOfEvent
    <3>4. k \in 1 .. Len(w.calls)
      BY <3>2, <3>3, StateParts DEF NoItem
    <3>5. w.calls[k].args \in Texts
      <4>1. w.calls \in Seq(Calls)
        BY StateParts
      <4> HIDE DEF k
      <4>2. w.calls[k] \in Calls
        BY <3>4, <4>1, ElementOfSeq
      <4> QED
        BY <4>2 DEF Calls
    <3>6. r = ArgsPut(w, k, w.calls[k].args \o e.body) \/ r = ArgsPut(w, k, e.body)
      BY <2>3, <3>3, ArgsReads
    <3> HIDE DEF k
    <3> QED
      BY <1>2, <1>4, <3>1, <3>4, <3>5, <3>6
  <2> QED
    BY <2>1, <2>2, <2>3 DEF Telling
<1> QED
  BY <1>5, SameKeeps DEF Open

-----------------------------------------------------------------------------
(* How the answer is related to the stream while both are open, t being what *)
(* upstream has sent.  They note the same items.  The stream takes a noted   *)
(* item for text or a call at once and the answer when the response is       *)
(* complete: until an item says something they are the same, and from then   *)
(* on the terminal event finds an item to resolve.  And the answer knows the *)
(* call of each event about arguments, and places items as the stream does.  *)
Partial(s) == \E i \in DOMAIN s.items : s.items[i].type \in Telltale

(* Upstream has begun an item that has something to say.                     *)
Tellable(t) == \E k \in DOMAIN answer : t[k].begun /\ answer[k].type \in Telltale

(* Upstream may still send arguments of item k. *)
Awaits(t, k) == answer[k].type = "call" /\ t[k].begun /\ ~t[k].done

(* The items noted come before the next place, or are at the places that     *)
(* the answer gives them.                                                    *)
Ordered(s) ==
  /\ "index" \notin labels => \A i \in DOMAIN s.items : i < s.next
  /\ "index" \in labels =>
       \A i \in DOMAIN s.items : i + 1 \in DOMAIN answer /\ s.items[i].type = answer[i + 1].type

(* The calls that the answer knows by name have the places that the          *)
(* stream gives them.                                                        *)
Following(c, w, t) ==
  /\ \A n \in DOMAIN w.byName :
       n \in DOMAIN c.byName /\ w.calls[w.byName[n]].at = c.calls[c.byName[n]].at
  /\ \A k \in DOMAIN answer : Awaits(t, k) => k \in DOMAIN w.byName
  /\ \A i \in DOMAIN w.byOutput : i < w.next

(* The invariant of the two readers while the response is open. *)
Reading(c, w, t) ==
  /\ w \in States /\ Pointing(w) /\ Open(w)
  /\ w.items = c.items /\ w.next = c.next
  /\ Partial(c) \/ w = c
  /\ Partial(c) => Tellable(t)
  /\ \A k \in DOMAIN answer : Awaits(t, k) => w.current # NoItem
  /\ Ordered(c)
  /\ labels = {"id"} => Following(c, w, t)

(* An event that changes texts and arguments only.                           *)
LEMMA ReadingSame ==
  ASSUME NEW c \in States, Pointing(c), NEW w, NEW t, Reading(c, w, t),
         NEW c2, Same(c, c2), NEW w2 \in States, Pointing(w2), Open(w2), Same(w, w2),
         Partial(c) \/ w2 = c2, NEW b,
         \A k \in DOMAIN answer : (b[k].begun <=> t[k].begun) /\ (b[k].done <=> t[k].done)
  PROVE  Reading(c2, w2, b)
<1>1. /\ c2.items = c.items /\ c2.next = c.next /\ c2.byName = c.byName
      /\ w2.items = w.items /\ w2.next = w.next /\ w2.byName = w.byName /\ w2.byOutput = w.byOutput
      /\ w2.current = w.current
  BY DEF Same
<1>2. (Partial(c2) <=> Partial(c)) /\ (Ordered(c) => Ordered(c2))
  BY <1>1 DEF Partial, Ordered
<1>3. (Tellable(t) => Tellable(b)) /\ \A k \in DOMAIN answer : Awaits(b, k) <=> Awaits(t, k)
  BY DEF Tellable, Awaits
<1>4. w \in States /\ Pointing(w)
  BY DEF Reading
<1>5. /\ \A n \in DOMAIN w.byName : w2.calls[w.byName[n]].at = w.calls[w.byName[n]].at
      /\ \A n \in DOMAIN c.byName : c2.calls[c.byName[n]].at = c.calls[c.byName[n]].at
  BY <1>4, PointsWithin DEF Same
<1>6. Following(c, w, t) => Following(c2, w2, b)
  BY <1>1, <1>3, <1>5 DEF Following
<1>7. /\ w2.items = c2.items /\ w2.next = c2.next
      /\ \A k \in DOMAIN answer : Awaits(t, k) => w.current # NoItem
      /\ Ordered(c) /\ (Partial(c) => Tellable(t))
      /\ labels = {"id"} => Following(c, w, t)
  BY <1>1 DEF Reading
<1>8. \A k \in DOMAIN answer : Awaits(b, k) => w2.current # NoItem
  BY <1>1, <1>3, <1>7
<1> QED
  BY <1>2, <1>3, <1>6, <1>7, <1>8 DEF Reading

(* Both readers place the item of an event alike.                            *)
LEMMA SamePlace ==
  ASSUME AnswerOK, LabelsOK, SentOK, NEW c \in States, Pointing(c), labels = {"id"} => Counting(c, sent),
         NEW w, Reading(c, w, sent),
         NEW k \in DOMAIN answer, ~sent[k].done, NEW e, Upon(e, k)
  PROVE  /\ OutputIndex(w, e) = OutputIndex(c, e)
         /\ Indexed(w, e).next = Indexed(c, e).next /\ c.next <= Indexed(c, e).next
         /\ "index" \in labels => OutputIndex(c, e) = k - 1
         /\ "index" \notin labels => OutputIndex(c, e) < Indexed(c, e).next
         /\ "index" \notin labels /\ ~Awaits(sent, k) => OutputIndex(c, e) = c.next
<1>1. w \in States /\ Pointing(w) /\ w.next = c.next /\ c.next \in Nat /\ k \in Nat \ {0}
  BY AnswerIs, StateParts DEF Reading
<1>2. e.item \in Items /\ e.item.name = Name(k) /\ e.at = Index(k) /\ e.item.name \in Nat
  BY DEF Upon, Items
<1>3. CASE "index" \in labels
  <2>1. e.at = k - 1 /\ e.at # NoIndex
    BY <1>1, <1>2, <1>3 DEF Index, NoIndex
  <2>2. OutputIndex(w, e) = k - 1 /\ OutputIndex(c, e) = k - 1
    BY <2>1 DEF OutputIndex
  <2>3. /\ Indexed(w, e).next = IF k - 1 >= w.next THEN k - 1 + 1 ELSE w.next
        /\ Indexed(c, e).next = IF k - 1 >= c.next THEN k - 1 + 1 ELSE c.next
    BY <1>1, <2>1 DEF Indexed, States
  <2> QED
    BY <1>1, <1>3, <2>2, <2>3
<1>4. ASSUME "index" \notin labels, Lookup(c, e.item.name) = NoItem, Lookup(w, e.item.name) = NoItem
      PROVE  /\ OutputIndex(w, e) = c.next /\ OutputIndex(c, e) = c.next
             /\ Indexed(w, e).next = c.next + 1 /\ Indexed(c, e).next = c.next + 1
  <2>1. e.at = NoIndex
    BY <1>2, <1>4 DEF Index
  <2>2. OutputIndex(w, e) = w.next /\ OutputIndex(c, e) = c.next
    BY <1>4, <2>1 DEF OutputIndex
  <2>3. Indexed(w, e).next = w.next + 1 /\ Indexed(c, e).next = c.next + 1
    BY <1>1, <1>4, <2>1 DEF Indexed, States
  <2> QED
    BY <1>1, <2>2, <2>3
<1>5. CASE "index" \notin labels /\ "id" \notin labels
  <2>1. e.item.name = NoName
    BY <1>2, <1>5 DEF Name
  <2>2. Lookup(c, e.item.name) = NoItem /\ Lookup(w, e.item.name) = NoItem
    BY <1>1, <1>2, <2>1, LookupIs
  <2> QED
    BY <1>1, <1>4, <1>5, <2>2
<1>6. CASE "index" \notin labels /\ "id" \in labels
  <2>1. labels = {"id"}
    BY <1>6 DEF LabelsOK
  <2>2. Counting(c, sent) /\ Following(c, w, sent) /\ e.item.name = k
    BY <1>2, <2>1 DEF Reading, Name
  <2>3. CASE Awaits(sent, k)
    <3>1. k \in DOMAIN w.byName /\ k \in DOMAIN c.byName
          /\ w.calls[w.byName[k]].at = c.calls[c.byName[k]].at
      BY <2>2, <2>3 DEF Following
    <3>2. w.byName[k] # NoItem /\ c.byName[k] # NoItem /\ c.byName[k] \in 1 .. Len(c.calls)
      BY <1>1, <3>1, PointsWithin DEF NoItem
    <3>3. Lookup(w, k) = w.byName[k] /\ Lookup(c, k) = c.byName[k]
      BY <3>1 DEF Lookup
    <3>4. e.at = NoIndex
      BY <1>2, <1>6 DEF Index
    <3>5. OutputIndex(w, e) = w.calls[w.byName[k]].at /\ OutputIndex(c, e) = c.calls[c.byName[k]].at
      BY <2>2, <3>2, <3>3, <3>4 DEF OutputIndex
    <3>6. Indexed(w, e) = w /\ Indexed(c, e) = c
      BY <2>2, <3>2, <3>3, <3>4 DEF Indexed
    <3>7. OutputIndex(c, e) < c.next
      <4>1. c.calls[c.byName[k]].at \in DOMAIN c.byOutput
        BY <2>2, <3>2 DEF Counting
      <4> QED
        BY <2>2, <3>5, <4>1 DEF Counting
    <3> QED
      BY <1>1, <1>6, <2>3, <3>1, <3>5, <3>6, <3>7
  <2>4. CASE ~Awaits(sent, k)
    <3>1. k \notin DOMAIN c.byName
      BY <2>2, <2>4 DEF Counting, Awaits
    <3>2. k \notin DOMAIN w.byName
      BY <2>2, <3>1 DEF Following
    <3>3. Lookup(c, e.item.name) = NoItem /\ Lookup(w, e.item.name) = NoItem
      BY <2>2, <3>1, <3>2 DEF Lookup
    <3> QED
      BY <1>1, <1>4, <1>6, <3>3
  <2> QED
    BY <2>3, <2>4
<1> QED
  BY <1>3, <1>5, <1>6

(* An event that tells texts or arguments. *)
LEMMA ReadingTold ==
  ASSUME NEW c, NEW w, NEW t, ChatInv(c, t), Open(c), Reading(c, w, t),
         NEW e, Telling(e), e.kind \notin {"malformed", "failed"}, Aimed(w, e), ~Streamed(c, e).failed, NEW b,
         \A k \in DOMAIN answer : (b[k].begun <=> t[k].begun) /\ (b[k].done <=> t[k].done)
  PROVE  Reading(Streamed(c, e), Answered(w, e), b)
<1> DEFINE c2 == Streamed(c, e)
           w2 == Answered(w, e)
<1>1. c \in States /\ Pointing(c) /\ w \in States /\ Pointing(w) /\ Open(w) /\ (Partial(c) \/ w = c)
  BY DEF ChatInv, Reading
<1>2. Same(c, c2)
  BY <1>1, TellingSound DEF Streamed
<1>3. w2 \in States /\ Pointing(w2) /\ Open(w2) /\ Same(w, w2)
  BY <1>1, WholeTells
<1>4. w = c => w2 = c2
  <2>1. e.kind \in {"text delta", "text done", "args delta", "args done", "other"}
    BY DEF Telling
  <2>2. Answered(c, e) = Streamed(c, e)
    BY <1>1, <2>1, ReadAlike
  <2> QED
    BY <2>2
<1> HIDE DEF c2, w2
<1>5. Reading(c2, w2, b)
  BY <1>1, <1>2, <1>3, <1>4, ReadingSame
<1> QED
  BY <1>5 DEF c2, w2

(* A tool call that both readers meet for the first time.                    *)
LEMMA FollowingNew ==
  ASSUME NEW c \in States, Pointing(c), NEW w \in States, Pointing(w), Counting(c, sent), Following(c, w, sent),
         w.next = c.next, NEW e, e.item \in Items, e.at = NoIndex, NEW k \in DOMAIN answer, e.item.name = k,
         k # NoName, k \notin DOMAIN c.byName, NEW b, Begins(b, k),
         NEW c2, c2 = Ensured(Indexed(c, e), e.item, OutputIndex(c, e)),
         NEW w2, w2 = Ensured(Indexed(w, e), e.item, OutputIndex(w, e))
  PROVE  Following(c2, w2, b)
<1> DEFINE at == c.next
           ci == Indexed(c, e)
           wi == Indexed(w, e)
           p == Len(c.calls) + 1
           q == Len(w.calls) + 1
<1>1. OutputIndex(c, e) = at /\ ci.next = at + 1 /\ CallFor(c, e.item, at) = p
  BY NextPlace
<1>2. k \notin DOMAIN w.byName /\ w.next \in Nat /\ at \in Nat
  BY StateParts DEF Following
<1>3. Lookup(w, e.item.name) = NoItem
  BY <1>2 DEF Lookup
<1>4. OutputIndex(w, e) = at /\ wi.next = at + 1
  BY <1>2, <1>3 DEF OutputIndex, Indexed, States
<1>5. CallFor(w, e.item, at) = q
  <2>1. at \notin DOMAIN w.byOutput
    BY <1>2 DEF Following
  <2> QED
    BY <1>3, <2>1 DEF CallFor
<1>6. /\ ci \in States /\ ci.calls = c.calls /\ ci.byName = c.byName /\ ci.byOutput = c.byOutput
      /\ ci.current = c.current
      /\ wi \in States /\ wi.calls = w.calls /\ wi.byName = w.byName /\ wi.byOutput = w.byOutput
      /\ wi.current = w.current
  BY IndexedIs
<1> HIDE DEF ci, wi
<1>7. Pointing(ci) /\ Pointing(wi) /\ CallFor(ci, e.item, at) = p /\ CallFor(wi, e.item, at) = q
  BY <1>1, <1>5, <1>6, SameFinds
<1>8. /\ \A j \in 1 .. Len(c.calls) : c2.calls[j] = c.calls[j]
      /\ c2.calls[p].at = at
      /\ DOMAIN c2.byName = DOMAIN c.byName \cup {k} /\ c2.byName[k] = p
      /\ \A n \in DOMAIN c.byName : n # k => c2.byName[n] = c.byName[n]
  <2>1. c2 = Ensured(ci, e.item, at)
    BY ONLY <1>1, c2 = Ensured(Indexed(c, e), e.item, OutputIndex(c, e)) DEF ci
  <2>2. p = Len(ci.calls) + 1
    BY <1>6
  <2> HIDE DEF p, at
  <2>3. ci \in States /\ at \in Nat
    BY <1>2, <1>6
  <2>4. AddsCall(ci, c2, e.item, at, p)
    BY <1>7, <2>1, <2>2, <2>3, EnsuredNext
  <2>5. /\ \A j \in 1 .. Len(ci.calls) : c2.calls[j] = ci.calls[j]
        /\ c2.calls[p].at = at
        /\ DOMAIN c2.byName = DOMAIN ci.byName \cup {k} /\ c2.byName[k] = p
        /\ \A n \in DOMAIN ci.byName : n # k => c2.byName[n] = ci.byName[n]
    BY <2>4 DEF AddsCall
  <2> QED
    BY <1>6, <2>5
<1>9. /\ \A j \in 1 .. Len(w.calls) : w2.calls[j] = w.calls[j]
      /\ w2.calls[q].at = at
      /\ DOMAIN w2.byName = DOMAIN w.byName \cup {k} /\ w2.byName[k] = q
      /\ \A n \in DOMAIN w.byName : n # k => w2.byName[n] = w.byName[n]
      /\ DOMAIN w2.byOutput = DOMAIN w.byOutput \cup {at}
      /\ w2.next = at + 1
  <2>1. w2 = Ensured(wi, e.item, at)
    BY ONLY <1>4, w2 = Ensured(Indexed(w, e), e.item, OutputIndex(w, e)) DEF wi
  <2>2. q = Len(wi.calls) + 1
    BY <1>6
  <2>3. wi.next = at + 1
    BY <1>4 DEF wi
  <2>4. w2.next = wi.next
    BY <1>2, <1>6, <1>7, <2>1, EnsuredKeeps
  <2> HIDE DEF q, at
  <2>5. /\ \A j \in 1 .. Len(wi.calls) : w2.calls[j] = wi.calls[j]
        /\ w2.calls[q].at = at
        /\ DOMAIN w2.byName = DOMAIN wi.byName \cup {k} /\ w2.byName[k] = q
        /\ \A n \in DOMAIN wi.byName : n # k => w2.byName[n] = wi.byName[n]
        /\ DOMAIN w2.byOutput = DOMAIN wi.byOutput \cup {at}
    <3>1. at \in Nat /\ wi \in States
      BY <1>2, <1>6
    <3>2. AddsCall(wi, w2, e.item, at, q)
      BY <1>7, <2>1, <2>2, <3>1, EnsuredNext
    <3> QED
      BY <3>2 DEF AddsCall
  <2> QED
    BY <1>6, <2>3, <2>4, <2>5
<1>10. /\ \A n \in DOMAIN w.byName : w.byName[n] \in 1 .. Len(w.calls)
       /\ \A n \in DOMAIN c.byName : c.byName[n] \in 1 .. Len(c.calls)
  BY PointsWithin
<1>11. ASSUME NEW n \in DOMAIN w2.byName
       PROVE  n \in DOMAIN c2.byName /\ w2.calls[w2.byName[n]].at = c2.calls[c2.byName[n]].at
  <2>1. CASE n = k
    BY <1>8, <1>9, <2>1
  <2>2. CASE n # k
    <3>1. n \in DOMAIN w.byName
      BY <1>9, <1>11, <2>2
    <3>2. n \in DOMAIN c.byName /\ w.calls[w.byName[n]].at = c.calls[c.byName[n]].at
      BY <3>1 DEF Following
    <3>3. w2.calls[w2.byName[n]] = w.calls[w.byName[n]]
      BY <1>9, <1>10, <2>2, <3>1
    <3>4. n \in DOMAIN c2.byName /\ c2.calls[c2.byName[n]] = c.calls[c.byName[n]]
      BY <1>8, <1>10, <2>2, <3>2
    <3> QED
      BY <3>2, <3>3, <3>4
  <2> QED
    BY <2>1, <2>2
<1>12. ASSUME NEW i \in DOMAIN answer, Awaits(b, i) PROVE i \in DOMAIN w2.byName
  <2>1. i = k \/ Awaits(sent, i)
    BY <1>12 DEF Begins, Awaits
  <2> QED
    BY <1>9, <2>1 DEF Following
<1>13. ASSUME NEW i \in DOMAIN w2.byOutput PROVE i < w2.next
  <2>1. i = at \/ (i \in DOMAIN w.byOutput /\ i < at)
    BY <1>9, <1>13 DEF Following
  <2>2. i \in Nat
    <3>1. DOMAIN w.byOutput \subseteq Nat
      BY StateParts, MapIs
    <3> QED
      BY <1>2, <2>1, <3>1
  <2> HIDE DEF at
  <2> QED
    BY <1>2, <1>9, <2>1, <2>2
<1> QED
  BY <1>11, <1>12, <1>13 DEF Following

(* What upstream has sent matters little to a reader that stays as it is.    *)
LEMMA ReadingOn ==
  ASSUME NEW c, NEW w, NEW t, Reading(c, w, t), NEW b, Tellable(t) => Tellable(b),
         \A k \in DOMAIN answer : Awaits(b, k) => Awaits(t, k)
  PROVE  Reading(c, w, b)
<1>1. Following(c, w, t) => Following(c, w, b)
  BY DEF Following
<1>2. (Partial(c) => Tellable(t)) /\ \A k \in DOMAIN answer : Awaits(t, k) => w.current # NoItem
  BY DEF Reading
<1>3. (Partial(c) => Tellable(b)) /\ \A k \in DOMAIN answer : Awaits(b, k) => w.current # NoItem
  BY <1>2
<1> QED
  BY <1>1, <1>3 DEF Reading

(* What upstream has begun it has begun from then on; an item that is        *)
(* done, or that is no call, awaits nothing.                                 *)
LEMMA BeginsMore ==
  ASSUME AnswerOK, SentOK, NEW k \in DOMAIN answer, NEW b, Begins(b, k)
  PROVE  /\ Tellable(sent) => Tellable(b)
         /\ answer[k].type \in Telltale => Tellable(b)
         /\ answer[k].type # "call" \/ b[k].done =>
              \A i \in DOMAIN answer : Awaits(b, i) => Awaits(sent, i) /\ i # k
BY DEF Begins, Tellable, Awaits

(* response.output_item.added and response.output_item.done. *)
Adding(e) == e.kind = "item added"

(* An item begins. *)
LEMMA ReadingAdded ==
  ASSUME AnswerOK, LabelsOK, SentOK, NEW c, ChatInv(c, sent), Open(c), NEW w, Reading(c, w, sent),
         NEW k \in DOMAIN answer, MayBegin(k), NEW e, Adding(e), Upon(e, k),
         ~Streamed(c, e).failed, NEW b, Begins(b, k)
  PROVE  Reading(Streamed(c, e), Answered(w, e), b)
<1>1. /\ c \in States /\ Pointing(c) /\ w \in States /\ Pointing(w) /\ Open(w) /\ (Partial(c) \/ w = c)
      /\ w.items = c.items /\ Ordered(c) /\ (Partial(c) => Tellable(sent)) /\ w.next = c.next
      /\ labels = {"id"} => Counting(c, sent) /\ Following(c, w, sent)
  BY DEF ChatInv, Reading
<1>2. e.item \in Items /\ e.item.name = Name(k) /\ e.item.type = answer[k].type /\ e.at = Index(k)
      /\ e.at \in Nat \cup {NoIndex} /\ k \in Nat \ {0}
  <2>1. k \in Nat \ {0}
    BY AnswerIs
  <2>2. Index(k) \in Nat \cup {NoIndex}
    BY ONLY <2>1 DEF Index
  <2> QED
    BY <2>1, <2>2 DEF Upon
<1>3. ~sent[k].begun /\ ~sent[k].done
  BY DEF MayBegin, SentOK
<1>4. /\ Streamed(c, e) = IF e.item.type # "call" THEN c ELSE Ensured(Indexed(c, e), e.item, OutputIndex(c, e))
      /\ Answered(w, e) = IF e.item.type # "call" THEN w ELSE Ensured(Indexed(w, e), e.item, OutputIndex(w, e))
      /\ w = c => Answered(w, e) = Streamed(c, e)
  <2>1. \A s : Open(s) => Answered(s, e) = IF e.item.type # "call" THEN s ELSE Ensured(Indexed(s, e), e.item, OutputIndex(s, e))
    BY AddedReads DEF Adding
  <2>2. Answered(c, e) = Streamed(c, e)
    BY <1>1, ReadAlike DEF Adding
  <2> QED
    BY <1>1, <2>1, <2>2
<1>5. CASE answer[k].type # "call"
  <2>1. Reading(c, w, b)
    BY <1>5, BeginsMore, ReadingOn
  <2> QED
    BY <1>2, <1>4, <1>5, <2>1
<1>6. CASE answer[k].type = "call"
  <2> DEFINE at == OutputIndex(c, e)
             ci == Indexed(c, e)
             wi == Indexed(w, e)
             c2 == Streamed(c, e)
             w2 == Answered(w, e)
  <2>1. OutputIndex(w, e) = at /\ wi.next = ci.next /\ c.next <= ci.next
    BY <1>1, <1>3, SamePlace
  <2>2. c2 = Ensured(ci, e.item, at) /\ w2 = Ensured(wi, e.item, OutputIndex(w, e)) /\ (Partial(c) \/ w2 = c2)
    BY <1>1, <1>2, <1>4, <1>6
  <2>3. /\ at \in Nat /\ ci \in States /\ ci.calls = c.calls /\ ci.byName = c.byName /\ ci.byOutput = c.byOutput
        /\ ci.current = c.current /\ ci.items = c.items
        /\ wi \in States /\ wi.calls = w.calls /\ wi.byName = w.byName /\ wi.byOutput = w.byOutput
        /\ wi.current = w.current /\ wi.items = w.items /\ wi.failed = w.failed /\ wi.terminal = w.terminal
    BY <1>1, <1>2, IndexedIs
  <2>4. labels = {"id"} => Following(c2, w2, b)
    <3> SUFFICES ASSUME labels = {"id"} PROVE Following(c2, w2, b)
      OBVIOUS
    <3>1. e.item.name = k /\ e.at = NoIndex /\ k # NoName
      BY <1>2 DEF Name, Index, NoName
    <3>2. k \notin DOMAIN c.byName
      BY <1>1, <1>3 DEF Counting
    <3>3. Counting(c, sent) /\ Following(c, w, sent) /\ w.next = c.next
      BY <1>1
    <3> QED
      BY <1>1, <1>2, <2>2, <3>1, <3>2, <3>3, FollowingNew
  <2> HIDE DEF ci, wi, c2, w2, at
  <2>5. Pointing(ci) /\ Pointing(wi)
    BY <1>1, <2>3, SameFinds
  <2>6. /\ w2 \in States /\ Pointing(w2) /\ w2.items = w.items /\ w2.next = wi.next /\ Open(w2)
        /\ w2.current = CallFor(wi, e.item, at) /\ w2.current # NoItem
    <3>1. /\ w2.current = CallFor(wi, e.item, at) /\ w2.items = wi.items /\ w2.next = wi.next
          /\ w2.failed = wi.failed /\ w2.terminal = wi.terminal
      BY <1>2, <2>1, <2>2, <2>3, <2>5, EnsuredKeeps
    <3>2. w2 \in States /\ Pointing(w2)
      BY <1>2, <2>1, <2>2, <2>3, <2>5, EnsuredTyped, EnsuredPoints
    <3>3. CallFor(wi, e.item, at) # NoItem
      BY <1>2, <2>3, <2>5, CallForIs DEF NoItem
    <3> QED
      BY <1>1, <2>3, <3>1, <3>2, <3>3 DEF Open
  <2>7. c2.items = c.items /\ c2.next = ci.next
    BY <1>2, <2>2, <2>3, <2>5, EnsuredKeeps
  <2>8. Ordered(c2) /\ (Partial(c2) <=> Partial(c))
    <3>1. \A i \in DOMAIN c.items : i \in Nat
      <4>1. DOMAIN c.items \subseteq Nat
        BY <1>1, StateParts, MapIs
      <4> QED
        BY <4>1
    <3>2. c.next \in Nat /\ ci.next \in Nat
      BY <1>1, <2>3, StateParts
    <3>3. \A i \in DOMAIN c.items : i < c.next => i < ci.next
      BY <2>1, <3>1, <3>2
    <3> QED
      BY <1>1, <2>7, <3>3 DEF Ordered, Partial
  <2>9. Tellable(sent) => Tellable(b)
    BY BeginsMore
  <2>10. Reading(c2, w2, b)
    BY <1>1, <2>1, <2>2, <2>4, <2>6, <2>7, <2>8, <2>9 DEF Reading
  <2> QED
    BY <2>10 DEF c2, w2
<1> QED
  BY <1>5, <1>6

Finishing(e) == e.kind = "item done"

(* What both readers make of an item that is done.                           *)
LEMMA DoneReads ==
  ASSUME NEW c \in States, Pointing(c), Open(c), NEW w, Open(w), NEW e, Finishing(e),
         e.item \in Items, e.at \in Nat \cup {NoIndex}
  PROVE  /\ Same(Recorded(c, e), Streamed(c, e))
         /\ Recorded(c, e).items = Put(c.items, OutputIndex(c, e), e.item)
         /\ Recorded(c, e).next = Indexed(c, e).next
         /\ e.item.type = "reasoning" => Streamed(c, e) = Noted(c, e)
         /\ Answered(w, e) = Noted(w, e)
<1>1. Answered(w, e) = Noted(w, e)
  BY ItemDoneReads DEF Finishing
<1>2. e.item.type = "reasoning" => Streamed(c, e) = Noted(c, e)
  BY DEF Finishing, Streamed, Apply, Open, Noted, Quiet, Update
<1>3. Same(Recorded(c, e), Streamed(c, e))
  BY DoneEvent DEF Finishing, Recorded, Streamed
<1> DEFINE m == Noted(c, e)
           at == OutputIndex(c, e)
<1>4. /\ m \in States /\ m.calls = c.calls /\ m.byName = c.byName /\ m.byOutput = c.byOutput
      /\ m.current = c.current /\ m.items = Put(c.items, at, e.item) /\ at \in Nat
      /\ m.next = Indexed(c, e).next
  BY NotedIs, IndexedIs
<1>5. Recorded(c, e) \in {m, Ensured(m, e.item, at)}
  BY DEF Recorded
<1> HIDE DEF m, at
<1>6. Pointing(m)
  BY <1>4, SameFinds
<1>7. Recorded(c, e).items = m.items /\ Recorded(c, e).next = m.next
  BY <1>4, <1>5, <1>6, EnsuredKeeps
<1>8. Recorded(c, e).items = Put(c.items, at, e.item) /\ Recorded(c, e).next = Indexed(c, e).next
  BY <1>4, <1>7
<1> QED
  BY <1>1, <1>2, <1>3, <1>8 DEF at

(* The calls that were known stay where they were.                           *)
LEMMA RecordedFollows ==
  ASSUME AnswerOK, SentOK, labels = {"id"}, NEW c \in States, Pointing(c), Counting(c, sent),
         NEW k \in DOMAIN answer, Arrives(k), NEW e, Upon(e, k), NEW b, Begins(b, k),
         NEW x, x = Recorded(c, e)
  PROVE  \A n \in DOMAIN c.byName : n \in DOMAIN x.byName /\ x.calls[x.byName[n]].at = c.calls[c.byName[n]].at
<1>1. \A n \in DOMAIN c.byName : c.byName[n] \in 1 .. Len(c.calls)
  BY PointsWithin
<1>2. CASE answer[k].type # "call" \/ ~sent[k].begun
  <2> DEFINE p == Len(c.calls) + 1
  <2>1. Grows(c, x, k, p) /\ k \notin DOMAIN c.byName
    BY <1>2, RecordedNew
  <2> HIDE DEF p
  <2> QED
    BY <1>1, <2>1 DEF Grows
<1>3. CASE answer[k].type = "call" /\ sent[k].begun
  <2>1. Keeps(c, x)
    BY <1>3, RecordedAgain
  <2> QED
    BY <1>1, <2>1 DEF Keeps
<1> QED
  BY <1>2, <1>3

(* An item is done. *)
LEMMA ReadingDone ==
  ASSUME AnswerOK, LabelsOK, SentOK, NEW c, ChatInv(c, sent), Open(c), NEW w, Reading(c, w, sent),
         NEW k \in DOMAIN answer, Arrives(k), ~sent[k].done, NEW e, Finishing(e), Upon(e, k),
         NEW b, Begins(b, k), b[k].done \/ b = sent
  PROVE  Reading(Streamed(c, e), Answered(w, e), b)
<1> DEFINE at == OutputIndex(c, e)
           item == e.item
           x == Recorded(c, e)
           c2 == Streamed(c, e)
           w2 == Answered(w, e)
           next == Indexed(c, e).next
<1>1. /\ c \in States /\ Pointing(c) /\ w \in States /\ Pointing(w) /\ Open(w) /\ (Partial(c) \/ w = c)
      /\ w.items = c.items /\ Ordered(c) /\ (Partial(c) => Tellable(sent)) /\ w.next = c.next
      /\ \A i \in DOMAIN answer : Awaits(sent, i) => w.current # NoItem
      /\ labels = {"id"} => Counting(c, sent) /\ Following(c, w, sent)
  BY DEF ChatInv, Reading
<1>2. item \in Items /\ item.type = answer[k].type /\ e.at \in Nat \cup {NoIndex} /\ k \in Nat \ {0}
  <2>1. k \in Nat \ {0}
    BY AnswerIs
  <2>2. Index(k) \in Nat \cup {NoIndex}
    BY ONLY <2>1 DEF Index
  <2> QED
    BY <2>1, <2>2 DEF Upon
<1>3. /\ OutputIndex(w, e) = at /\ Indexed(w, e).next = next /\ c.next <= next
      /\ "index" \in labels => at = k - 1
      /\ "index" \notin labels => at < next
      /\ "index" \notin labels /\ ~Awaits(sent, k) => at = c.next
  BY <1>1, SamePlace
<1>4. /\ Same(x, c2) /\ x.items = Put(c.items, at, item) /\ x.next = next
      /\ item.type = "reasoning" => c2 = Noted(c, e)
      /\ w2 = Noted(w, e)
  BY <1>1, <1>2, DoneReads
<1>5. /\ w2 \in States /\ w2.calls = w.calls /\ w2.byName = w.byName /\ w2.byOutput = w.byOutput
      /\ w2.current = w.current /\ w2.next = next /\ w2.items = Put(w.items, at, item)
      /\ w2.failed = w.failed /\ w2.terminal = w.terminal
  BY <1>1, <1>2, <1>3, <1>4, NotedIs
<1>6. at \in Nat /\ c.next \in Nat /\ next \in Nat /\ \A i \in DOMAIN c.items : i \in Nat
  <2>1. DOMAIN c.items \subseteq Nat /\ c.next \in Nat
    BY <1>1, StateParts, MapIs
  <2>2. at \in Nat /\ Indexed(c, e) \in States
    BY <1>1, <1>2, IndexedIs
  <2>3. next \in Nat
    BY <2>2, StateParts
  <2> QED
    BY <2>1, <2>2, <2>3
<1>7. ASSUME labels = {"id"}
      PROVE  \A n \in DOMAIN c.byName : n \in DOMAIN x.byName /\ x.calls[x.byName[n]].at = c.calls[c.byName[n]].at
  BY <1>1, <1>7, RecordedFollows
<1>8. x \in States /\ Pointing(x)
  BY <1>1, <1>2, RecordedIs
<1> HIDE DEF at, x, c2, w2, next
<1>9. Pointing(w2) /\ Open(w2)
  BY <1>1, <1>5, SameFinds DEF Open
<1>10. c2.items = Put(c.items, at, item) /\ c2.next = next /\ c2.byName = x.byName
       /\ \A n \in DOMAIN x.byName : c2.calls[x.byName[n]].at = x.calls[x.byName[n]].at
  <2>1. \A n \in DOMAIN x.byName : x.byName[n] \in 1 .. Len(x.calls)
    BY <1>8, PointsWithin
  <2> QED
    BY <1>4, <2>1 DEF Same
<1> HIDE DEF item
<1>11. /\ DOMAIN c2.items = DOMAIN c.items \cup {at} /\ c2.items[at] = item
       /\ \A i \in DOMAIN c.items : i # at => c2.items[i] = c.items[i]
  <2>1. Notes(c, c2, at, item)
    BY <1>10, PutNotes
  <2> QED
    BY <2>1 DEF Notes
<1>12. Ordered(c2)
  <2>1. ASSUME "index" \notin labels, NEW i \in DOMAIN c2.items PROVE i < c2.next
    <3>1. i = at \/ (i \in DOMAIN c.items /\ i < c.next)
      BY <1>1, <1>11, <2>1 DEF Ordered
    <3> QED
      BY <1>3, <1>6, <1>10, <2>1, <3>1
  <2>2. ASSUME "index" \in labels, NEW i \in DOMAIN c2.items
        PROVE  i + 1 \in DOMAIN answer /\ c2.items[i].type = answer[i + 1].type
    <3>1. at = k - 1 /\ at + 1 = k
      BY <1>2, <1>3, <2>2
    <3>2. CASE i = at
      BY <1>2, <1>11, <3>1, <3>2
    <3>3. CASE i # at
      <4>1. i \in DOMAIN c.items /\ c2.items[i] = c.items[i]
        BY <1>11, <2>2, <3>3
      <4> QED
        BY <1>1, <2>2, <4>1 DEF Ordered
    <3> QED
      BY <3>2, <3>3
  <2> QED
    BY <2>1, <2>2 DEF Ordered
<1>13. Partial(c2) \/ w2 = c2
  <2> SUFFICES ASSUME ~Partial(c2) PROVE w2 = c2
    OBVIOUS
  <2>1. item.type \notin Telltale
    BY <1>11 DEF Partial
  <2>2. item.type = "reasoning" /\ answer[k].type = "reasoning"
    BY <1>2, <2>1 DEF Items, Telltale
  <2>3. ~Partial(c)
    <3> SUFFICES ASSUME NEW i \in DOMAIN c.items, c.items[i].type \in Telltale PROVE FALSE
      BY DEF Partial
    <3>1. i = at
      BY <1>11 DEF Partial
    <3>2. CASE "index" \in labels
      <4>1. c.items[i].type = answer[i + 1].type /\ i + 1 = k
        BY <1>1, <1>2, <1>3, <3>1, <3>2 DEF Ordered
      <4> QED
        BY <2>2, <4>1 DEF Telltale
    <3>3. CASE "index" \notin labels
      <4>1. at = c.next /\ i < c.next
        BY <1>1, <1>3, <2>2, <3>3 DEF Awaits, Ordered
      <4> QED
        BY <1>6, <3>1, <4>1
    <3> QED
      BY <3>2, <3>3
  <2>4. w = c
    BY <1>1, <2>3
  <2> QED
    BY <1>4, <2>2, <2>4
<1>14. Partial(c2) => Tellable(b)
  <2>1. item.type \in Telltale => Tellable(b)
    BY <1>2, BeginsMore
  <2>2. Partial(c2) => Partial(c) \/ item.type \in Telltale
    BY <1>11 DEF Partial
  <2>3. Tellable(sent) => Tellable(b)
    BY BeginsMore
  <2> QED
    BY <1>1, <2>1, <2>2, <2>3
<1>15. \A i \in DOMAIN answer : Awaits(b, i) => Awaits(sent, i)
  BY BeginsMore
<1>16. \A i \in DOMAIN answer : Awaits(b, i) => w2.current # NoItem
  BY <1>1, <1>5, <1>15
<1>17. ASSUME labels = {"id"} PROVE Following(c2, w2, b)
  <2>1. Following(c, w, sent)
    BY <1>1, <1>17
  <2>2. ASSUME NEW n \in DOMAIN w2.byName
        PROVE  n \in DOMAIN c2.byName /\ w2.calls[w2.byName[n]].at = c2.calls[c2.byName[n]].at
    <3>1. n \in DOMAIN c.byName /\ w2.calls[w2.byName[n]].at = c.calls[c.byName[n]].at
      BY <1>5, <2>1, <2>2 DEF Following
    <3>2. n \in DOMAIN x.byName /\ x.calls[x.byName[n]].at = c.calls[c.byName[n]].at
      BY <1>7, <1>17, <3>1
    <3> QED
      BY <1>10, <3>1, <3>2
  <2>3. \A i \in DOMAIN answer : Awaits(b, i) => i \in DOMAIN w2.byName
    BY <1>5, <1>15, <2>1 DEF Following
  <2>4. \A i \in DOMAIN w2.byOutput : i < w2.next
    <3>1. DOMAIN w.byOutput \subseteq Nat
      BY <1>1, StateParts, MapIs
    <3>2. \A i \in DOMAIN w.byOutput : i \in Nat /\ i < c.next
      BY <1>1, <2>1, <3>1 DEF Following
    <3> QED
      BY <1>3, <1>5, <1>6, <3>2
  <2> QED
    BY <2>2, <2>3, <2>4 DEF Following
<1>18. w2.items = c2.items /\ w2.next = c2.next
  BY <1>1, <1>5, <1>10
<1>19. Reading(c2, w2, b)
  BY <1>5, <1>9, <1>12, <1>13, <1>14, <1>16, <1>17, <1>18 DEF Reading
<1> QED
  BY <1>19 DEF c2, w2

(* None of these events is the end of the response.                          *)
LEMMA ToldGoesOn ==
  ASSUME NEW s \in States, Open(s), NEW e, Telling(e), e.kind \notin {"malformed", "failed"}, ~Streamed(s, e).failed
  PROVE  Open(Streamed(s, e))
<1> DEFINE k == CallOfEvent(s, e)
<1>1. /\ \A text : TextPut(s, text).terminal = s.terminal
      /\ \A args : ArgsPut(s, k, args).terminal = s.terminal
  BY DEF TextPut, ArgsPut, States
<1>2. Failure(s).state.failed
  BY DEF Failure, Quiet, Update, States
<1>3. e.kind \in {"text delta", "text done", "args delta", "args done", "other"}
  BY DEF Telling
<1>4. Streamed(s, e) = Answered(s, e)
  BY <1>3, ReadAlike
<1>5. e.kind \in {"args delta", "args done"} => k # NoItem
  <2>1. e.kind \in {"args delta", "args done"} /\ k = NoItem => Streamed(s, e) = Failure(s).state
    BY DEF Streamed, Apply, Open
  <2> HIDE DEF k
  <2> QED
    BY <1>2, <2>1
<1>6. \/ Answered(s, e) = s
      \/ \E text : Answered(s, e) = TextPut(s, text)
      \/ \E args : Answered(s, e) = ArgsPut(s, k, args)
  <2>1. CASE e.kind = "other"
    BY <2>1, OtherReads
  <2>2. CASE e.kind \in {"text delta", "text done"}
    BY <2>2, TextReads
  <2>3. CASE e.kind \in {"args delta", "args done"}
    <3>1. k # NoItem
      BY <1>5, <2>3
    <3> DEFINE args == IF e.kind = "args delta" THEN s.calls[k].args \o e.body ELSE e.body
    <3>2. Answered(s, e) = ArgsPut(s, k, args)
      BY <2>3, <3>1, ArgsReads
    <3> HIDE DEF k, args
    <3> QED
      BY <3>2
  <2> QED
    BY <1>3, <2>1, <2>2, <2>3
<1> HIDE DEF k
<1>7. Answered(s, e).terminal = s.terminal
  BY <1>1, <1>6
<1> QED
  BY <1>4, <1>7 DEF Open

(* An item that begins leaves the response open, *)
LEMMA AddedGoesOn ==
  ASSUME NEW s \in States, Pointing(s), Open(s), NEW e, Adding(e), e.item \in Items, e.at \in Nat \cup {NoIndex}
  PROVE  Open(Streamed(s, e))
<1> DEFINE m == Indexed(s, e)
           at == OutputIndex(s, e)
<1>1. /\ m \in States /\ m.calls = s.calls /\ m.byName = s.byName /\ m.byOutput = s.byOutput
      /\ m.current = s.current /\ m.failed = s.failed /\ m.terminal = s.terminal /\ at \in Nat
  BY IndexedIs
<1>2. Streamed(s, e) \in {s, Ensured(m, e.item, at)}
  BY AddedEvent DEF Adding, Streamed
<1> HIDE DEF m, at
<1>3. Pointing(m)
  BY <1>1, SameFinds
<1>4. Ensured(m, e.item, at).failed = m.failed /\ Ensured(m, e.item, at).terminal = m.terminal
  BY <1>1, <1>3, EnsuredKeeps
<1> QED
  BY <1>1, <1>2, <1>4 DEF Open

(* and so does one that is done, unless it contradicts what was told. *)
LEMMA DoneGoesOn ==
  ASSUME NEW s \in States, Pointing(s), Open(s), NEW e, Finishing(e), e.item \in Items, e.at \in Nat \cup {NoIndex},
         ~Streamed(s, e).failed
  PROVE  Open(Streamed(s, e))
<1> DEFINE m == Noted(s, e)
           at == OutputIndex(s, e)
           item == e.item
           r == Streamed(s, e)
<1>1. /\ m \in States /\ m.calls = s.calls /\ m.byName = s.byName /\ m.byOutput = s.byOutput
      /\ m.current = s.current /\ m.failed = s.failed /\ m.terminal = s.terminal /\ at \in Nat
  BY NotedIs, IndexedIs
<1>2. /\ item.type = "reasoning" => r = m
      /\ item.type = "message" => Apply(s, e, TRUE) = TextSnapshot(m, item.body, TRUE)
      /\ item.type = "call" => Apply(s, e, TRUE) = ToolSnapshot(m, item, at)
  BY ApplyDone, DoneReads DEF Finishing
<1>3. r = Apply(s, e, TRUE).state /\ item \in Items
  BY DEF Streamed
<1> HIDE DEF m, at, item, r
<1>4. Pointing(m)
  BY <1>1, SameFinds
<1>5. ~r.failed
  BY DEF r
<1>6. ASSUME item.type = "reasoning" PROVE r.terminal = m.terminal
  BY <1>2, <1>6
<1>7. ASSUME item.type = "message" PROVE r.terminal = m.terminal
  <2>1. Failure(m).state.failed
    BY <1>1, <1>4, SoundFailure
  <2>2. r = TextSnapshot(m, item.body, TRUE).state
    BY <1>2, <1>3, <1>7
  <2>3. r = [m EXCEPT !.text = item.body] \/ r = Failure(m).state
    BY <2>2 DEF TextSnapshot, Update
  <2>4. r = [m EXCEPT !.text = item.body]
    BY <1>5, <2>1, <2>3
  <2> QED
    BY <1>1, <2>4 DEF States
<1>8. ASSUME item.type = "call" PROVE r.terminal = m.terminal
  <2> DEFINE x == [at |-> at, item |-> item]
  <2>1. x \in Listings /\ x.item = item /\ x.at = at
    BY <1>1, <1>3 DEF Listings
  <2> HIDE DEF x
  <2>2. ToolSnapshot(m, x.item, x.at).state = r
    BY <1>2, <1>3, <1>8, <2>1
  <2>3. r = TakeStep(m, x)
    BY <1>1, <1>4, <1>5, <2>1, <2>2, ToolSnapshotTakes
  <2> QED
    BY <1>1, <1>4, <2>1, <2>3, TakeStepIs
<1>9. item.type \in {"reasoning", "message", "call"}
  BY <1>3 DEF Items
<1>10. r.terminal = s.terminal
  BY <1>1, <1>6, <1>7, <1>8, <1>9
<1> QED
  BY <1>5, <1>10 DEF Open, r

(* The terminal event. *)
LEMMA ReadingEnds ==
  ASSUME NEW c, ChatInv(c, sent), Open(c), NEW w, Reading(c, w, sent),
         NEW e, e.kind = "terminal", e.output \in Seq(Items), e.reason \in {"completed", "length", "content_filter"},
         InOrder(e.output),
         e.output = <<>> \/ NamesBegun(e.output),
         ~Streamed(c, e).failed
  PROVE  Streamed(c, e).terminal /\ Agree(Streamed(c, e), Answered(w, e))
<1>1. /\ c \in States /\ Pointing(c) /\ (InPlace(c) => Placed(c))
      /\ w \in States /\ Pointing(w) /\ Open(w) /\ ~w.failed /\ w.items = c.items
      /\ Partial(c) \/ w = c
      /\ Partial(c) => Tellable(sent)
  BY DEF ChatInv, Reading, Open
<1>2. PICK m \in Nat : DOMAIN c.items \subseteq 0 .. m
  BY DEF ChatInv, Noting
<1> DEFINE output == e.output
<1>3. w = c \/ \E type \in Telltale : PlacesOf(c, output, type) # {}
  <2> SUFFICES ASSUME Partial(c) PROVE \E type \in Telltale : PlacesOf(c, output, type) # {}
    BY <1>1
  <2>1. CASE output = <<>>
    <3>1. PICK i \in DOMAIN c.items : c.items[i].type \in Telltale
      BY DEF Partial
    <3>2. Len(output) = 0 /\ i \in Nat
      <4>1. DOMAIN c.items \subseteq Nat
        BY <1>1, StateParts, MapIs
      <4> QED
        BY <2>1, <4>1, EmptySeq
    <3>3. ItemAt(c, output, i) = c.items[i]
      BY <3>2 DEF ItemAt
    <3>4. i \in PlacesOf(c, output, c.items[i].type)
      BY <3>3 DEF PlacesOf
    <3> QED
      BY <3>1, <3>4
  <2>2. CASE NamesBegun(output)
    <3>1. PICK k \in DOMAIN answer : sent[k].begun /\ answer[k].type \in Telltale
      BY <1>1 DEF Tellable
    <3>2. k \in 1 .. Len(output) /\ output[k].type = answer[k].type
      BY <2>2, <3>1 DEF NamesBegun
    <3>3. Len(output) \in Nat
      BY LenProperties
    <3> HIDE DEF output
    <3>4. k - 1 \in 0 .. Len(output) - 1 /\ k - 1 < Len(output) /\ (k - 1) + 1 = k
      BY <3>2, <3>3
    <3>5. ItemAt(c, output, k - 1) = output[k]
      BY <3>4 DEF ItemAt
    <3>6. k - 1 \in PlacesOf(c, output, answer[k].type)
      BY <3>2, <3>4, <3>5 DEF PlacesOf
    <3> QED
      BY <3>1, <3>6
  <2> QED
    BY <2>1, <2>2
<1>4. Answered(w, e) = Terminal(w, e, FALSE).state /\ Streamed(c, e) = Terminal(c, e, TRUE).state
  BY <1>1, WholeEnds
<1>5. ~Terminal(c, e, TRUE).state.failed
  BY <1>4
<1>6. Agree(Terminal(c, e, TRUE).state, Terminal(w, e, FALSE).state)
  BY <1>1, <1>2, <1>3, <1>5, TerminalAgrees
<1>7. Terminal(c, e, TRUE).state.terminal
  BY <1>1, <1>2, <1>5, TerminalSound
<1> QED
  BY <1>4, <1>6, <1>7

-----------------------------------------------------------------------------
(* What holds of the readers between two events: while the response is open, *)
(* the answer has read what the stream has read; once the stream has taken   *)
(* the terminal event, they agree, and the collector has it too.             *)
MatchInv ==
  /\ Open(chat) => Reading(chat, whole, sent) /\ collector = "open"
  /\ chat.terminal /\ ~chat.failed => Agree(chat, whole) /\ collector = "terminal"

(* The labels and the answer are those of the response throughout. *)
LEMMA MatchThroughout ==
  ASSUME labels' = labels, answer' = answer
  PROVE  /\ Reading(chat', whole', sent') => Reading(chat, whole, sent)'
         /\ Agree(chat', whole') => Agree(chat, whole)'
<1>1. Agree(chat', whole') => Agree(chat, whole)'
  BY Throughout DEF Agree, Plain
<1>2. ASSUME Reading(chat', whole', sent') PROVE Reading(chat, whole, sent)'
  <2>1. Pointing(whole)' /\ Open(whole)' /\ (whole \in States)'
    BY <1>2 DEF Reading, Pointing, Open
  <2>2. (Partial(chat)' <=> Partial(chat')) /\ (Tellable(sent)' <=> Tellable(sent'))
    BY DEF Partial, Tellable, Telltale
  <2>3. \A k \in DOMAIN answer : Awaits(sent, k)' <=> Awaits(sent', k)
    BY DEF Awaits
  <2>4. Ordered(chat)'
    BY <1>2 DEF Reading, Ordered
  <2>5. (labels = {"id"})' => Following(chat, whole, sent)'
    BY <1>2, <2>3 DEF Reading, Following
  <2> QED
    BY <1>2, <2>1, <2>2, <2>3, <2>4, <2>5 DEF Reading
<1> QED
  BY <1>1, <1>2

(* An event reaches the readers. *)
LEMMA DeliverMatches ==
  ASSUME StreamInv, MatchInv, NEW e, Deliver(e), UNCHANGED <<answer, labels>>,
         Open(chat) /\ ~Streamed(chat, e).failed =>
           \/ /\ e.kind = "terminal" /\ Streamed(chat, e).terminal
              /\ Agree(Streamed(chat, e), Answered(whole, e))
           \/ /\ e.kind \notin {"malformed", "failed", "terminal"} /\ Open(Streamed(chat, e))
              /\ Reading(Streamed(chat, e), Answered(whole, e), sent')
  PROVE  MatchInv'
<1>1. /\ chat' = Streamed(chat, e) /\ whole' = Answered(whole, e)
      /\ collector' = Collected(collector, e)
  BY DEF Deliver, Streamed, Answered
<1>2. CASE Streamed(chat, e).failed
  BY <1>1, <1>2 DEF MatchInv, Open
<1>3. CASE ~Streamed(chat, e).failed
  <2>1. Open(chat)
    <3> SUFFICES ASSUME ~Open(chat) PROVE FALSE
      OBVIOUS
    <3>1. chat \in States /\ Pointing(chat)
      BY DEF StreamInv, ChatInv
    <3>2. Streamed(chat, e) = Failure(chat).state
      BY ApplyClosed DEF Streamed
    <3> QED
      BY <1>3, <3>1, <3>2, SoundFailure
  <2>2. collector = "open"
    BY <2>1 DEF MatchInv
  <2>3. CASE /\ e.kind = "terminal" /\ Streamed(chat, e).terminal
             /\ Agree(Streamed(chat, e), Answered(whole, e))
    <3>1. collector' = "terminal"
      BY <1>1, <2>2, <2>3 DEF Collected
    <3>2. Agree(chat, whole)'
      BY <1>1, <2>3, MatchThroughout
    <3>3. ~Open(chat)'
      BY <1>1, <2>3 DEF Open
    <3> QED
      BY <3>1, <3>2, <3>3 DEF MatchInv
  <2>4. CASE /\ e.kind \notin {"malformed", "failed", "terminal"} /\ Open(Streamed(chat, e))
             /\ Reading(Streamed(chat, e), Answered(whole, e), sent')
    <3>1. collector' = "open"
      BY <1>1, <2>2, <2>4 DEF Collected
    <3>2. Reading(chat, whole, sent)'
      BY <1>1, <2>4, MatchThroughout
    <3>3. ~chat.terminal'
      BY <1>1, <2>4 DEF Open
    <3> QED
      BY <3>1, <3>2, <3>3 DEF MatchInv
  <2> QED
    BY <1>3, <2>1, <2>3, <2>4
<1> QED
  BY <1>2, <1>3

(* An event of an item holds an item, and an output index or none.           *)
LEMMA UponTyped ==
  ASSUME AnswerOK, NEW k \in DOMAIN answer, NEW e, Upon(e, k)
  PROVE  e.item \in Items /\ e.at \in Nat \cup {NoIndex}
<1>1. k \in Nat \ {0}
  BY AnswerIs
<1>2. Index(k) \in Nat \cup {NoIndex}
  BY ONLY <1>1 DEF Index
<1> QED
  BY <1>2 DEF Upon

(* Upstream begins an item, *)
LEMMA BeginMatches ==
  ASSUME StreamInv, MatchInv, NEW k \in DOMAIN answer, BeginItem(k)
  PROVE  MatchInv'
<1> DEFINE e == [kind |-> "item added", item |-> Told(k, 0), at |-> Index(k)]
<1>1. AnswerOK /\ LabelsOK /\ SentOK /\ ChatInv(chat, sent)
  BY DEF StreamInv
<1>2. MayBegin(k) /\ Deliver(e) /\ sent' = [sent EXCEPT ![k].begun = TRUE]
      /\ UNCHANGED <<answer, labels>>
  BY DEF BeginItem, Unchanged
<1>3. Begins(sent', k)
  BY <1>1, <1>2 DEF SentOK, Begins
<1>4. Upon(e, k) /\ Adding(e) /\ e.kind \notin {"malformed", "failed", "terminal"}
  <2>1. Len(answer[k].body) \in Nat
    BY <1>1, AnswerIs, LenProperties DEF Texts
  <2>2. Told(k, 0) \in Items /\ Told(k, 0).name = Name(k) /\ Told(k, 0).type = answer[k].type
    BY <1>1, <2>1, ToldTyped
  <2> QED
    BY <2>2 DEF Upon, Adding
<1> HIDE DEF e
<1>5. e.item \in Items /\ e.at \in Nat \cup {NoIndex}
  BY <1>1, <1>4, UponTyped
<1>6. ASSUME Open(chat), ~Streamed(chat, e).failed
      PROVE  Open(Streamed(chat, e)) /\ Reading(Streamed(chat, e), Answered(whole, e), sent')
  <2>1. Reading(chat, whole, sent) /\ chat \in States /\ Pointing(chat)
    BY <1>1, <1>6 DEF MatchInv, ChatInv
  <2>2. Reading(Streamed(chat, e), Answered(whole, e), sent')
    BY <1>1, <1>2, <1>3, <1>4, <1>6, <2>1, ReadingAdded
  <2>3. Open(Streamed(chat, e))
    BY <1>4, <1>5, <1>6, <2>1, AddedGoesOn
  <2> QED
    BY <2>2, <2>3
<1> QED
  BY <1>2, <1>4, <1>6, DeliverMatches

(* An item is reported done. *)
LEMMA DoneMatches ==
  ASSUME StreamInv, MatchInv, NEW k \in DOMAIN answer, Arrives(k), ~sent[k].done,
         NEW e, Finishing(e), Upon(e, k), e.kind \notin {"malformed", "failed", "terminal"}, Deliver(e),
         Begins(sent', k), sent'[k].done \/ sent' = sent, UNCHANGED <<answer, labels>>
  PROVE  MatchInv'
<1>1. AnswerOK /\ LabelsOK /\ SentOK /\ ChatInv(chat, sent)
  BY DEF StreamInv
<1>2. e.item \in Items /\ e.at \in Nat \cup {NoIndex}
  BY <1>1, UponTyped
<1>3. ASSUME Open(chat), ~Streamed(chat, e).failed
      PROVE  Open(Streamed(chat, e)) /\ Reading(Streamed(chat, e), Answered(whole, e), sent')
  <2>1. Reading(chat, whole, sent) /\ chat \in States /\ Pointing(chat)
    BY <1>1, <1>3 DEF MatchInv, ChatInv
  <2>2. Reading(Streamed(chat, e), Answered(whole, e), sent')
    BY <1>1, <1>3, <2>1, ReadingDone
  <2>3. Open(Streamed(chat, e))
    BY <1>2, <1>3, <2>1, DoneGoesOn
  <2> QED
    BY <2>2, <2>3
<1> QED
  BY <1>3, DeliverMatches

(* finishes one, *)
LEMMA FinishMatches ==
  ASSUME StreamInv, MatchInv, NEW k \in DOMAIN answer, FinishItem(k)
  PROVE  MatchInv'
<1> DEFINE n == Len(answer[k].body)
           e == [kind |-> "item done", item |-> Told(k, n), at |-> Index(k)]
           r == [begun |-> TRUE, told |-> n, repeated |-> TRUE, done |-> TRUE]
<1>1. AnswerOK /\ LabelsOK /\ SentOK
  BY DEF StreamInv
<1>2. /\ Speaks(k) \/ MayBegin(k)
      /\ Deliver(e) /\ sent' = [sent EXCEPT ![k] = r] /\ UNCHANGED <<answer, labels>>
  BY DEF FinishItem, Unchanged, Entire
<1>3. n \in 0 .. Len(answer[k].body)
  BY <1>1, AnswerIs, LenProperties DEF Texts
<1>4. Told(k, n) \in Items /\ Told(k, n).name = Name(k) /\ Told(k, n).type = answer[k].type
  BY <1>1, <1>3, ToldTyped
<1>5. Upon(e, k) /\ Finishing(e) /\ e.kind \notin {"malformed", "failed", "terminal"}
  BY <1>4 DEF Upon, Finishing
<1>6. r.begun /\ r.done
  OBVIOUS
<1> HIDE DEF e, r, n
<1>7. Begins(sent', k) /\ sent'[k].done
  BY <1>1, <1>2, <1>6 DEF SentOK, Begins
<1>8. Arrives(k) /\ ~sent[k].done
  BY <1>1, <1>2 DEF Arrives, Speaks, MayBegin, SentOK
<1> QED
  BY <1>2, <1>5, <1>7, <1>8, DoneMatches

(* An event of texts or arguments, or one that the readers do not know.      *)
LEMMA TellMatches ==
  ASSUME StreamInv, MatchInv, NEW e, Deliver(e), Telling(e), e.kind \notin {"malformed", "failed", "terminal"},
         Open(chat) => Aimed(whole, e),
         \A i \in DOMAIN answer : (sent'[i].begun <=> sent[i].begun) /\ (sent'[i].done <=> sent[i].done),
         UNCHANGED <<answer, labels>>
  PROVE  MatchInv'
<1>1. ASSUME Open(chat), ~Streamed(chat, e).failed
      PROVE  Open(Streamed(chat, e)) /\ Reading(Streamed(chat, e), Answered(whole, e), sent')
  <2>1. Reading(chat, whole, sent) /\ chat \in States /\ ChatInv(chat, sent)
    BY <1>1 DEF MatchInv, ChatInv, StreamInv
  <2>2. Reading(Streamed(chat, e), Answered(whole, e), sent')
    BY <1>1, <2>1, ReadingTold
  <2>3. Open(Streamed(chat, e))
    BY <1>1, <2>1, ToldGoesOn
  <2> QED
    BY <2>2, <2>3
<1> QED
  BY <1>1, DeliverMatches

(* Upstream sends arguments only while it speaks of a call. *)
LEMMA SpokenMatches ==
  ASSUME StreamInv, MatchInv, NEW k \in DOMAIN answer, Speaks(k), NEW e, Deliver(e), Telling(e),
         e.kind \notin {"malformed", "failed", "terminal"},
         e.kind \in {"args delta", "args done"} => answer[k].type = "call",
         NEW r, r.begun = sent[k].begun, r.done = sent[k].done,
         sent' = [sent EXCEPT ![k] = r], UNCHANGED <<answer, labels>>
  PROVE  MatchInv'
<1>1. SentOK
  BY DEF StreamInv
<1>2. \A i \in DOMAIN answer : (sent'[i].begun <=> sent[i].begun) /\ (sent'[i].done <=> sent[i].done)
  BY <1>1 DEF SentOK
<1>3. ASSUME Open(chat) PROVE Aimed(whole, e)
  <2>1. \A i \in DOMAIN answer : Awaits(sent, i) => whole.current # NoItem
    BY <1>3 DEF MatchInv, Reading
  <2>2. answer[k].type = "call" => whole.current # NoItem
    BY <2>1 DEF Awaits, Speaks
  <2> QED
    BY <2>2 DEF Aimed
<1> QED
  BY <1>2, <1>3, TellMatches

(* tells a part of one, *)
LEMMA TellItemMatches ==
  ASSUME StreamInv, MatchInv, NEW k \in DOMAIN answer, NEW n \in Chunks, TellItem(k, n)
  PROVE  MatchInv'
<1> DEFINE e == [kind |-> IF answer[k].type = "call" THEN "args delta" ELSE "text delta",
                 name |-> Name(k), at |-> Index(k),
                 body |-> SubSeq(answer[k].body, sent[k].told + 1, sent[k].told + n)]
           r == [sent[k] EXCEPT !.told = @ + n]
<1>1. AnswerOK /\ SentOK /\ n \in Nat
  BY StreamAssumption DEF StreamInv
<1>2. sent \in [DOMAIN answer -> Sents] /\ sent[k] \in Sents
  BY <1>1 DEF SentOK, Sents
<1>3. /\ Deliver(e) /\ Speaks(k) /\ sent[k].told + n <= Len(answer[k].body)
      /\ sent' = [sent EXCEPT ![k].told = @ + n] /\ UNCHANGED <<answer, labels>>
  BY DEF TellItem, Unchanged
<1>4. r.begun = sent[k].begun /\ r.done = sent[k].done
  BY <1>2 DEF Sents
<1>5. sent' = [sent EXCEPT ![k] = r]
  BY <1>2, <1>3
<1>6. SubSeq(answer[k].body, sent[k].told + 1, sent[k].told + n) \in Texts
  BY <1>1, <1>2, <1>3, PieceTyped DEF Sents
<1>7. Name(k) \in Nat
  BY <1>1, AnswerIs DEF Name, NoName
<1>8. /\ Telling(e) /\ e.kind \notin {"malformed", "failed", "terminal"}
      /\ e.kind \in {"args delta", "args done"} => answer[k].type = "call"
  BY <1>6, <1>7 DEF Telling
<1> HIDE DEF e, r
<1> QED
  BY <1>3, <1>4, <1>5, <1>8, SpokenMatches

(* repeats one, *)
LEMMA RepeatMatches ==
  ASSUME StreamInv, MatchInv, NEW k \in DOMAIN answer, RepeatItem(k)
  PROVE  MatchInv'
<1> DEFINE e == [kind |-> IF answer[k].type = "call" THEN "args done" ELSE "text done",
                 name |-> Name(k), at |-> Index(k), body |-> answer[k].body]
           n == Len(answer[k].body)
           r == [sent[k] EXCEPT !.repeated = TRUE, !.told = n]
<1>1. AnswerOK /\ SentOK
  BY DEF StreamInv
<1>2. sent \in [DOMAIN answer -> Sents] /\ sent[k] \in Sents
  BY <1>1 DEF SentOK, Sents
<1>3. /\ Deliver(e) /\ Speaks(k)
      /\ sent' = [sent EXCEPT ![k].repeated = TRUE, ![k].told = n] /\ UNCHANGED <<answer, labels>>
  BY DEF RepeatItem, Unchanged
<1>4. r.begun = sent[k].begun /\ r.done = sent[k].done
  BY <1>2 DEF Sents
<1>5. sent' = [sent EXCEPT ![k] = r]
  BY <1>2, <1>3
<1>6. answer[k].body \in Texts /\ Name(k) \in Nat
  BY <1>1, AnswerIs DEF Name, NoName
<1>7. /\ Telling(e) /\ e.kind \notin {"malformed", "failed", "terminal"}
      /\ e.kind \in {"args delta", "args done"} => answer[k].type = "call"
  BY <1>6 DEF Telling
<1> HIDE DEF e, r, n
<1> QED
  BY <1>3, <1>4, <1>5, <1>7, SpokenMatches

(* ends the response, *)
LEMMA ConcludeMatches ==
  ASSUME StreamInv, MatchInv, NEW reason \in {"completed", "length", "content_filter"},
         NEW named \in BOOLEAN, Conclude(reason, named)
  PROVE  MatchInv'
<1> DEFINE output == Concluded(reason, named)
           e == [kind |-> "terminal", reason |-> reason, output |-> output]
<1>1. AnswerOK /\ SentOK /\ ChatInv(chat, sent)
  BY DEF StreamInv
<1>2. Deliver(e) /\ UNCHANGED <<answer, labels>>
  BY DEF Conclude, Concluded
<1>3. /\ output \in Seq(Items) /\ InOrder(output)
      /\ output = <<>> \/ NamesBegun(output)
  BY <1>1, ConcludedIs
<1> HIDE DEF output
<1>4. /\ e.kind = "terminal" /\ e.output \in Seq(Items) /\ e.reason \in {"completed", "length", "content_filter"}
      /\ InOrder(e.output)
      /\ e.output = <<>> \/ NamesBegun(e.output)
  BY <1>3
<1> HIDE DEF e
<1>5. ASSUME Open(chat), ~Streamed(chat, e).failed
      PROVE  Streamed(chat, e).terminal /\ Agree(Streamed(chat, e), Answered(whole, e))
  <2>1. Reading(chat, whole, sent)
    BY <1>5 DEF MatchInv
  <2> QED
    BY <1>1, <1>4, <1>5, <2>1, ReadingEnds
<1> QED
  BY <1>2, <1>4, <1>5, DeliverMatches

(* or sends an irregular event. *)
LEMMA DisturbMatches ==
  ASSUME StreamInv, MatchInv, NEW e \in Disturbances, Disturb(e)
  PROVE  MatchInv'
<1>1. AnswerOK /\ LabelsOK /\ SentOK /\ ChatInv(chat, sent)
  BY DEF StreamInv
<1>2. Deliver(e) /\ UNCHANGED <<sent, answer, labels>>
  BY DEF Disturb
<1>3. CASE e.kind = "other"
  <2>1. Telling(e) /\ e.kind \notin {"malformed", "failed", "terminal"}
    BY <1>3 DEF Telling
  <2>2. Aimed(whole, e)
    BY <1>3 DEF Aimed
  <2> QED
    BY <1>2, <2>1, <2>2, TellMatches
<1>4. CASE e.kind \in {"malformed", "failed"}
  <2>1. Streamed(chat, e).failed
    <3>1. chat \in States /\ Pointing(chat)
      BY <1>1 DEF ChatInv
    <3>2. CASE ~Open(chat) \/ e.kind = "malformed"
      <4>1. Streamed(chat, e) = Failure(chat).state
        BY <3>2, ApplyClosed DEF Streamed
      <4> QED
        BY <3>1, <4>1, SoundFailure
    <3>3. CASE Open(chat) /\ e.kind = "failed"
      <4>1. Streamed(chat, e) = Failure([chat EXCEPT !.usage = @ \/ e.usage]).state
        BY <3>3, ApplyFailed DEF Streamed
      <4> QED
        BY <3>1, <4>1 DEF Failure, Quiet, Update, States
    <3> QED
      BY <1>4, <3>2, <3>3
  <2> QED
    BY <1>2, <2>1, DeliverMatches
<1>5. CASE e \in Contradictions
  <2>1. PICK k \in DOMAIN answer :
          Speaks(k) /\ e = [kind |-> "item done", at |-> Index(k),
                            item |-> [Entire(k) EXCEPT !.body = Reverse(@)]]
    BY <1>5 DEF Contradictions
  <2> DEFINE n == Len(answer[k].body)
  <2>2. n \in 0 .. Len(answer[k].body)
    BY <1>1, AnswerIs, LenProperties DEF Texts
  <2>3. Told(k, n) \in Items /\ Told(k, n).name = Name(k) /\ Told(k, n).type = answer[k].type
    BY <1>1, <2>2, ToldTyped
  <2>4. Reverse(Told(k, n).body) \in Texts
    BY <2>3, ReverseTyped DEF Items
  <2> DEFINE item == [Told(k, n) EXCEPT !.body = Reverse(@)]
  <2>5. item \in Items /\ item.name = Name(k) /\ item.type = answer[k].type
    <3> DEFINE x == Told(k, n)
    <3>1. x \in Items /\ x.name = Name(k) /\ x.type = answer[k].type /\ Reverse(x.body) \in Texts
      BY <2>3, <2>4
    <3>2. item = [x EXCEPT !.body = Reverse(x.body)]
      OBVIOUS
    <3> HIDE DEF x, item
    <3> QED
      BY <3>1, <3>2 DEF Items
  <2>6. e = [kind |-> "item done", at |-> Index(k), item |-> item]
    BY <2>1 DEF Entire
  <2> HIDE DEF item, n
  <2>7. Upon(e, k) /\ Finishing(e) /\ e.kind \notin {"malformed", "failed", "terminal"}
    BY <2>5, <2>6 DEF Upon, Finishing
  <2>8. Arrives(k) /\ ~sent[k].done /\ Begins(sent', k) /\ sent' = sent
    BY <1>2, <2>1 DEF Speaks, Arrives, Begins
  <2> QED
    BY <1>2, <2>7, <2>8, DoneMatches
<1> QED
  BY <1>3, <1>4, <1>5 DEF Disturbances

(* A step that the readers do not notice. *)
LEMMA MatchStays ==
  ASSUME MatchInv, UNCHANGED <<answer, labels, sent, chat, whole, collector>>
  PROVE  MatchInv'
<1>1. Open(chat)' <=> Open(chat)
  BY DEF Open
<1> QED
  BY <1>1, MatchThroughout DEF MatchInv

(* The body ends. *)
LEMMA BodyEndsMatches ==
  ASSUME StreamInv, MatchInv, NEW oversized \in BOOLEAN, BodyEnds(oversized)
  PROVE  MatchInv'
<1>1. /\ UNCHANGED <<answer, labels, sent>>
      /\ chat' = IF Complete(chat, oversized) THEN chat ELSE [chat EXCEPT !.failed = TRUE]
      /\ whole' = IF Complete(whole, oversized) THEN whole ELSE [whole EXCEPT !.failed = TRUE]
      /\ collector' = IF collector = "terminal" /\ ~oversized THEN collector ELSE "failed"
  BY DEF BodyEnds, upstream
<1>2. chat \in States
  BY DEF StreamInv, ChatInv
<1>3. CASE Complete(chat, oversized) /\ ~chat.failed
  <2>1. Agree(chat, whole) /\ collector = "terminal" /\ ~oversized
    BY <1>3 DEF MatchInv, Complete
  <2>2. UNCHANGED <<chat, whole, collector>>
    BY <1>1, <1>3, <2>1 DEF Agree, Complete
  <2> QED
    BY <1>1, <2>2, MatchStays
<1>4. CASE chat'.failed
  BY <1>4 DEF MatchInv, Open
<1>5. ~(Complete(chat, oversized) /\ ~chat.failed) => chat'.failed
  <2>1. Complete(chat, oversized) \/ chat'.failed
    BY <1>1, <1>2 DEF States
  <2> QED
    BY <1>1, <2>1
<1> QED
  BY <1>3, <1>4, <1>5

(* Every step keeps the invariant, which holds at first. *)
LEMMA MatchStep == StreamInv /\ MatchInv /\ [StreamNext]_streamVars => MatchInv'
<1> SUFFICES ASSUME StreamInv, MatchInv, [StreamNext]_streamVars PROVE MatchInv'
  OBVIOUS
<1>1. CASE ClientLeaves \/ UNCHANGED streamVars
  <2>1. UNCHANGED <<answer, labels, sent, chat, whole, collector>>
    BY <1>1 DEF ClientLeaves, streamVars, upstream, readers
  <2> QED
    BY <2>1, MatchStays
<1>2. CASE Proxy
  <2>1. UNCHANGED <<upstream, readers>>
    BY <1>2 DEF Proxy, WriteRole, WriteFirst, ReadCanceled, WriteHeld, WriteFinish, WriteUsage, WriteDone
  <2>2. UNCHANGED <<answer, labels, sent, chat, whole, collector>>
    BY <2>1 DEF upstream, readers
  <2> QED
    BY <2>2, MatchStays
<1>3. CASE Upstream
  BY <1>3, BeginMatches, TellItemMatches, RepeatMatches, FinishMatches, ConcludeMatches,
     DisturbMatches, BodyEndsMatches DEF Upstream
<1> QED
  BY <1>1, <1>2, <1>3 DEF StreamNext

LEMMA MatchInvInit == StreamInit => MatchInv
<1> SUFFICES ASSUME StreamInit PROVE MatchInv
  OBVIOUS
<1>1. /\ chat = NewState /\ whole = NewState /\ collector = "open"
      /\ \A k \in DOMAIN answer : ~sent[k].begun
  BY DEF StreamInit
<1>2. StreamInv
  BY StreamInvInit
<1>3. chat \in States /\ Pointing(chat)
  BY <1>2 DEF StreamInv, ChatInv
<1>4. /\ DOMAIN chat.byName = {} /\ DOMAIN chat.byOutput = {} /\ DOMAIN chat.items = {}
      /\ ~chat.terminal /\ ~chat.failed
  BY <1>1 DEF NewState
<1>5. ~Partial(chat) /\ Ordered(chat)
  BY <1>4 DEF Partial, Ordered
<1>6. \A k \in DOMAIN answer : ~Awaits(sent, k)
  BY <1>1 DEF Awaits
<1>7. Following(chat, chat, sent)
  BY <1>4, <1>6 DEF Following
<1>8. Reading(chat, whole, sent)
  BY <1>1, <1>3, <1>4, <1>5, <1>6, <1>7 DEF Reading, Open
<1> QED
  BY <1>1, <1>4, <1>8 DEF MatchInv

(* A stream that ends well has said what the answer to the same events says: *)
(* the text up to the stop sequence, the tool calls, the finish reason; and  *)
(* both other readers accept the response (applyResponsesEvent with and      *)
(* without streaming, reconcileTerminalOutput, responsesTerminalCollector).  *)
THEOREM StreamMatches == StreamSpec => []StreamMatchesWhole
<1>1. ASSUME StreamInv, AccountInv, MatchInv, Succeeded PROVE StreamMatchesWhole
  <2>1. chat.terminal /\ ~chat.failed /\ ended
    <3>1. phase = "end"
      BY <1>1 DEF AccountInv, Accounted, Succeeded
    <3>2. PICK outcome, usage : accounts = <<[outcome |-> outcome, usage |-> usage]>> /\ EndsAs(outcome)
      BY <1>1, <3>1 DEF AccountInv, Accounted
    <3>3. outcome = "success"
      BY <1>1, <3>2 DEF Succeeded
    <3> QED
      BY <3>2, <3>3 DEF EndsAs, FinishedWell
  <2>2. Agree(chat, whole) /\ collector = "terminal"
    BY <1>1, <2>1 DEF MatchInv
  <2>3. said = chat.text /\ ClientSeesAll /\ StopInv /\ StreamCutsAsWhole
    <3>1. ClientSeesAll
      BY <1>1, InvSeesAll
    <3> QED
      BY <1>1, <3>1, StopInvCuts DEF ClientSeesAll, StreamInv
  <2>4. whole.text = said /\ whole.terminal /\ ~whole.failed /\ whole.finish = chat.finish
    BY <2>2, <2>3 DEF Agree
  <2>5. filter.stopped <=> HasStop(said)
    <3>1. CASE filter.stopped
      <4>1. PICK n \in 0 .. Len(said) : HasStop(Before(said, n)) /\ shown = Truncated(Before(said, n))
        BY <2>3, <3>1 DEF StopInv, ShownIsCut
      <4> QED
        BY <2>3, <3>1, <4>1, StoppedCutsAsWhole DEF StopInv, StopTypeOK
    <3>2. CASE ~filter.stopped
      BY <2>3, <3>2 DEF StopInv, ShownIsCut
    <3> QED
      BY <3>1, <3>2
  <2>6. /\ Truncated(said) = Before(shown, Len(Truncated(said)))
        /\ ~Nested => shown = Truncated(said)
    BY <2>1, <2>3 DEF StreamCutsAsWhole
  <2>7. ASSUME ~filter.stopped, ~Misplaced
        PROVE  Len(tools) = Len(whole.calls) /\ ToSet(tools) = ToSet(Plain(whole.calls))
    <3>1. InPlace(chat)
      BY <1>1, <2>7, WellPlaced DEF StreamInv
    <3>2. Len(tools) = Len(chat.calls) /\ tools = Plain(chat.calls)
      BY <1>1, <2>3, <2>7 DEF ClientSeesAll
    <3> QED
      BY <2>2, <3>1, <3>2 DEF Agree
  <2> QED
    BY <2>2, <2>4, <2>5, <2>6, <2>7 DEF StreamMatchesWhole
<1>2. StreamInv /\ AccountInv /\ MatchInv => StreamMatchesWhole
  BY <1>1 DEF StreamMatchesWhole
<1>3. StreamSpec => []MatchInv
  BY MatchInvInit, StreamInvInit, AccountInvInit, StreamStep, AccountStep, MatchStep, PTL DEF StreamSpec
<1> QED
  BY <1>2, <1>3, StreamInvHolds, PTL
=============================================================================
