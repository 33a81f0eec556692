----------------------------- MODULE StopFilter -----------------------------
(* Stop sequences of the Chat Completions adapter.  A whole text is cut at *)
(* the earliest stop sequence in it (truncateAtStopSequence).  A stream    *)
(* goes through chatStopFilter, which holds back as many letters as a stop *)
(* sequence could still begin with, so that one which is split over        *)
(* several deltas is found before any of it is shown.                      *)
EXTENDS Integers, Sequences

CONSTANTS
  Letters,     \* the runes
  Stops,       \* the stop sequences of the request, the empty one left out
  Deltas       \* the pieces in which upstream sends text

ASSUME StopAssumption ==
  /\ Stops \subseteq Seq(Letters) \ {<<>>}
  /\ Stops # {} => \E stop \in Stops : \A other \in Stops : Len(other) <= Len(stop)
  /\ Deltas \subseteq Seq(Letters)

VARIABLES
  said,        \* all the text that was pushed
  shown,       \* the text that was given to the client
  filter,      \* chatStopFilter: what it holds back, and whether it has stopped
  ended        \* the stream is over and the filter was flushed

stopVars == <<said, shown, filter, ended>>
-----------------------------------------------------------------------------
(* The cut of a whole text: position i is the number of letters before it. *)
StopAt(text, stop, i) ==
  /\ i + Len(stop) <= Len(text)
  /\ \A k \in 1 .. Len(stop) : text[i + k] = stop[k]

Cuts(text) == {i \in 0 .. Len(text) : \E stop \in Stops : StopAt(text, stop, i)}

HasStop(text) == Cuts(text) # {}

FirstCut(text) == CHOOSE i \in Cuts(text) : \A j \in Cuts(text) : i <= j

Before(text, n) == SubSeq(text, 1, n)

After(text, n) == SubSeq(text, n + 1, Len(text))

Truncated(text) == IF HasStop(text) THEN Before(text, FirstCut(text)) ELSE text
-----------------------------------------------------------------------------
(* The filter. *)
Longest ==
  IF Stops = {} THEN 0
  ELSE Len(CHOOSE stop \in Stops : \A other \in Stops : Len(other) <= Len(stop))

(* A variant that holds back one letter too few. *)
Mutant_KeptShort(text) ==
  IF Len(text) < Longest - 1 THEN Len(text) ELSE IF Longest < 2 THEN 0 ELSE Longest - 2

(* How much of a text without a stop sequence has to be held back. *)
Kept(text) == IF Len(text) < Longest THEN Len(text) ELSE Longest - 1

(* What a push shows, and what becomes of the filter. *)
Shows(delta) ==
  LET text == filter.buffered \o delta IN
  IF Longest = 0 THEN delta
  ELSE IF filter.stopped \/ delta = <<>> THEN <<>>
  ELSE IF HasStop(text) THEN Truncated(text)
  ELSE Before(text, Len(text) - Kept(text))

Filtered(delta) ==
  LET text == filter.buffered \o delta IN
  IF Longest = 0 \/ filter.stopped \/ delta = <<>> THEN filter
  ELSE IF HasStop(text) THEN [buffered |-> <<>>, stopped |-> TRUE]
  ELSE [buffered |-> After(text, Len(text) - Kept(text)), stopped |-> FALSE]

Push(delta) ==
  /\ ~ended
  /\ said' = said \o delta
  /\ shown' = shown \o Shows(delta)
  /\ filter' = Filtered(delta)
  /\ UNCHANGED ended

Flush ==
  /\ ~ended
  /\ shown' = IF filter.stopped THEN shown ELSE shown \o filter.buffered
  /\ filter' = [filter EXCEPT !.buffered = <<>>]
  /\ ended' = TRUE
  /\ UNCHANGED said

StopInit ==
  /\ said = <<>>
  /\ shown = <<>>
  /\ filter = [buffered |-> <<>>, stopped |-> FALSE]
  /\ ended = FALSE

StopNext == Flush \/ \E delta \in Deltas : Push(delta)

StopSpec == StopInit /\ [][StopNext]_stopVars
-----------------------------------------------------------------------------
(* Properties. *)
StopTypeOK ==
  /\ said \in Seq(Letters)
  /\ shown \in Seq(Letters)
  /\ filter \in [buffered : Seq(Letters), stopped : BOOLEAN]
  /\ ended \in BOOLEAN

(* However the text is split into deltas, the client sees the cut of what   *)
(* had been pushed when the filter stopped; until then nothing is lost, no  *)
(* part of a stop sequence has been shown, and less than one is held back.  *)
ShownIsCut ==
  IF filter.stopped
  THEN \E n \in 0 .. Len(said) :
         HasStop(Before(said, n)) /\ shown = Truncated(Before(said, n))
  ELSE /\ ~HasStop(said)
       /\ shown \o filter.buffered = said
       /\ Len(filter.buffered) < Longest \/ filter.buffered = <<>>
       /\ ended => shown = said

(* A stop sequence that lies strictly inside another one.                   *)
Nested ==
  \E outer \in Stops, inner \in Stops : \E i \in 1 .. Len(outer) :
    i + Len(inner) < Len(outer) /\ StopAt(outer, inner, i)

(* The stream is cut exactly where the whole text is, unless one stop       *)
(* sequence lies inside another: then the inner one ends the stream before  *)
(* the outer one is complete, and the stream shows a little more.           *)
StreamCutsAsWhole ==
  ended =>
    /\ Len(Truncated(said)) <= Len(shown)
    /\ Truncated(said) = Before(shown, Len(Truncated(said)))
    /\ ~Nested => shown = Truncated(said)
=============================================================================
