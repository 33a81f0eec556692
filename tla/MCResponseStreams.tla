------------------------- MODULE MCResponseStreams -------------------------
(* Small instances of ResponseStreams. *)
EXTENDS ResponseStreams

Message(body) == [type |-> "message", body |-> body]
Call(body) == [type |-> "call", body |-> body]
Reasoning == [type |-> "reasoning", body |-> <<>>]

TwoStops == {<<"a", "b">>, <<"b", "b", "a">>}
SomeAnswers == {
  <<Message(<<"b", "b", "b", "a", "b">>)>>,
  <<Message(<<"b", "a", "b">>), Call(<<"a">>)>>,
  <<Message(<<"a">>), Message(<<"b">>)>>,
  <<Reasoning, Call(<<"a">>), Call(<<"a">>)>>,
  <<Reasoning, Call(<<"a", "b">>), Call(<<"a">>)>>}
SomeDeltas == UNION {[1 .. n -> {"a", "b"}] : n \in 0 .. 5}
=============================================================================
