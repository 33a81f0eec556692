--------------------------- MODULE ResponseStreams ---------------------------
(* One upstream response as three readers see it: the Chat Completions     *)
(* stream, which sends chunks to its client while events arrive and passes *)
(* its text through the stop filter; the Chat Completions answer that is   *)
(* built when the response is complete; and the Responses collector, which *)
(* keeps the terminal response only.  All three read the same events.      *)
EXTENDS StopFilter, SequencesExt

CONSTANTS
  Answers,     \* what the model may answer: sequences of items
  Labels,      \* what identifies an item in the events: {"id"}, {"index"} or both
  Chunks,      \* how many letters upstream may send in one event
  MaxFaults    \* bound on the irregular events of a response

NoName  == 0   \* an item without id and call_id
NoIndex == -1  \* an event without output_index
NoItem  == 0   \* no tool call

ASSUME StreamAssumption ==
  /\ Labels \subseteq SUBSET {"id", "index"} /\ Chunks \subseteq Nat \ {0} /\ MaxFaults \in Nat
  /\ Answers \subseteq Seq([type : {"message", "call", "reasoning"}, body : Seq(Letters)])

VARIABLES
  answer,      \* the items of the response
  labels,      \* what identifies them
  sent,        \* sent[k]: what upstream has sent of item k
  faults,      \* irregular events it may still send
  chat,        \* the state of the stream (chatCompletionState)
  whole,       \* the state of the aggregated answer
  collector,   \* the Responses collector: "open", "terminal" or "failed"
  phase,       \* where streamChatCompletion is
  first,       \* the update of the event read before anything is written
  client,      \* "there" or "gone"
  tools,       \* the tool calls as the client has put them together
  wire,        \* the chunks that are neither text nor tool calls, in order
  accounts     \* the usage records written for the request

upstream == <<answer, labels, sent, faults>>
readers  == <<chat, whole, collector>>
ours     == <<phase, first, client, tools, wire, accounts>>
streamVars == <<upstream, readers, ours, stopVars>>
-----------------------------------------------------------------------------
(* The state of a reader, and what an event makes of it: a new state, the   *)
(* text and the tool call deltas to pass on, or a failure.                  *)
NewState ==
  [text |-> <<>>, calls |-> <<>>, byName |-> [n \in {} |-> 0], byOutput |-> [i \in {} |-> 0],
   current |-> NoItem, items |-> [i \in {} |-> 0], next |-> 0,
   finish |-> "", usage |-> FALSE, terminal |-> FALSE, failed |-> FALSE]

Update(s, text, deltas) == [state |-> s, text |-> text, tools |-> deltas]
Quiet(s) == Update(s, <<>>, <<>>)
Failure(s) == Quiet([s EXCEPT !.failed = TRUE])

Put(f, x, y) == [z \in DOMAIN f \cup {x} |-> IF z = x THEN y ELSE f[z]]

(* lookupToolCallIndex and ensureToolCall: a call is known by its name (its *)
(* item id and call id, which go together) or by its output index.          *)
Lookup(s, name) == IF name \in DOMAIN s.byName THEN s.byName[name] ELSE NoItem

CallFor(s, item, at) ==
  IF Lookup(s, item.name) # NoItem THEN Lookup(s, item.name)
  ELSE IF at \in DOMAIN s.byOutput THEN s.byOutput[at]
  ELSE Len(s.calls) + 1

Ensured(s, item, at) ==
  LET k == CallFor(s, item, at)
      old == IF k <= Len(s.calls) THEN s.calls[k] ELSE [name |-> NoName, at |-> at, args |-> <<>>]
      call == [old EXCEPT !.at = at, !.name = IF item.name = NoName THEN @ ELSE item.name]
  IN [s EXCEPT !.calls = IF k <= Len(@) THEN [@ EXCEPT ![k] = call] ELSE Append(@, call),
               !.byName = IF item.name = NoName THEN @ ELSE Put(@, item.name, k),
               !.byOutput = Put(@, at, k),
               !.current = k]

(* outputIndexForEvent, and the counter it advances. *)
OutputIndex(s, e) ==
  IF e.at # NoIndex THEN e.at
  ELSE IF Lookup(s, e.item.name) # NoItem THEN s.calls[Lookup(s, e.item.name)].at
  ELSE s.next

Indexed(s, e) ==
  IF e.at # NoIndex THEN [s EXCEPT !.next = IF e.at >= @ THEN e.at + 1 ELSE @]
  ELSE IF Lookup(s, e.item.name) # NoItem THEN s
  ELSE [s EXCEPT !.next = @ + 1]

(* toolIndexForPayload. *)
CallOfEvent(s, e) ==
  IF Lookup(s, e.name) # NoItem THEN Lookup(s, e.name)
  ELSE IF e.at \in DOMAIN s.byOutput THEN s.byOutput[e.at]
  ELSE s.current

(* A variant that passes on a snapshot that is known already.               *)
Mutant_TextSnapshotWhole(s, snapshot, streaming) ==
  Update([s EXCEPT !.text = snapshot], IF streaming THEN snapshot ELSE <<>>, <<>>)

(* reconcileTextSnapshot: a snapshot adds what is missing at the end.  If   *)
(* it contradicts what is there, the stream fails and the answer believes it.*)
TextSnapshot(s, snapshot, streaming) ==
  IF IsPrefix(s.text, snapshot)
  THEN Update([s EXCEPT !.text = snapshot], After(snapshot, Len(s.text)), <<>>)
  ELSE IF streaming THEN Failure(s) ELSE Quiet([s EXCEPT !.text = snapshot])

ArgsDelta(k, delta) == IF delta = <<>> THEN <<>> ELSE <<[call |-> k, name |-> NoName, args |-> delta]>>

(* reconcileToolArguments. *)
ArgsSnapshot(s, k, args, streaming) ==
  LET told == s.calls[k].args
      settled == [s EXCEPT !.calls[k].args = args]
  IN IF IsPrefix(told, args) THEN Update(settled, <<>>, ArgsDelta(k, After(args, Len(told))))
     ELSE IF streaming THEN Failure(s) ELSE Quiet(settled)

FirstDelta(s, k) == <<[call |-> k, name |-> s.calls[k].name, args |-> s.calls[k].args]>>

(* reconcileToolSnapshot, which only the stream uses. *)
ToolSnapshot(s, item, at) ==
  LET k == CallFor(s, item, at)
      known == Ensured(s, item, at)
      created == [known EXCEPT !.calls[k].args = item.body]
  IN IF k > Len(s.calls) THEN Update(created, <<>>, FirstDelta(created, k))
     ELSE ArgsSnapshot(known, k, item.body, TRUE)
-----------------------------------------------------------------------------
(* The terminal event. *)

(* resolvedResponseOutput: the items of a type by output index, the terminal *)
(* item first, else the last one that was reported done.                     *)
Resolved(s, output, type) ==
  LET Item(i) == IF i < Len(output) THEN output[i + 1] ELSE s.items[i]
      places == {i \in (0 .. Len(output) - 1) \cup DOMAIN s.items : Item(i).type = type}
  IN MapThenFoldSet(LAMBDA x, items : Append(items, x), <<>>,
                    LAMBDA i : [at |-> i, item |-> Item(i)], Max, places)

TextOf(items) == FoldLeft(LAMBDA text, x : text \o x.item.body, <<>>, items)

(* reconcileTerminalOutput of the answer: the output replaces everything.   *)
Replaced(s, messages, calls) ==
  LET Taken(t, x) == LET k == CallFor(t, x.item, x.at)
                     IN [Ensured(t, x.item, x.at) EXCEPT !.calls[k].args = x.item.body]
  IN Quiet(FoldLeft(Taken,
                    [s EXCEPT !.text = TextOf(messages), !.calls = <<>>, !.byName = [n \in {} |-> 0],
                              !.byOutput = [i \in {} |-> 0], !.current = NoItem],
                    calls))

(* reconcileTerminalOutput of the stream: the output completes what was     *)
(* sent, and there must be no call that it does not name.                   *)
Joined(s, messages, calls) ==
  LET text == IF messages # <<>> THEN TextSnapshot(s, TextOf(messages), TRUE)
              ELSE IF s.text # <<>> THEN Failure(s) ELSE Quiet(s)
      Join(u, x) == IF u.state.failed THEN u
                    ELSE LET v == ToolSnapshot(u.state, x.item, x.at)
                         IN Update(v.state, u.text, u.tools \o v.tools)
  IN FoldLeft(Join, text, calls)

(* A variant that does not look for calls that the output has left out.     *)
Mutant_CompletedUnchecked(s, joined, calls) == joined

Completed(s, joined, calls) ==
  LET named == {CallFor(joined.state, calls[i].item, calls[i].at) : i \in DOMAIN calls}
  IN IF joined.state.failed \/ named # DOMAIN joined.state.calls THEN Failure(s) ELSE joined

Reconciled(s, output, streaming) ==
  LET messages == Resolved(s, output, "message")
      calls == Resolved(s, output, "call")
  IN IF messages = <<>> /\ calls = <<>> THEN Quiet(s)
     ELSE IF streaming THEN Completed(s, Joined(s, messages, calls), calls)
     ELSE Replaced(s, messages, calls)

(* applyTerminalResponse. *)
Ended(u, reason) ==
  LET finish == IF reason # "completed" THEN reason
                ELSE IF u.state.calls # <<>> THEN "tool_calls" ELSE "stop"
  IN IF u.state.failed THEN u
     ELSE [u EXCEPT !.state.finish = finish, !.state.terminal = TRUE]

Terminal(s, e, streaming) ==
  Ended(Reconciled([s EXCEPT !.usage = TRUE], e.output, streaming), e.reason)
-----------------------------------------------------------------------------
(* applyResponsesEvent. *)
Apply(s, e, streaming) ==
  IF s.terminal \/ s.failed \/ e.kind = "malformed" THEN Failure(s)
  ELSE CASE e.kind = "text delta" -> Update([s EXCEPT !.text = @ \o e.body], e.body, <<>>)
         [] e.kind = "text done" -> TextSnapshot(s, e.body, streaming)
         [] e.kind = "item added" ->
              LET at == OutputIndex(s, e)
                  known == Ensured(Indexed(s, e), e.item, at)
              IN IF e.item.type # "call" THEN Quiet(s)
                 ELSE IF CallFor(s, e.item, at) <= Len(s.calls) THEN Quiet(known)
                 ELSE Update(known, <<>>, FirstDelta(known, Len(known.calls)))
         [] e.kind = "item done" ->
              LET at == OutputIndex(s, e)
                  noted == [Indexed(s, e) EXCEPT !.items = Put(@, at, e.item)]
              IN IF ~streaming \/ e.item.type = "reasoning" THEN Quiet(noted)
                 ELSE IF e.item.type = "message" THEN TextSnapshot(noted, e.item.body, TRUE)
                 ELSE ToolSnapshot(noted, e.item, at)
         [] e.kind = "args delta" ->
              LET k == CallOfEvent(s, e)
              IN IF k = NoItem THEN Failure(s)
                 ELSE Update([s EXCEPT !.calls[k].args = @ \o e.body], <<>>, ArgsDelta(k, e.body))
         [] e.kind = "args done" ->
              LET k == CallOfEvent(s, e)
              IN IF k = NoItem THEN Failure(s) ELSE ArgsSnapshot(s, k, e.body, streaming)
         [] e.kind = "terminal" -> Terminal(s, e, streaming)
         [] e.kind = "failed" -> Failure([s EXCEPT !.usage = @ \/ e.usage])
         [] e.kind = "other" -> Quiet(s)

(* responsesTerminalCollector.apply. *)
Collected(c, e) ==
  IF c # "open" \/ e.kind \in {"malformed", "failed"} THEN "failed"
  ELSE IF e.kind = "terminal" THEN "terminal" ELSE "open"

(* What the client makes of the tool call deltas it gets. *)
Assembled(calls, deltas) ==
  LET Add(known, d) ==
        IF d.call <= Len(known) THEN [known EXCEPT ![d.call].args = @ \o d.args]
        ELSE Append(known, [name |-> d.name, args |-> d.args])
  IN FoldLeft(Add, calls, deltas)
-----------------------------------------------------------------------------
(* streamChatCompletion. *)
Become(place) == phase' = place /\ UNCHANGED accounts

Account(outcome, usage) ==
  /\ accounts' = Append(accounts, [outcome |-> outcome, usage |-> usage])
  /\ phase' = "end"

(* A write to a client that has left fails, or is lost in a buffer; its       *)
(* context is canceled sooner or later.                                      *)
Unwritten(usage) ==
  /\ client = "gone"
  /\ Account("canceled", usage)
  /\ UNCHANGED <<stopVars, tools, wire>>

(* emitUpdate: text through the filter, tool calls unless it has stopped.    *)
Emit(u) ==
  /\ Push(u.text)
  /\ tools' = IF filter'.stopped THEN tools ELSE Assembled(tools, u.tools)

Writes(u) == Shows(u.text) # <<>> \/ (~Filtered(u.text).stopped /\ u.tools # <<>>)

(* The stream fails after the first write: one error, nothing after it.      *)
Fails(usage) ==
  /\ Account("failure", usage)
  /\ wire' = Append(wire, "error")
  /\ UNCHANGED <<stopVars, tools>>

(* An event reaches the readers.  The first one is read before anything is   *)
(* written (prepareChatCompletionUpstreamResponse): when it fails, the       *)
(* request goes back to the executor, which may try another credential.      *)
PassOn(u) ==
  \/ /\ phase = "prepare"
     /\ IF u.state.failed THEN Become("refused") /\ UNCHANGED first
        ELSE Become("role") /\ first' = u
     /\ UNCHANGED <<stopVars, tools, wire>>
  \/ /\ phase = "read" /\ u.state.failed
     /\ Fails(u.state.usage) \/ Unwritten(u.state.usage)
     /\ UNCHANGED first
  \/ /\ phase = "read" /\ ~u.state.failed
     /\ \/ Emit(u) /\ Become("read") /\ UNCHANGED wire
        \/ Writes(u) /\ Unwritten(u.state.usage)
     /\ UNCHANGED first

Deliver(e) ==
  /\ phase \in {"prepare", "read"}
  /\ chat' = Apply(chat, e, TRUE).state
  /\ whole' = Apply(whole, e, FALSE).state
  /\ collector' = Collected(collector, e)
  /\ PassOn(Apply(chat, e, TRUE))
  /\ UNCHANGED client

WriteRole ==
  /\ phase = "role"
  /\ \/ Become("first") /\ wire' = Append(wire, "role") /\ UNCHANGED <<stopVars, tools>>
     \/ Unwritten(FALSE)
  /\ UNCHANGED <<upstream, readers, first, client>>

WriteFirst ==
  /\ phase = "first"
  /\ \/ Emit(first) /\ Become("read") /\ UNCHANGED wire
     \/ Writes(first) /\ Unwritten(chat.usage)
  /\ UNCHANGED <<upstream, readers, first, client>>

(* A variant that takes the end of the body for the end of the response.     *)
Mutant_CompleteAnyway(s, oversized) == ~oversized

(* The body ends, by its end or by an error of the transport, which does no  *)
(* harm once the response is complete; an event beyond the limit does.       *)
Complete(s, oversized) == s.terminal /\ ~oversized

BodyEnds(oversized) ==
  LET Cut(s) == IF Complete(s, oversized) THEN s ELSE [s EXCEPT !.failed = TRUE]
  IN /\ phase \in {"prepare", "read"}
     /\ chat' = Cut(chat) /\ whole' = Cut(whole)
     /\ collector' = IF collector = "terminal" /\ ~oversized THEN collector ELSE "failed"
     /\ \/ phase = "prepare" /\ Become("refused") /\ UNCHANGED <<stopVars, tools, wire>>
        \/ phase = "read" /\ Unwritten(chat.usage)
        \/ phase = "read" /\ ~Complete(chat, oversized) /\ Fails(chat.usage)
        \/ /\ phase = "read" /\ Complete(chat, oversized)
           /\ Become("flush") /\ UNCHANGED <<stopVars, tools, wire>>
     /\ UNCHANGED <<upstream, first, client>>

(* The context of a client that has left ends the read. *)
ReadCanceled ==
  /\ phase \in {"prepare", "read"}
  /\ Unwritten(phase = "read" /\ chat.usage)
  /\ UNCHANGED <<upstream, readers, first, client>>

WriteHeld ==
  /\ phase = "flush"
  /\ \/ Flush /\ Become("finish") /\ UNCHANGED <<tools, wire>>
     \/ ~filter.stopped /\ filter.buffered # <<>> /\ Unwritten(chat.usage)
  /\ UNCHANGED <<upstream, readers, first, client>>

(* The finish chunk, the usage chunk if the request asked for one, [DONE].   *)
WriteFinish ==
  /\ phase = "finish"
  /\ \/ /\ \E place \in {"usage", "done"} : Become(place)
        /\ wire' = Append(wire, "finish") /\ UNCHANGED <<stopVars, tools>>
     \/ Unwritten(chat.usage)
  /\ UNCHANGED <<upstream, readers, first, client>>

WriteUsage ==
  /\ phase = "usage"
  /\ \/ Become("done") /\ wire' = Append(wire, "usage") /\ UNCHANGED <<stopVars, tools>>
     \/ Unwritten(chat.usage)
  /\ UNCHANGED <<upstream, readers, first, client>>

WriteDone ==
  /\ phase = "done"
  /\ \/ Account("success", chat.usage) /\ wire' = Append(wire, "done") /\ UNCHANGED <<stopVars, tools>>
     \/ Unwritten(chat.usage)
  /\ UNCHANGED <<upstream, readers, first, client>>

ClientLeaves ==
  /\ client = "there" /\ phase \notin {"end", "refused"}
  /\ client' = "gone"
  /\ UNCHANGED <<upstream, readers, phase, first, tools, wire, accounts, stopVars>>
-----------------------------------------------------------------------------
(* Upstream: what it sends of an answer.  Calls may overlap one another;     *)
(* deltas, snapshots and the items of the terminal event may be left out.    *)
Name(k)  == IF "id" \in labels THEN k ELSE NoName
Index(k) == IF "index" \in labels THEN k - 1 ELSE NoIndex

Told(k, n) == [type |-> answer[k].type, name |-> Name(k), body |-> SubSeq(answer[k].body, 1, n)]
Entire(k) == Told(k, Len(answer[k].body))

Speaks(k) == sent[k].begun /\ ~sent[k].done

(* Item k may begin: those before it have, and are over unless both are calls. *)
MayBegin(k) ==
  /\ ~sent[k].begun
  /\ \A j \in 1 .. k - 1 : sent[j].begun
  /\ \A j \in 1 .. k - 1 : Speaks(j) => answer[j].type = "call" /\ answer[k].type = "call"

Unchanged == UNCHANGED <<answer, labels, faults>>

BeginItem(k) ==
  /\ collector = "open" /\ MayBegin(k)
  /\ Deliver([kind |-> "item added", item |-> Told(k, 0), at |-> Index(k)])
  /\ sent' = [sent EXCEPT ![k].begun = TRUE] /\ Unchanged

TellItem(k, n) ==
  /\ collector = "open" /\ Speaks(k) /\ answer[k].type # "reasoning"
  /\ sent[k].told + n <= Len(answer[k].body)
  /\ Deliver([kind |-> IF answer[k].type = "call" THEN "args delta" ELSE "text delta",
              name |-> Name(k), at |-> Index(k),
              body |-> SubSeq(answer[k].body, sent[k].told + 1, sent[k].told + n)])
  /\ sent' = [sent EXCEPT ![k].told = @ + n] /\ Unchanged

RepeatItem(k) ==
  /\ collector = "open" /\ Speaks(k) /\ answer[k].type # "reasoning" /\ ~sent[k].repeated
  /\ Deliver([kind |-> IF answer[k].type = "call" THEN "args done" ELSE "text done",
              name |-> Name(k), at |-> Index(k), body |-> answer[k].body])
  /\ sent' = [sent EXCEPT ![k].repeated = TRUE, ![k].told = Len(answer[k].body)] /\ Unchanged

FinishItem(k) ==
  /\ collector = "open" /\ (Speaks(k) \/ MayBegin(k))
  /\ Deliver([kind |-> "item done", item |-> Entire(k), at |-> Index(k)])
  /\ sent' = [sent EXCEPT ![k] = [begun |-> TRUE, told |-> Len(answer[k].body),
                                  repeated |-> TRUE, done |-> TRUE]]
  /\ Unchanged

(* The terminal event of a complete response names all items, or leaves      *)
(* them out when each was told in full; that of an incomplete one names      *)
(* what there is, the items that have begun: the first ones.                 *)
Conclude(reason, named) ==
  LET begun == {k \in DOMAIN answer : sent[k].begun}
      all == IF reason = "completed" THEN [k \in DOMAIN answer |-> Entire(k)]
             ELSE [k \in begun |-> Told(k, sent[k].told)]
  IN /\ collector = "open"
     /\ reason = "completed" /\ ~named =>
          \A k \in DOMAIN answer : sent[k].begun /\ sent[k].told = Len(answer[k].body)
     /\ Deliver([kind |-> "terminal", reason |-> reason, output |-> IF named THEN all ELSE <<>>])
     /\ UNCHANGED <<sent, answer, labels, faults>>

(* Events that a well-formed response does not have: an error, one that      *)
(* cannot be parsed, an item that contradicts what was told, any event after *)
(* the terminal one.  Events that the readers do not know are harmless.      *)
Disturb(e) ==
  /\ faults > 0
  /\ Deliver(e)
  /\ faults' = faults - 1
  /\ UNCHANGED <<sent, answer, labels>>

Contradictions ==
  {[kind |-> "item done", at |-> Index(k),
    item |-> [Entire(k) EXCEPT !.body = Reverse(@)]] : k \in {j \in DOMAIN answer : Speaks(j)}}

Disturbances ==
  {[kind |-> "malformed"], [kind |-> "other"]} \cup [kind : {"failed"}, usage : BOOLEAN]
    \cup Contradictions
-----------------------------------------------------------------------------
StreamInit ==
  /\ answer \in Answers
  /\ labels \in Labels
  /\ sent = [k \in DOMAIN answer |-> [begun |-> FALSE, told |-> 0, repeated |-> FALSE, done |-> FALSE]]
  /\ faults = MaxFaults
  /\ chat = NewState /\ whole = NewState /\ collector = "open"
  /\ phase = "prepare" /\ first = Quiet(NewState) /\ client = "there"
  /\ tools = <<>> /\ wire = <<>> /\ accounts = <<>>
  /\ StopInit

Proxy == WriteRole \/ WriteFirst \/ ReadCanceled \/ WriteHeld \/ WriteFinish \/ WriteUsage \/ WriteDone

Upstream ==
  \/ \E k \in DOMAIN answer :
       BeginItem(k) \/ RepeatItem(k) \/ FinishItem(k) \/ \E n \in Chunks : TellItem(k, n)
  \/ \E reason \in {"completed", "length", "content_filter"}, named \in BOOLEAN : Conclude(reason, named)
  \/ \E e \in Disturbances : Disturb(e)
  \/ \E oversized \in BOOLEAN : BodyEnds(oversized)

StreamNext == Proxy \/ Upstream \/ ClientLeaves

StreamSpec == StreamInit /\ [][StreamNext]_streamVars
-----------------------------------------------------------------------------
(* Properties. *)
Succeeded == accounts # <<>> /\ accounts[1].outcome = "success"

Plain(calls) == [i \in DOMAIN calls |-> [name |-> calls[i].name, args |-> calls[i].args]]

(* An item was noted at a place that is not its own: one that was reported   *)
(* done twice without an output index takes the place of the next.           *)
Misplaced ==
  \E i \in DOMAIN chat.items : chat.items[i].name \notin {NoName, i + 1}

(* The client has everything the stream has read, each letter and each tool  *)
(* call argument once, except what the filter holds back or has cut off      *)
(* (emitUpdate, reconcile...); and it knows each call by the name it has,    *)
(* unless an item out of place has made the terminal event take one call     *)
(* for another.                                                              *)
ClientSeesAll ==
  (phase \in {"read", "flush", "finish", "usage", "done"} \/ Succeeded) =>
    /\ said = chat.text
    /\ ~filter.stopped =>
         /\ Len(tools) = Len(chat.calls)
         /\ \A i \in DOMAIN tools : tools[i].args = chat.calls[i].args
         /\ ~Misplaced => tools = Plain(chat.calls)

(* A stream that ends well says what the aggregated answer to the same       *)
(* events says: the same text up to the stop sequence, the same tool calls   *)
(* and the same finish reason; and the other readers accept the response.    *)
StreamMatchesWhole ==
  Succeeded =>
    /\ whole.terminal /\ ~whole.failed /\ collector = "terminal"
    /\ filter.stopped <=> HasStop(whole.text)
    /\ Truncated(whole.text) = Before(shown, Len(Truncated(whole.text)))
    /\ ~Nested => shown = Truncated(whole.text)
    /\ ~filter.stopped => chat.finish = whole.finish
    /\ ~filter.stopped /\ ~Misplaced =>
         Len(tools) = Len(whole.calls) /\ ToSet(tools) = ToSet(Plain(whole.calls))

(* A request is accounted for once, when it ends.  [DONE] and success mean   *)
(* the same; a finish chunk means that the upstream response was complete;   *)
(* and after an error nothing is sent.                                       *)
OneAccount ==
  /\ Len(accounts) = IF phase = "end" THEN 1 ELSE 0
  /\ Succeeded <=> "done" \in ToSet(wire)
  /\ "finish" \in ToSet(wire) => chat.terminal /\ ~chat.failed /\ ended
  /\ "error" \in ToSet(wire) => wire = <<"role", "error">> /\ accounts[1].outcome = "failure"
=============================================================================
