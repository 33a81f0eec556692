---------------------------- MODULE UsageAccounting ----------------------------
(* The usage of connections in the buckets of usage.go: a WebSocket bridge   *)
(* whose two directions are copied by two goroutines (proxyCodexWebSocket),  *)
(* and requests whose response body is captured while it is copied           *)
(* (usageCaptureReadCloser).  Each records through RecordUsage, one          *)
(* transaction at a time; the reports read the table at any moment.          *)
EXTENDS Integers, Sequences, FiniteSetsExt

CONSTANTS
  Models, FirstModel,    \* the models of the bridge, and the one it was opened with
  NoModel,
  Bodies, Proxied,       \* the requests whose response body is captured, and those of the reverse proxy
  Together,              \* which connections run at once: the bridge is one, each body another
  Amounts,               \* the tokens a usage event may report
  Creates, Controls,     \* what messages name: a model, another setting, a skip mark; those that
                         \* ask for a response, and the others
  MaxRequests, MaxEvents, \* bounds: requests of the bridge, usage events over the bridge
  Times,                 \* the times the clock may show
  BucketDuration, Day,   \* in the unit of the clock
  Retention,             \* usageRetentionBucketCount
  Windows,               \* the windows of a report, in buckets, shorter than Retention or equal
  Steps                  \* the steps of a timeseries

ASSUME UsageAssumption ==
  /\ FirstModel \in Models
  /\ Creates \cup Controls \subseteq (Models \cup {NoModel}) \X BOOLEAN \X BOOLEAN
  /\ NoModel \notin Models /\ Bodies \cap Models = {} /\ Proxied \subseteq Bodies /\ "bridge" \notin Bodies
  /\ Together \subseteq SUBSET ({"bridge"} \cup Bodies)
  /\ Amounts \subseteq Nat /\ MaxRequests \in Nat /\ MaxEvents \in Nat
  /\ Times \subseteq Nat /\ Times # {} /\ IsFiniteSet(Times)
  /\ BucketDuration \in Nat \ {0} /\ Retention \in Nat \ {0} /\ Windows \subseteq 1 .. Retention
  /\ Day \in {n * BucketDuration : n \in 1 .. Retention}
  /\ Steps \subseteq {n * BucketDuration : n \in 1 .. Retention}

VARIABLES
  now,
  down,       \* s.ctx is done
  bridge,     \* where proxyCodexWebSocket is
  ends,       \* the connections of the client and of upstream that are open
  metadata,   \* metadata, under metadataMu
  inbound,    \* the goroutine from the client: where it is, and the message it has
  outbound,   \* the goroutine from upstream, and the event it has
  recorded,   \* recordedUsage, and recordedResponses
  bodies,     \* the captured bodies
  pending,    \* the record a connection waits to commit
  buckets,    \* usage_buckets
  requests,   \* what the bridge forwarded, and the usage upstream told of each
  named,      \* upstream names its responses
  settings,   \* those the messages sent upstream so far have left in force
  booked,     \* all that was ever committed
  excuse      \* a record was lost, or the client did not wait for a response

bridgeVars == <<bridge, ends, metadata, inbound, outbound, recorded, requests, named, settings>>
usageVars == <<now, down, bridgeVars, bodies, pending, buckets, booked, excuse>>
-----------------------------------------------------------------------------
(* Counters and buckets. *)
Zero == [requests |-> 0, failed |-> 0, tokens |-> 0]
Add(c, d) ==
  [requests |-> c.requests + d.requests, failed |-> c.failed + d.failed, tokens |-> c.tokens + d.tokens]
AddAll(counts, S) == FoldSet(LAMBDA x, c : Add(counts[x], c), Zero, S)

Truncated(t, duration) == t - (t % duration)
BucketStart(t) == Truncated(t, BucketDuration)
Starts == {BucketStart(t) : t \in Times}
Connections == {"bridge"} \cup Bodies
Dimensions == Models \cup Bodies

WindowStart(t, count) == BucketStart(t) - (count - 1) * BucketDuration
WindowEnd == BucketStart(now) + BucketDuration

(* pruneUsageData, by the time of the record it follows.  The variant keeps  *)
(* one bucket less.                                                          *)
Mutant_Pruned(t, table) ==
  [s \in Starts |-> IF s <= WindowStart(t, Retention) THEN [d \in Dimensions |-> Zero] ELSE table[s]]

Pruned(t, table) ==
  [s \in Starts |-> IF s < WindowStart(t, Retention) THEN [d \in Dimensions |-> Zero] ELSE table[s]]

Upsert(r, table) == [table EXCEPT ![BucketStart(r.at)][r.dimension] = Add(@, r.counters)]

(* RecordUsage counts a request unless the record only corrects an earlier   *)
(* one.                                                                      *)
NoRecord == [at |-> 0, dimension |-> FirstModel, counters |-> Zero, waits |-> FALSE]
Record(dimension, tokens, again, failed) ==
  [at |-> now, dimension |-> dimension, waits |-> TRUE,
   counters |-> [requests |-> IF again THEN 0 ELSE 1,
                 failed |-> IF failed /\ ~again THEN 1 ELSE 0, tokens |-> tokens]]

(* shouldRecordUsage: nothing is recorded once the server stops.             *)
Stamp(who, r) ==
  IF down THEN excuse' = excuse \cup {who} /\ UNCHANGED pending
  ELSE pending' = [pending EXCEPT ![who] = r] /\ UNCHANGED excuse

NothingToStamp == UNCHANGED <<pending, excuse>>

(* A record that cannot be stored is logged and lost.                        *)
Commit(who) ==
  /\ pending[who].waits
  /\ pending' = [pending EXCEPT ![who] = NoRecord]
  /\ \/ /\ buckets' = Pruned(pending[who].at, Upsert(pending[who], buckets))
        /\ booked' = Upsert(pending[who], booked)
        /\ UNCHANGED excuse
     \/ excuse' = excuse \cup {who} /\ UNCHANGED <<buckets, booked>>
  /\ UNCHANGED <<now, down, bridgeVars, bodies>>
-----------------------------------------------------------------------------
(* The bridge. *)
Idle == ~pending["bridge"].waits
Dialed == bridge = "dial" /\ UNCHANGED <<metadata, inbound, outbound, recorded, requests, named, settings>>
Elsewhere == UNCHANGED <<now, down, bodies, buckets, booked>>

(* A variant that closes the client's connection only.                       *)
Mutant_Closed == ends \ {"client"}

Closed == {}

(* executeUpstream, then the upgrade of the client's connection: either may  *)
(* fail and is booked, unless the client has gone.                           *)
Dial ==
  /\ Dialed /\ Elsewhere
  /\ \/ bridge' = "copy" /\ NothingToStamp /\ UNCHANGED ends
     \/ bridge' = "refused" /\ Stamp("bridge", Record(metadata.model, 0, FALSE, TRUE)) /\ UNCHANGED ends
     \/ bridge' = "canceled" /\ NothingToStamp /\ UNCHANGED ends

(* Any text message may name a model, another setting, or that nothing is   *)
(* to be generated, and is read by these fields only, whether it asks for a  *)
(* response or not; or it asks for a service tier that is not allowed.       *)
Message(kind, n) == [kind |-> kind, model |-> n[1], other |-> n[2], skip |-> n[3]]
Nothing == Message("control", <<NoModel, FALSE, FALSE>>)
Messages ==
  {Message("create", n) : n \in Creates} \cup {Message("control", n) : n \in Controls}
    \cup {Nothing, [Nothing EXCEPT !.kind = "fast"]}

Names(m) == m.model # NoModel \/ m.other \/ m.skip

(* mergeUsageMetadata.  The variant keeps a mark once it is set.             *)
Mutant_MergedKeepsSkip(m) ==
  [model |-> IF m.model = NoModel THEN metadata.model ELSE m.model, skip |-> metadata.skip \/ m.skip]

Merged(m) == [model |-> IF m.model = NoModel THEN metadata.model ELSE m.model, skip |-> m.skip]

(* The settings a message leaves in force: the model named last, and the     *)
(* mark of the last message that named anything.  A request is sent under    *)
(* those its own message leaves.                                             *)
Left(m) ==
  [model |-> IF m.model = NoModel THEN settings.model ELSE m.model,
   skip |-> IF Names(m) THEN m.skip ELSE settings.skip]

Asked(m) ==
  [model |-> Left(m).model, skip |-> Left(m).skip,
   first |-> -1, last |-> 0, events |-> 0, done |-> FALSE]

Waiting == \E i \in DOMAIN requests : ~requests[i].done

(* A message is read, refused or noted in the metadata, and then sent on.    *)
ReadMessage(m) ==
  /\ bridge = "copy" /\ inbound.at = "read" /\ "client" \in ends
  /\ m.kind = "create" => Len(requests) < MaxRequests
  /\ IF m.kind = "fast"
     THEN inbound' = [inbound EXCEPT !.at = "done"] /\ ends' = Closed /\ UNCHANGED <<metadata, excuse>>
     ELSE /\ inbound' = [at |-> "forward", message |-> m]
          /\ metadata' = IF Names(m) THEN Merged(m) ELSE metadata
          /\ excuse' = IF (m.kind = "create" \/ Names(m)) /\ Waiting THEN excuse \cup {"bridge"} ELSE excuse
          /\ UNCHANGED ends
  /\ UNCHANGED <<bridge, outbound, recorded, requests, named, settings, pending>> /\ Elsewhere

ForwardMessage ==
  /\ inbound.at = "forward" /\ "upstream" \in ends
  /\ inbound' = [at |-> "read", message |-> Nothing]
  /\ settings' = Left(inbound.message)
  /\ requests' = IF inbound.message.kind = "create" THEN Append(requests, Asked(inbound.message)) ELSE requests
  /\ UNCHANGED <<bridge, ends, metadata, outbound, recorded, named>>
  /\ NothingToStamp /\ Elsewhere

(* A goroutine whose connection fails closes both and is done.               *)
EndInbound ==
  /\ bridge = "copy"
  /\ \/ inbound.at = "read" /\ "client" \notin ends
     \/ inbound.at = "forward" /\ "upstream" \notin ends
  /\ inbound' = [at |-> "done", message |-> Nothing] /\ ends' = Closed
  /\ UNCHANGED <<bridge, metadata, outbound, recorded, requests, named, settings>>
  /\ NothingToStamp /\ Elsewhere

(* Upstream answers the requests in turn.  Its events may tell the usage of  *)
(* the response so far, more than once if they name it, and one is the last. *)
Answering == CHOOSE i \in DOMAIN requests : ~requests[i].done /\ \A j \in 1 .. i - 1 : requests[j].done

(* recordWebSocketUsage, with the metadata of the moment.                    *)
Recorded == IF named THEN recorded.responses[Answering] ELSE -1
Delta(tokens) == IF Recorded = -1 THEN tokens ELSE tokens - Recorded

Inspect(tokens) ==
  IF metadata.skip THEN recorded' = [recorded EXCEPT !.usage = TRUE] /\ NothingToStamp
  ELSE /\ recorded' = [usage |-> TRUE,
                       responses |-> IF named THEN [recorded.responses EXCEPT ![Answering] = tokens]
                                     ELSE recorded.responses]
       /\ IF Delta(tokens) = 0 THEN NothingToStamp
          ELSE Stamp("bridge", Record(metadata.model, Delta(tokens), Recorded # -1, FALSE))

ReadEvent(tells, tokens, last) ==
  LET r == requests[Answering] IN
  /\ bridge = "copy" /\ outbound.at = "read" /\ "upstream" \in ends /\ Waiting
  /\ tells \/ last
  /\ outbound' = [at |-> "forward", last |-> last]
  /\ IF tells
     THEN /\ named \/ r.events = 0
          /\ MapThenSumSet(LAMBDA i : requests[i].events, DOMAIN requests) < MaxEvents
          /\ requests' = [requests EXCEPT ![Answering].first = IF @ = -1 THEN tokens ELSE @,
                                          ![Answering].last = tokens, ![Answering].events = @ + 1]
          /\ Inspect(tokens)
     ELSE NothingToStamp /\ UNCHANGED <<requests, recorded>>
  /\ UNCHANGED <<bridge, ends, metadata, inbound, named, settings>> /\ Elsewhere

ForwardEvent ==
  /\ outbound.at = "forward" /\ Idle /\ "client" \in ends
  /\ outbound' = [at |-> "read", last |-> FALSE]
  /\ requests' = IF outbound.last THEN [requests EXCEPT ![Answering].done = TRUE] ELSE requests
  /\ UNCHANGED <<bridge, ends, metadata, inbound, recorded, named, settings>>
  /\ NothingToStamp /\ Elsewhere

EndOutbound ==
  /\ bridge = "copy"
  /\ \/ outbound.at = "read" /\ "upstream" \notin ends
     \/ outbound.at = "forward" /\ Idle /\ "client" \notin ends
  /\ outbound' = [at |-> "done", last |-> FALSE] /\ ends' = Closed
  /\ UNCHANGED <<bridge, metadata, inbound, recorded, requests, named, settings>>
  /\ NothingToStamp /\ Elsewhere

(* A bridge that carried no usage is booked as one request.                  *)
EndBridge ==
  /\ bridge = "copy" /\ inbound.at = "done" /\ outbound.at = "done"
  /\ bridge' = "ended"
  /\ IF recorded.usage THEN NothingToStamp
     ELSE Stamp("bridge", Record(metadata.model, 0, FALSE, FALSE))
  /\ UNCHANGED <<ends, metadata, inbound, outbound, recorded, requests, named, settings>> /\ Elsewhere

(* The peers leave when they like.                                           *)
Leave(peer) ==
  /\ bridge = "copy" /\ peer \in ends
  /\ ends' = ends \ {peer}
  /\ UNCHANGED <<bridge, metadata, inbound, outbound, recorded, requests, named, settings>>
  /\ NothingToStamp /\ Elsewhere

(* The end of the server ends the context of every request, and a goroutine  *)
(* of the context closes the bridge.                                         *)
Shutdown ==
  /\ ~down /\ down' = TRUE
  /\ UNCHANGED <<now, bridgeVars, bodies, pending, buckets, booked, excuse>>

CloseOnShutdown ==
  /\ down /\ bridge = "copy" /\ ends # {}
  /\ ends' = Closed
  /\ UNCHANGED <<bridge, metadata, inbound, outbound, recorded, requests, named, settings>>
  /\ NothingToStamp /\ Elsewhere
-----------------------------------------------------------------------------
(* The captured bodies.  The proxy closes the capture; the Responses handler *)
(* captures successful responses only, and closes the body below, which was  *)
(* in the place of the capture when it deferred the call.                    *)
Resting(b) == ~pending[b].waits

(* A response tells usage: in a line that is read as it passes by, or not,   *)
(* for it is too long or spreads over several.  The latter is only found in  *)
(* the payload in the end: if no line told any, and it was told before the   *)
(* payload was cut.                                                          *)
CaptureUsage(b, tokens, inLine) ==
  /\ bodies[b].at = "read" /\ Resting(b)
  /\ inLine \/ (~bodies[b].inLine /\ ~bodies[b].cut)
  /\ bodies' = [bodies EXCEPT ![b].tokens = tokens, ![b].inLine = inLine]
  /\ UNCHANGED <<now, down, bridgeVars, pending, buckets, booked, excuse>>

CutPayload(b) ==
  /\ bodies[b].at = "read" /\ Resting(b)
  /\ bodies' = [bodies EXCEPT ![b].cut = TRUE]
  /\ UNCHANGED <<now, down, bridgeVars, pending, buckets, booked, excuse>>

FinishOnce(b, at) ==
  /\ bodies' = [bodies EXCEPT ![b].at = at, ![b].finished = TRUE]
  /\ IF bodies[b].finished THEN NothingToStamp
     ELSE Stamp(b, Record(b, bodies[b].tokens, FALSE, bodies[b].failed))

CaptureEOF(b) ==
  /\ bodies[b].at = "read" /\ Resting(b)
  /\ FinishOnce(b, "read to its end")
  /\ UNCHANGED <<now, down, bridgeVars, buckets, booked>>

CaptureClose(b) ==
  /\ bodies[b].at \in {"read", "read to its end"} /\ Resting(b)
  /\ IF b \in Proxied THEN FinishOnce(b, "closed")
     ELSE bodies' = [bodies EXCEPT ![b].at = "closed"] /\ NothingToStamp
  /\ UNCHANGED <<now, down, bridgeVars, buckets, booked>>

(* The clock matters while a record waits only.                              *)
Tick ==
  /\ (\E who \in Connections : pending[who].waits)
  /\ \E t \in Times : t > now /\ now' = t
  /\ UNCHANGED <<down, bridgeVars, bodies, pending, buckets, booked, excuse>>
-----------------------------------------------------------------------------
(* Reports. *)
Total(table, from, to) ==
  LET in == {s \in Starts : from <= s /\ s < to}
  IN [d \in Dimensions |-> AddAll([s \in in |-> table[s][d]], in)]

(* The window of a report, in buckets, or the day.                           *)
DayStart == Truncated(now, Day)
Today == 0
From(window) == IF window = Today THEN DayStart ELSE WindowStart(now, window)

(* queryUsageTimeseries: the points of a window, by the step they begin in.  *)
Points(window, step) ==
  {Truncated(s, step) : s \in {u \in Starts : From(window) <= u /\ u < WindowEnd
                                   /\ \E d \in Dimensions : buckets[u][d] # Zero}}

Point(window, step, p) ==
  LET in == {s \in Starts : From(window) <= s /\ s < WindowEnd /\ Truncated(s, step) = p}
  IN [d \in Dimensions |-> AddAll([s \in in |-> buckets[s][d]], in)]

(* fillUsageTimeseriesZeros goes from the step the window begins in.         *)
Filled(window, step) ==
  {p \in Truncated(From(window), step) .. WindowEnd - 1 : (p - Truncated(From(window), step)) % step = 0}

Series(window, step) ==
  LET filled == Filled(window, step)
  IN [d \in Dimensions |-> AddAll([p \in filled |-> Point(window, step, p)[d]], filled)]
-----------------------------------------------------------------------------
UsageInit ==
  /\ now = Min(Times) /\ down = FALSE /\ excuse = {}
  /\ bridge \in {"dial", "none"} /\ ends = {"client", "upstream"}
  /\ metadata = [model |-> FirstModel, skip |-> FALSE] /\ settings = metadata
  /\ inbound = [at |-> "read", message |-> Nothing]
  /\ outbound = [at |-> "read", last |-> FALSE]
  /\ recorded = [usage |-> FALSE, responses |-> [r \in 1 .. MaxRequests |-> -1]]
  /\ requests = <<>> /\ named \in BOOLEAN
  /\ bodies \in [Bodies -> [at : {"read", "none"}, tokens : {0}, inLine : {FALSE}, cut : {FALSE}, finished : {FALSE},
                            failed : BOOLEAN]]
  /\ {c \in Connections : IF c = "bridge" THEN bridge = "dial" ELSE bodies[c].at = "read"} \in Together
  /\ bridge = "none" => named
  /\ \A b \in Bodies : bodies[b].at = "none" \/ b \notin Proxied => ~bodies[b].failed
  /\ pending = [who \in Connections |-> NoRecord]
  /\ buckets = [s \in Starts |-> [d \in Dimensions |-> Zero]]
  /\ booked = buckets

Copying ==
  \/ Dial \/ ForwardMessage \/ EndInbound \/ ForwardEvent \/ EndOutbound
  \/ EndBridge \/ CloseOnShutdown
  \/ \E who \in Connections : Commit(who)

Peers ==
  \/ \E m \in Messages : ReadMessage(m)
  \/ \E tokens \in Amounts, tells, last \in BOOLEAN : ReadEvent(tells, tokens, last)
  \/ \E peer \in {"client", "upstream"} : Leave(peer)

Captured ==
  \E b \in Bodies :
    \/ CutPayload(b) \/ CaptureEOF(b) \/ CaptureClose(b)
    \/ \E tokens \in Amounts, inLine \in BOOLEAN : CaptureUsage(b, tokens, inLine)

UsageNext == Copying \/ Peers \/ Captured \/ Shutdown \/ Tick

UsageSpec == UsageInit /\ [][UsageNext]_usageVars

(* The goroutines run, the database answers or fails, and a connection that  *)
(* is closed fails whoever uses it.  No write has a deadline: the peers need *)
(* not do anything, and neither need read what is sent to it.                *)
FairUsageSpec ==
  /\ UsageSpec
  /\ WF_usageVars(EndInbound) /\ WF_usageVars(EndOutbound) /\ WF_usageVars(EndBridge)
  /\ WF_usageVars(CloseOnShutdown) /\ WF_usageVars(Commit("bridge"))
-----------------------------------------------------------------------------
(* Properties. *)
Sum(table, d) == AddAll([s \in Starts |-> table[s][d]], Starts)

Told == {i \in DOMAIN requests : requests[i].first # -1}
Owed(m) == {i \in Told : requests[i].model = m /\ ~requests[i].skip}
Due(r) == [requests |-> IF r.first = 0 THEN 0 ELSE 1, failed |-> 0, tokens |-> r.last]

(* A client that waits for each response before it asks for another or names *)
(* settings has all the tokens upstream told of a request booked once, under *)
(* the settings in force when it was sent, and the request itself counted,   *)
(* unless what was told first was zero or those settings say that nothing is *)
(* generated; a bridge that never carried usage, or was refused, is one      *)
(* request of one model (recordWebSocketUsage, proxyCodexWebSocket).         *)
BridgeBooked ==
  (bridge = "ended" \/ bridge = "refused") /\ Idle /\ "bridge" \notin excuse =>
    IF Told = {}
    THEN \E used \in Models : \A m \in Models :
           Sum(booked, m) = IF m = used
                            THEN [requests |-> 1, failed |-> IF bridge = "refused" THEN 1 ELSE 0, tokens |-> 0]
                            ELSE Zero
    ELSE \A m \in Models :
           Sum(booked, m) = AddAll([i \in DOMAIN requests |-> Due(requests[i])], Owed(m))

(* A captured body is booked once, when it was read to its end or closed,    *)
(* with the usage told last in a line that is read, or else with what was    *)
(* told last in the payload before it was cut; not when a Responses stream   *)
(* is cut short, for which finishOnce is never called                        *)
(* (usageCaptureReadCloser; responses.go handleResponsesCreate).             *)
BodyBooked ==
  \A b \in Bodies :
    Resting(b) /\ b \notin excuse /\ bodies[b].at \in {"read to its end", "closed"} =>
      Sum(booked, b) = IF b \in Proxied \/ bodies[b].finished
                       THEN [requests |-> 1, failed |-> IF bodies[b].failed THEN 1 ELSE 0,
                             tokens |-> bodies[b].tokens]
                       ELSE Zero

UsageBooked == BridgeBooked /\ BodyBooked

(* Whatever records prune and in whatever order they commit, a report over a *)
(* window or the day shows all that was ever booked in it, and so does its   *)
(* timeseries in every step, with the steps nobody used filled in or not     *)
(* (pruneUsageData, aggregateUsageRangeDB, fillUsageTimeseriesZeros).        *)
ReportsComplete ==
  \A window \in Windows \cup {Today} :
    LET all == Total(booked, From(window), WindowEnd) IN
    /\ Total(buckets, From(window), WindowEnd) = all
    /\ \A step \in Steps : Points(window, step) \subseteq Filled(window, step) /\ Series(window, step) = all

(* A bridge ends once the server has, whatever both ends do; once the client *)
(* has gone, unless a message waits for ever for upstream to take it; and    *)
(* once upstream has gone, unless an event waits for ever for the client     *)
(* (closeBoth; copyWebSocketMessages writes without a deadline).             *)
BridgeOver == bridge \notin {"dial", "copy"} /\ Idle

BridgeEnds ==
  /\ (bridge = "copy" /\ down) ~> BridgeOver
  /\ (bridge = "copy" /\ "client" \notin ends) ~> (BridgeOver \/ [](inbound.at = "forward"))
  /\ (bridge = "copy" /\ "upstream" \notin ends) ~> (BridgeOver \/ [](outbound.at = "forward"))
=============================================================================
