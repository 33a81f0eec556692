---------------------------- MODULE StorageFailure ---------------------------
(***************************************************************************)
(* What the process does when SQLite fails it: storage_failure.go, the     *)
(* response writer around every request (storage_response_writer.go), the  *)
(* entry of ServeHTTP, and the main goroutine (cmd/server/cli.go).         *)
(*                                                                         *)
(* A request is a goroutine that runs a few operations of the store, then  *)
(* writes its response; a response that has begun well may go on as a      *)
(* stream or a hijacked connection, and usage is recorded at its end.      *)
(* Which operations a request runs is left open here; UserStore says it    *)
(* for those on users and keys.                                            *)
(***************************************************************************)
EXTENDS Naturals

CONSTANTS
  Requests,
  NoRequest

ASSUME StorageAssumption == NoRequest \notin Requests

VARIABLES
  fatal,     \* s.err: the request whose failure was the first
  once,      \* s.once: "new", "running" or "over"
  mu,        \* who holds s.mu for writing across steps
  sent,      \* how many errors were ever sent to s.errors
  queued,    \* an error is in s.errors, a channel of capacity one
  canceled,  \* the server's context is done
  pc,        \* request |-> what it does next
  response,  \* request |-> how its response began
  told,      \* request |-> whose failure its store operation returned
  main       \* the main goroutine

failureVars == <<fatal, once, mu, sent, queued>>
requestVars == <<pc, response, told>>
storageVars == <<failureVars, canceled, requestVars, main>>

Places ==
  {"new", "check", "query", "classify", "report", "cancel", "send", "refuse",
   "answer", "write", "stream", "over"}

Responses == {"none", "success", "refusal", "fatal"}

Serving == main # "exited"

Goto(r, place) == pc' = [pc EXCEPT ![r] = place]

(* RLock and Lock of s.mu wait for a commit to end.                        *)
Unlocked == mu = NoRequest

-----------------------------------------------------------------------------
(* The request.                                                            *)

(* ServeHTTP refuses at once when the server's context is done, and gives  *)
(* the request a context of its own otherwise.                             *)
Begin(r) ==
  /\ pc[r] = "new" /\ Serving
  /\ canceled => Unlocked
  /\ Goto(r, IF canceled THEN "refuse" ELSE "check")
  /\ UNCHANGED <<failureVars, canceled, response, told, main>>

(* A store operation has ended: well, and the request goes on to place, or *)
(* with an error, which a request that has answered already only logs.     *)
AfterFailure(r) == IF response[r] = "none" THEN "refuse" ELSE "over"

(* checkReady.                                                             *)
CheckReady(r) ==
  /\ pc[r] = "check" /\ Serving /\ Unlocked
  /\ IF fatal = NoRequest
     THEN Goto(r, "query") /\ UNCHANGED told
     ELSE /\ Goto(r, AfterFailure(r))
          /\ told' = [told EXCEPT ![r] = fatal]
  /\ UNCHANGED <<failureVars, canceled, response, main>>

(* A statement or transaction of the store succeeds, and place is next.    *)
Query(r, place) ==
  /\ pc[r] = "query" /\ Serving
  /\ Goto(r, place)
  /\ UNCHANGED <<failureVars, canceled, response, told, main>>

(* It fails as expectedStoreError expects: the row is missing, a constraint*)
(* holds, the request's context is done.                                   *)
QueryRefused(r) ==
  /\ pc[r] = "query" /\ Serving
  /\ Goto(r, AfterFailure(r))
  /\ UNCHANGED <<failureVars, canceled, response, told, main>>

(* It fails otherwise: the disk is full, the file damaged or gone.  Other  *)
(* statements may succeed after it.                                        *)
QueryFails(r) ==
  /\ pc[r] = "query" /\ Serving
  /\ Goto(r, "classify")
  /\ UNCHANGED <<failureVars, canceled, response, told, main>>

(* databaseError looks whether a failure is known already.                 *)
Classify(r) ==
  /\ pc[r] = "classify" /\ Serving /\ Unlocked
  /\ IF fatal = NoRequest
     THEN Goto(r, "report") /\ UNCHANGED told
     ELSE /\ Goto(r, AfterFailure(r))
          /\ told' = [told EXCEPT ![r] = fatal]
  /\ UNCHANGED <<failureVars, canceled, response, main>>

(* report: one goroutine runs the body of once.Do, the others wait for it. *)
(* The mutant runs it for everyone who comes before it is over.            *)
Mutant_RunsOnceUntilOver == once # "over"

RunsOnce == once = "new"

ReportFirst(r) ==
  /\ pc[r] = "report" /\ Serving
  /\ RunsOnce /\ Unlocked
  /\ once' = "running"
  /\ fatal' = r
  /\ Goto(r, "cancel")
  /\ UNCHANGED <<mu, sent, queued, canceled, response, told, main>>

(* onReport is the cancel function of the server's context.                *)
CancelServer(r) ==
  /\ pc[r] = "cancel" /\ Serving
  /\ canceled' = TRUE
  /\ Goto(r, "send")
  /\ UNCHANGED <<failureVars, response, told, main>>

(* A reporter is told s.current(), the first failure.                      *)
Send(r) ==
  /\ pc[r] = "send" /\ Serving
  /\ ~queued
  /\ queued' = TRUE
  /\ sent' = sent + 1
  /\ once' = "over"
  /\ told' = [told EXCEPT ![r] = fatal]
  /\ Goto(r, AfterFailure(r))
  /\ UNCHANGED <<fatal, mu, canceled, response, main>>

ReportLater(r) ==
  /\ pc[r] = "report" /\ Serving
  /\ once = "over" /\ Unlocked
  /\ told' = [told EXCEPT ![r] = fatal]
  /\ Goto(r, AfterFailure(r))
  /\ UNCHANGED <<failureVars, canceled, response, main>>

-----------------------------------------------------------------------------
(* The response.  A good status or a hijack goes through commit, which     *)
(* holds s.mu around the look at s.err and the write; a bad status is      *)
(* written as it is.  After a fatal error the writer answers 500 and drops *)
(* the rest.  The mutant of Locks lets go of s.mu between look and write.  *)
Mutant_LocksNothing(r) == NoRequest

Locks(r) == r

Answer(r) ==
  /\ pc[r] = "answer" /\ Serving /\ Unlocked
  /\ IF fatal = NoRequest
     THEN /\ mu' = Locks(r)
          /\ Goto(r, "write")
          /\ UNCHANGED response
     ELSE /\ response' = [response EXCEPT ![r] = "fatal"]
          /\ Goto(r, "over")
          /\ UNCHANGED mu
  /\ UNCHANGED <<fatal, once, sent, queued, canceled, told, main>>

Write(r, place) ==
  /\ pc[r] = "write" /\ Serving
  /\ mu' = NoRequest
  /\ response' = [response EXCEPT ![r] = "success"]
  /\ Goto(r, place)
  /\ UNCHANGED <<fatal, once, sent, queued, canceled, told, main>>

Refuse(r) ==
  /\ pc[r] = "refuse" /\ Serving
  /\ response' = [response EXCEPT ![r] = "refusal"]
  /\ Goto(r, "over")
  /\ UNCHANGED <<failureVars, canceled, told, main>>

(* A stream or connection ends when its ends like, and when the server's   *)
(* context is done; then its usage is recorded, or there is none.          *)
StreamEnds(r) ==
  /\ pc[r] = "stream" /\ Serving
  /\ Goto(r, "check") \/ Goto(r, "over")
  /\ UNCHANGED <<failureVars, canceled, response, told, main>>

-----------------------------------------------------------------------------
(* The main goroutine: waitForServer takes whichever comes first, a signal,*)
(* the fatal error or the failure of the listener.                         *)
Signal ==
  /\ main = "serving"
  /\ main' = "stopping"
  /\ UNCHANGED <<failureVars, canceled, requestVars>>

ReceiveFatal ==
  /\ main = "serving" /\ queued
  /\ queued' = FALSE
  /\ main' = "stopping"
  /\ UNCHANGED <<fatal, once, mu, sent, canceled, requestVars>>

ListenerFails ==
  /\ main = "serving"
  /\ main' = "exited"
  /\ UNCHANGED <<failureVars, canceled, requestVars>>

(* handler.Shutdown; then server.Shutdown waits for the requests, but no   *)
(* more than ten seconds, and the process ends.  The mutant waits for all. *)
Shutdown ==
  /\ main = "stopping"
  /\ main' = "draining"
  /\ canceled' = TRUE
  /\ UNCHANGED <<failureVars, requestVars>>

Mutant_DrainedIdle == main = "draining" /\ \A r \in Requests : pc[r] \in {"new", "over"}

Drained == main = "draining"

Exit ==
  /\ Drained
  /\ main' = "exited"
  /\ UNCHANGED <<failureVars, canceled, requestVars>>

-----------------------------------------------------------------------------
StorageInit ==
  /\ fatal = NoRequest /\ once = "new" /\ mu = NoRequest
  /\ sent = 0 /\ queued = FALSE
  /\ canceled = FALSE
  /\ pc = [r \in Requests |-> "new"]
  /\ response = [r \in Requests |-> "none"]
  /\ told = [r \in Requests |-> NoRequest]
  /\ main = "serving"

(* The steps in which a request deals with failure; which statements it    *)
(* runs and what it writes is left open.                                   *)
Failing(r) ==
  \/ CheckReady(r) \/ QueryFails(r) \/ Classify(r) \/ ReportFirst(r) \/ CancelServer(r)
  \/ Send(r) \/ ReportLater(r)

Going(r) ==
  \/ Failing(r) \/ QueryRefused(r) \/ Answer(r) \/ Refuse(r)
  \/ \E place \in {"query", "check", "answer", "over"} : Query(r, place)
  \/ \E place \in {"stream", "over"} : Write(r, place)

Process == ReceiveFatal \/ Shutdown \/ Exit

Surroundings == Signal \/ ListenerFails

StorageNext ==
  \/ \E r \in Requests : Begin(r) \/ Going(r) \/ StreamEnds(r)
  \/ Process \/ Surroundings

StorageSpec == StorageInit /\ [][StorageNext]_storageVars

(* A request that can go on does, and so does the main goroutine; nothing  *)
(* is assumed of clients, streams, signals or the listener.                *)
StorageFairSpec ==
  /\ StorageSpec
  /\ \A r \in Requests : WF_storageVars(Going(r))
  /\ WF_storageVars(Process)

-----------------------------------------------------------------------------
(* The failure state, the requests and the main goroutine have their types.*)
StorageTypeOK ==
  /\ queued \in BOOLEAN /\ canceled \in BOOLEAN
  /\ fatal \in Requests \cup {NoRequest} /\ mu \in Requests \cup {NoRequest}
  /\ once \in {"new", "running", "over"}
  /\ sent \in Nat
  /\ pc \in [Requests -> Places]
  /\ response \in [Requests -> Responses]
  /\ told \in [Requests -> Requests \cup {NoRequest}]
  /\ main \in {"serving", "stopping", "draining", "exited"}

(* No response begins well, and no connection is hijacked, once a fatal    *)
(* storage error is recorded, whichever requests are just about to answer. *)
NoSuccessAfterFatal ==
  [][\A r \in Requests :
       response'[r] = "success" /\ response[r] # "success" => fatal' = NoRequest]_storageVars

(* Concurrent failures share the first one: every request that met one is  *)
(* told of the same, and one error is sent to the main goroutine.          *)
FirstFailureForAll ==
  /\ \A r \in Requests : told[r] \in {NoRequest, fatal}
  /\ sent <= 1

(* A recorded failure stops the process, although the request that reports *)
(* it waits for s.mu, for the others, and for room in the channel.         *)
FatalStopsProcess == fatal # NoRequest ~> main = "exited"
=============================================================================
