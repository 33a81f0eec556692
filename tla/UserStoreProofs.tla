--------------------------- MODULE UserStoreProofs ---------------------------
(* Proofs about StorageFailure and UserStore, for any sets of requests,      *)
(* users and names.                                                          *)
EXTENDS UserStore, FiniteSetTheorems, TLAPS

-----------------------------------------------------------------------------
(* StorageFailure: what every operation of the store rests on.               *)

(* What the type invariant and the two properties rest on.  s.err is set     *)
(* exactly when s.once has begun; the one reporter is at its two steps       *)
(* exactly while it runs; s.errors has had an error only when it is over.    *)
FailureInv ==
  /\ StorageTypeOK
  /\ (fatal = NoRequest) <=> (once = "new")
  /\ \A r \in Requests : pc[r] \in {"cancel", "send"} => fatal = r /\ once = "running"
  /\ sent = 0 \/ (sent = 1 /\ once = "over")
  /\ \A r \in Requests : told[r] \in {NoRequest, fatal}

(* The writer between its look and its write holds s.mu, so s.err is as it   *)
(* was seen.                                                                 *)
CommitInv ==
  \A r \in Requests : pc[r] = "write" => mu = r /\ fatal = NoRequest

StorageInv == FailureInv /\ CommitInv

-----------------------------------------------------------------------------

LEMMA StorageInitInv == StorageInit => StorageInv
  <1> SUFFICES ASSUME StorageInit PROVE StorageInv
    OBVIOUS
  <1>1. StorageTypeOK
    BY DEF StorageInit, StorageTypeOK, Places, Responses
  <1>2. FailureInv
    <2>1. /\ fatal = NoRequest /\ once = "new" /\ sent = 0
          /\ \A r \in Requests : pc[r] = "new" /\ told[r] = NoRequest
      BY DEF StorageInit
    <2>2. QED
      BY <1>1, <2>1 DEF FailureInv
  <1>3. CommitInv
    BY DEF StorageInit, CommitInv
  <1>4. QED
    BY <1>2, <1>3 DEF StorageInv

(* A step that leaves the failure state and s.mu alone, moves one request to *)
(* a place that asks nothing of them, and tells it no more than s.err.       *)
LEMMA QuietStep ==
  ASSUME StorageInv, NEW r \in Requests,
         NEW place \in Places \ {"cancel", "send", "write"},
         Goto(r, place),
         UNCHANGED failureVars,
         canceled' \in BOOLEAN, main' = main,
         response' \in [Requests -> Responses],
         told' = told \/ told' = [told EXCEPT ![r] = fatal]
  PROVE  StorageInv'
  <1>1. pc' = [pc EXCEPT ![r] = place] /\ place \in Places
    BY DEF Goto
  <1>2. /\ fatal' = fatal /\ once' = once /\ mu' = mu /\ sent' = sent /\ queued' = queued
    BY DEF failureVars
  <1>3. StorageTypeOK'
    BY <1>1, <1>2 DEF StorageInv, FailureInv, StorageTypeOK
  <1>4. FailureInv'
    BY <1>1, <1>2, <1>3 DEF StorageInv, FailureInv, StorageTypeOK
  <1>5. CommitInv'
    BY <1>1, <1>2 DEF StorageInv, FailureInv, CommitInv, StorageTypeOK
  <1>6. QED
    BY <1>4, <1>5 DEF StorageInv

LEMMA QuietActions ==
  ASSUME StorageInv, NEW r \in Requests,
         \/ Begin(r) \/ CheckReady(r) \/ QueryRefused(r) \/ QueryFails(r) \/ Classify(r)
         \/ ReportLater(r) \/ Refuse(r) \/ StreamEnds(r)
         \/ \E place \in {"query", "check", "answer", "over"} : Query(r, place)
  PROVE  StorageInv'
  <1>1. \E place \in Places \ {"cancel", "send", "write"} : Goto(r, place)
    BY DEF Begin, CheckReady, QueryRefused, QueryFails, Classify, ReportLater, Refuse,
           StreamEnds, Query, AfterFailure, Places
  <1>2. UNCHANGED failureVars /\ main' = main
    BY DEF Begin, CheckReady, QueryRefused, QueryFails, Classify, ReportLater, Refuse,
           StreamEnds, Query, failureVars
  <1>3. /\ canceled' = canceled
        /\ told' = told \/ told' = [told EXCEPT ![r] = fatal]
        /\ response' = response \/ response' = [response EXCEPT ![r] = "refusal"]
    BY DEF Begin, CheckReady, QueryRefused, QueryFails, Classify, ReportLater, Refuse,
           StreamEnds, Query
  <1>4. canceled' \in BOOLEAN /\ response' \in [Requests -> Responses]
    BY <1>3 DEF StorageInv, FailureInv, StorageTypeOK, Responses
  <1>5. QED
    BY <1>1, <1>2, <1>3, <1>4, QuietStep

LEMMA ReportFirstInv ==
  ASSUME StorageInv, NEW r \in Requests, ReportFirst(r)
  PROVE  StorageInv'
  <1>1. /\ pc' = [pc EXCEPT ![r] = "cancel"] /\ once' = "running" /\ fatal' = r
        /\ UNCHANGED <<mu, sent, queued, canceled, response, told, main>>
        /\ once = "new" /\ mu = NoRequest
    BY DEF ReportFirst, Goto, RunsOnce, Unlocked
  <1>2. fatal = NoRequest /\ sent = 0
    BY <1>1 DEF StorageInv, FailureInv
  <1>3. StorageTypeOK'
    BY <1>1 DEF StorageInv, FailureInv, StorageTypeOK, Places
  <1>4. FailureInv'
    BY <1>1, <1>2, <1>3, StorageAssumption DEF StorageInv, FailureInv, StorageTypeOK
  <1>5. CommitInv'
    BY <1>1, <1>2, StorageAssumption DEF StorageInv, FailureInv, CommitInv, StorageTypeOK
  <1>6. QED
    BY <1>4, <1>5 DEF StorageInv

LEMMA CancelServerInv ==
  ASSUME StorageInv, NEW r \in Requests, CancelServer(r)
  PROVE  StorageInv'
  <1>1. /\ pc[r] = "cancel" /\ pc' = [pc EXCEPT ![r] = "send"] /\ canceled' = TRUE
        /\ UNCHANGED <<fatal, once, mu, sent, queued, response, told, main>>
    BY DEF CancelServer, Goto, failureVars
  <1>2. StorageTypeOK'
    BY <1>1 DEF StorageInv, FailureInv, StorageTypeOK, Places
  <1>3. FailureInv'
    BY <1>1, <1>2 DEF StorageInv, FailureInv, StorageTypeOK
  <1>4. CommitInv'
    BY <1>1 DEF StorageInv, FailureInv, CommitInv, StorageTypeOK
  <1>5. QED
    BY <1>3, <1>4 DEF StorageInv

LEMMA SendInv ==
  ASSUME StorageInv, NEW r \in Requests, Send(r)
  PROVE  StorageInv'
  <1> DEFINE next == AfterFailure(r)
  <1>1. /\ pc[r] = "send" /\ queued' = TRUE /\ sent' = sent + 1 /\ once' = "over"
        /\ told' = [told EXCEPT ![r] = fatal]
        /\ pc' = [pc EXCEPT ![r] = next]
        /\ UNCHANGED <<fatal, mu, canceled, response, main>>
    BY DEF Send, Goto
  <1>2. next \in {"refuse", "over"}
    BY DEF AfterFailure
  <1> HIDE DEF next
  <1>3. fatal = r /\ once = "running" /\ sent = 0
    BY <1>1 DEF StorageInv, FailureInv
  <1>4. StorageTypeOK'
    BY <1>1, <1>2, <1>3 DEF StorageInv, FailureInv, StorageTypeOK, Places
  <1>5. \A q \in Requests : pc'[q] \notin {"cancel", "send"}
    BY <1>1, <1>2, <1>3 DEF StorageInv, FailureInv, StorageTypeOK
  <1>6. FailureInv'
    BY <1>1, <1>3, <1>4, <1>5, StorageAssumption DEF StorageInv, FailureInv, StorageTypeOK
  <1>7. CommitInv'
    BY <1>1, <1>2 DEF StorageInv, FailureInv, CommitInv, StorageTypeOK
  <1>8. QED
    BY <1>6, <1>7 DEF StorageInv

LEMMA AnswerInv ==
  ASSUME StorageInv, NEW r \in Requests, Answer(r)
  PROVE  StorageInv'
  <1>1. /\ mu = NoRequest
        /\ UNCHANGED <<fatal, once, sent, queued, canceled, told, main>>
    BY DEF Answer, Unlocked
  <1>2. CASE fatal = NoRequest
    <2>1. mu' = r /\ pc' = [pc EXCEPT ![r] = "write"] /\ response' = response
      BY <1>2 DEF Answer, Locks, Goto
    <2>2. StorageTypeOK'
      BY <1>1, <2>1 DEF StorageInv, FailureInv, StorageTypeOK, Places
    <2>3. FailureInv'
      BY <1>1, <2>1, <2>2 DEF StorageInv, FailureInv, StorageTypeOK
    <2>4. CommitInv'
      BY <1>1, <1>2, <2>1, StorageAssumption
         DEF StorageInv, FailureInv, CommitInv, StorageTypeOK
    <2>5. QED
      BY <2>3, <2>4 DEF StorageInv
  <1>3. CASE fatal # NoRequest
    <2>1. /\ Goto(r, "over") /\ mu' = mu
          /\ response' = [response EXCEPT ![r] = "fatal"]
      BY <1>3 DEF Answer
    <2>2. response' \in [Requests -> Responses]
      BY <2>1 DEF StorageInv, FailureInv, StorageTypeOK, Responses
    <2>3. "over" \in Places \ {"cancel", "send", "write"}
      BY DEF Places
    <2>4. canceled' \in BOOLEAN /\ UNCHANGED failureVars
      BY <1>1, <2>1 DEF StorageInv, FailureInv, StorageTypeOK, failureVars
    <2>5. QED
      BY <1>1, <2>1, <2>2, <2>3, <2>4, QuietStep
  <1>4. QED
    BY <1>2, <1>3

LEMMA WriteInv ==
  ASSUME StorageInv, NEW r \in Requests, NEW place \in {"stream", "over"},
         Write(r, place)
  PROVE  StorageInv'
  <1>1. /\ pc[r] = "write" /\ mu' = NoRequest /\ pc' = [pc EXCEPT ![r] = place]
        /\ response' = [response EXCEPT ![r] = "success"]
        /\ UNCHANGED <<fatal, once, sent, queued, canceled, told, main>>
    BY DEF Write, Goto
  <1>2. StorageTypeOK'
    BY <1>1 DEF StorageInv, FailureInv, StorageTypeOK, Places, Responses
  <1>3. FailureInv'
    BY <1>1, <1>2 DEF StorageInv, FailureInv, StorageTypeOK
  <1>4. \A q \in Requests : pc[q] = "write" => q = r
    BY <1>1 DEF StorageInv, CommitInv
  <1>5. CommitInv'
    BY <1>1, <1>4 DEF StorageInv, FailureInv, CommitInv, StorageTypeOK
  <1>6. QED
    BY <1>3, <1>5 DEF StorageInv

(* The main goroutine touches neither s.err nor s.mu.                        *)
LEMMA MainInv ==
  ASSUME StorageInv, Process \/ Surroundings
  PROVE  StorageInv'
  <1>1. UNCHANGED <<fatal, once, mu, sent, pc, response, told>>
    BY DEF Process, Surroundings, ReceiveFatal, Shutdown, Exit, Signal, ListenerFails,
           failureVars, requestVars
  <1>2. /\ queued' \in BOOLEAN /\ canceled' \in BOOLEAN
        /\ main' \in {"serving", "stopping", "draining", "exited"}
    BY DEF Process, Surroundings, ReceiveFatal, Shutdown, Exit, Signal, ListenerFails,
           failureVars, requestVars, StorageInv, FailureInv, StorageTypeOK
  <1>3. QED
    BY <1>1, <1>2 DEF StorageInv, FailureInv, CommitInv, StorageTypeOK

LEMMA StorageNextInv ==
  ASSUME StorageInv, [StorageNext]_storageVars
  PROVE  StorageInv'
  <1>1. ASSUME NEW r \in Requests, Begin(r) \/ Going(r) \/ StreamEnds(r)
        PROVE  StorageInv'
    BY <1>1, QuietActions, ReportFirstInv, CancelServerInv, SendInv, AnswerInv, WriteInv
       DEF Going, Failing
  <1>2. CASE UNCHANGED storageVars
    BY <1>2 DEF storageVars, failureVars, requestVars, StorageInv, FailureInv, CommitInv,
                StorageTypeOK
  <1>3. QED
    BY <1>1, <1>2, MainInv DEF StorageNext

LEMMA StorageInvariant == StorageSpec => []StorageInv
  BY StorageInitInv, StorageNextInv, PTL DEF StorageSpec

-----------------------------------------------------------------------------

(* The failure state, the requests and the main goroutine always have their  *)
(* types.                                                                    *)
THEOREM StorageTypesHold == StorageSpec => []StorageTypeOK
  <1>1. StorageInv => StorageTypeOK
    BY DEF StorageInv, FailureInv
  <1>2. QED
    BY <1>1, StorageInvariant, PTL

(* However many requests meet a failure at once, all are told of the first,  *)
(* and the main goroutine is sent one error.                                 *)
THEOREM FirstFailureForAllHolds == StorageSpec => []FirstFailureForAll
  <1>1. StorageInv => FirstFailureForAll
    BY DEF StorageInv, FailureInv, FirstFailureForAll
  <1>2. QED
    BY <1>1, StorageInvariant, PTL

(* A response begins well only in a step after which no fatal error is       *)
(* recorded, for any number of requests.                                     *)
THEOREM NoSuccessAfterFatalHolds == StorageSpec => NoSuccessAfterFatal
  <1>1. ASSUME StorageInv, [StorageNext]_storageVars, NEW r \in Requests,
               response'[r] = "success", response[r] # "success"
        PROVE  fatal' = NoRequest
    <2>1. response' # response
      BY <1>1
    <2>2. PICK q \in Requests :
            \/ Refuse(q) \/ Answer(q)
            \/ \E place \in {"stream", "over"} : Write(q, place)
      BY <1>1, <2>1
         DEF StorageNext, Going, Failing, Process, Surroundings, Begin, CheckReady,
             QueryRefused, QueryFails, Classify, ReportFirst, CancelServer, Send,
             ReportLater, StreamEnds, Query, ReceiveFatal, Shutdown, Exit, Signal,
             ListenerFails, storageVars, requestVars
    <2>3. CASE Refuse(q) \/ Answer(q)
      BY <1>1, <2>3 DEF Refuse, Answer, StorageInv, FailureInv, StorageTypeOK
    <2>4. ASSUME NEW place \in {"stream", "over"}, Write(q, place)
          PROVE  fatal' = NoRequest
      BY <1>1, <2>4 DEF Write, StorageInv, CommitInv
    <2>5. QED
      BY <2>2, <2>3, <2>4
  <1>2. StorageInv /\ [StorageNext]_storageVars =>
          [\A r \in Requests : response'[r] = "success" /\ response[r] # "success"
                               => fatal' = NoRequest]_storageVars
    BY <1>1
  <1>3. QED
    BY <1>2, StorageInvariant, PTL DEF StorageSpec, NoSuccessAfterFatal

-----------------------------------------------------------------------------
(* UserStore.                                                                *)

(* The tables and the jobs have their types.                                 *)
TablesInv ==
  /\ DOMAIN users \subseteq Users
  /\ made \in Nat
  /\ keys \subseteq [user : Users, number : Nat \ {0}, enabled : BOOLEAN]
  /\ job \in [Requests -> Jobs \cup {NoJob}]
  /\ line \in [Requests -> Nat]
  /\ given \in [Requests -> Nat]
  /\ floor \in [Requests -> SUBSET Nat]

(* Where a request is in its statements tells where it can be in its answer, *)
(* and that the row it is about was found.                                   *)
LinesInv ==
  \A r \in Requests :
    /\ pc[r] = "new" => line[r] = 1 /\ response[r] = "none" /\ job[r] = NoJob
    /\ pc[r] \in {"answer", "write", "stream"} \/ response[r] = "success" =>
         (job[r].kind \in {"reset", "proxy"} => line[r] >= 3)
    /\ At(r, "update", 2) \/ At(r, "reset", 2) => job[r].user \in DOMAIN users

(* A user has one active key, and no key is ahead of its number.             *)
KeysInv ==
  /\ \A k \in keys : k.user \in DOMAIN users /\ k.number <= made
  /\ \A u \in DOMAIN users :
       \E k \in ActiveKeys(u) : \A other \in ActiveKeys(u) : other = k

(* The active key of a user is as new as every key a reset made, and a       *)
(* request that was let in came with one as new as those it knew of.         *)
ResetInv ==
  /\ \A r \in Requests : given[r] <= made /\ \A n \in floor[r] : n <= made
  /\ \A r \in Requests, k \in keys :
       k.enabled /\ job[r].kind = "reset" /\ line[r] >= 3 /\ job[r].user = k.user =>
         given[r] <= k.number
  /\ \A r \in Requests, k \in keys :
       k.enabled /\ job[r].kind = "proxy" /\ job[r].user = k.user =>
         \A n \in floor[r] : n <= k.number
  /\ \A r \in Requests :
       job[r].kind = "proxy" /\ line[r] >= 2 => \A n \in floor[r] : given[r] >= n

UserInv == TablesInv /\ LinesInv /\ KeysInv /\ ResetInv

-----------------------------------------------------------------------------
(* Every request on users and keys handles failure as StorageFailure says.   *)

LEMMA UserStepIsStorageStep ==
  ASSUME [UserNext]_userVars
  PROVE  [StorageNext]_storageVars
  <1>1. ASSUME NEW r \in Requests, \E j \in Jobs : Start(r, j)
        PROVE  StorageNext
    BY <1>1 DEF Start, StorageNext
  <1>2. ASSUME NEW r \in Requests, Statement(r)
        PROVE  StorageNext
    <2>1. CASE StatementFails(r)
      BY <2>1 DEF StatementFails, StorageNext, Going
    <2>2. CASE ~StatementFails(r)
      <3>1. \E place \in {"query", "check", "answer", "over"} : Query(r, place)
        BY <1>2, <2>2 DEF Statement, CreateUser, GetUser, UpdateUser, GetUpdatedUser,
           ResetUserAPIKey, AuthenticateAPIKey, TouchAPIKey, RecordUsage
      <3>2. QED
        BY <3>1 DEF StorageNext, Going
    <2>3. QED
      BY <2>1, <2>2
  <1>3. ASSUME NEW r \in Requests, Respond(r)
        PROVE  StorageNext
    BY <1>3 DEF Respond, StorageNext, Going
  <1>4. ASSUME NEW r \in Requests, StreamEnds(r)
        PROVE  StorageNext
    BY <1>4 DEF StorageNext
  <1>5. CASE UNCHANGED userVars
    BY <1>5 DEF userVars
  <1>6. CASE Process \/ Surroundings
    BY <1>6 DEF StorageNext
  <1>7. QED
    BY <1>1, <1>2, <1>3, <1>4, <1>5, <1>6 DEF UserNext

(* UserStore runs the statements of its requests within what StorageFailure  *)
(* allows, so whatever holds of every run of StorageFailure holds of it.     *)
THEOREM UserRefinesStorage == UserSpec => StorageSpec
  <1>1. UserInit => StorageInit
    BY DEF UserInit
  <1>2. [UserNext]_userVars => [StorageNext]_storageVars
    BY UserStepIsStorageStep
  <1>3. QED
    BY <1>1, <1>2, PTL DEF UserSpec, StorageSpec

-----------------------------------------------------------------------------
LEMMA UserInitInv == UserInit => UserInv
  <1> SUFFICES ASSUME UserInit PROVE UserInv
    OBVIOUS
  <1>1. PICK existing \in SUBSET Users :
          /\ IsFiniteSet(existing)
          /\ users \in [existing -> Row]
          /\ made = Cardinality(existing)
          /\ \E number \in [existing -> 1..Cardinality(existing)] :
               keys = {[user |-> u, number |-> number[u], enabled |-> TRUE] : u \in existing}
    BY DEF UserInit
  <1>2. made \in Nat
    BY <1>1, FS_CardinalityType
  <1>3. PICK number \in [existing -> 1..made] :
          keys = {[user |-> u, number |-> number[u], enabled |-> TRUE] : u \in existing}
    BY <1>1
  <1>4. /\ job = [r \in Requests |-> NoJob] /\ line = [r \in Requests |-> 1]
        /\ given = [r \in Requests |-> 0] /\ floor = [r \in Requests |-> {}]
        /\ pc = [r \in Requests |-> "new"] /\ response = [r \in Requests |-> "none"]
    BY DEF UserInit, StorageInit
  <1>5. NoJob.kind = "none"
    BY DEF NoJob
  <1>6. TablesInv
    <2>1. \A u \in existing : number[u] \in 1 .. made
      BY <1>3
    <2>2. keys \subseteq [user : Users, number : Nat \ {0}, enabled : BOOLEAN]
      <3>1. ASSUME NEW k \in keys
            PROVE  k \in [user : Users, number : Nat \ {0}, enabled : BOOLEAN]
        <4>1. PICK u \in existing : k = [user |-> u, number |-> number[u], enabled |-> TRUE]
          BY <1>3
        <4>2. number[u] \in Nat \ {0} /\ u \in Users
          BY <1>1, <1>2, <2>1
        <4>3. QED
          BY <4>1, <4>2
      <3>2. QED
        BY <3>1
    <2>3. QED
      BY <1>1, <1>2, <1>4, <2>2 DEF TablesInv
  <1>7. LinesInv
    BY <1>4, <1>5 DEF LinesInv, At
  <1>8. KeysInv
    <2>1. \A k \in keys : k.user \in DOMAIN users /\ k.number <= made
      BY <1>1, <1>2, <1>3
    <2>2. ASSUME NEW u \in existing
          PROVE  ActiveKeys(u) = {[user |-> u, number |-> number[u], enabled |-> TRUE]}
      BY <1>3, <2>2 DEF ActiveKeys
    <2>3. ASSUME NEW u \in existing
          PROVE  \E k \in ActiveKeys(u) : \A other \in ActiveKeys(u) : other = k
      BY <2>2, <2>3
    <2>4. QED
      BY <1>1, <2>1, <2>3 DEF KeysInv
  <1>9. ResetInv
    BY <1>2, <1>4, <1>5 DEF ResetInv
  <1>10. QED
    BY <1>6, <1>7, <1>8, <1>9 DEF UserInv

(* A step that leaves the tables and the jobs as they are.                   *)
LEMMA QuietUserStep ==
  ASSUME UserInv, UNCHANGED <<tableVars, job, line, given, floor>>,
         \A r \in Requests :
           /\ pc'[r] = "new" => pc[r] = "new" /\ response'[r] = response[r]
           /\ pc'[r] \in {"answer", "write", "stream"} \/ response'[r] = "success" =>
                pc[r] \in {"answer", "write", "stream"} \/ response[r] = "success"
  PROVE  UserInv'
  <1>1. TablesInv'
    BY DEF UserInv, TablesInv, tableVars
  <1>2. LinesInv'
    BY DEF UserInv, LinesInv, At, tableVars
  <1>3. KeysInv'
    BY DEF UserInv, KeysInv, ActiveKeys, tableVars
  <1>4. ResetInv'
    BY DEF UserInv, ResetInv, tableVars
  <1>5. QED
    BY <1>1, <1>2, <1>3, <1>4 DEF UserInv

LEMMA QuietUserActions ==
  ASSUME UserInv, StorageInv,
         \/ \E r \in Requests : Respond(r) \/ StatementFails(r) \/ RecordUsage(r)
              \/ (StreamEnds(r) /\ UNCHANGED <<tableVars, jobVars>>)
         \/ (Process \/ Surroundings) /\ UNCHANGED <<tableVars, jobVars>>
         \/ UNCHANGED userVars
  PROVE  UserInv'
  <1>1. UNCHANGED <<tableVars, job, line, given, floor>>
    BY DEF Respond, StatementFails, RecordUsage, jobVars, userVars, tableVars
  <1> DEFINE Fine ==
        \A r \in Requests :
           /\ pc'[r] = "new" => pc[r] = "new" /\ response'[r] = response[r]
           /\ pc'[r] \in {"answer", "write", "stream"} \/ response'[r] = "success" =>
                pc[r] \in {"answer", "write", "stream"} \/ response[r] = "success"
  <1>2. pc \in [Requests -> Places] /\ response \in [Requests -> Responses]
    BY DEF StorageInv, FailureInv, StorageTypeOK
  <1>3. ASSUME NEW r \in Requests, Answer(r) PROVE Fine
    BY <1>2, <1>3 DEF Answer, Goto
  <1>4. ASSUME NEW r \in Requests, NEW place \in {"stream", "over"}, Write(r, place) PROVE Fine
    BY <1>2, <1>4 DEF Write, Goto
  <1>5. ASSUME NEW r \in Requests, Refuse(r) PROVE Fine
    BY <1>2, <1>5 DEF Refuse, Goto
  <1>6. ASSUME NEW r \in Requests, StatementFails(r) \/ RecordUsage(r) \/ StreamEnds(r) PROVE Fine
    <2>1. PICK place \in {"query", "classify", "report", "cancel", "send", "refuse", "check", "over"} :
            pc' = [pc EXCEPT ![r] = place]
      BY <1>6 DEF StatementFails, RecordUsage, StreamEnds, QueryRefused, Failing, CheckReady, QueryFails,
         Classify, ReportFirst, CancelServer, Send, ReportLater, Query, Goto, AfterFailure
    <2>2. response' = response
      BY <1>6 DEF StatementFails, RecordUsage, StreamEnds, QueryRefused, Failing, CheckReady, QueryFails,
         Classify, ReportFirst, CancelServer, Send, ReportLater, Query
    <2>3. QED
      BY <1>2, <2>1, <2>2
  <1>7. ASSUME Process \/ Surroundings \/ UNCHANGED userVars PROVE Fine
    <2>1. UNCHANGED <<pc, response>>
      BY <1>7 DEF Process, Surroundings, ReceiveFatal, Shutdown, Exit, Signal, ListenerFails,
         requestVars, userVars, storageVars
    <2>2. QED
      BY <2>1
  <1>8. ASSUME NEW r \in Requests, Respond(r) PROVE Fine
    <2>1. (IF job[r].kind = "proxy" THEN "stream" ELSE "over") \in {"stream", "over"}
      OBVIOUS
    <2>2. QED
      BY <1>3, <1>4, <1>5, <1>8, <2>1 DEF Respond
  <1>9. Fine
    BY <1>6, <1>7, <1>8
  <1>10. QED
    BY <1>1, <1>9, QuietUserStep

-----------------------------------------------------------------------------
LEMMA StartInv ==
  ASSUME UserInv, StorageInv, NEW r \in Requests, NEW j \in Jobs, Start(r, j)
  PROVE  UserInv'
  <1>1. /\ pc[r] = "new" /\ response' = response /\ job' = [job EXCEPT ![r] = j]
        /\ UNCHANGED <<users, keys, made, line>>
    BY DEF Start, Begin, tableVars
  <1>2. PICK place \in {"refuse", "check"} : pc' = [pc EXCEPT ![r] = place]
    BY DEF Start, Begin, Goto
  <1>3. pc \in [Requests -> Places]
    BY DEF StorageInv, FailureInv, StorageTypeOK
  <1>4. line[r] = 1 /\ response[r] = "none"
    BY <1>1 DEF UserInv, LinesInv
  <1>5. ASSUME NEW u \in Users, NEW n \in HandedOut(u)
        PROVE  /\ n \in Nat /\ n <= made
               /\ \A k \in keys : k.enabled /\ k.user = u => n <= k.number
    <2>1. PICK q \in Requests : n = given[q] /\ job[q] = [kind |-> "reset", user |-> u]
                                /\ response[q] = "success"
      BY <1>5 DEF HandedOut
    <2>2. job[q].kind = "reset" /\ job[q].user = u
      BY <2>1
    <2>3. line[q] >= 3
      BY <2>1, <2>2 DEF UserInv, LinesInv
    <2>4. QED
      BY <2>1, <2>2, <2>3 DEF UserInv, ResetInv, TablesInv
  <1>6. CASE j.kind = "proxy"
    <2>1. j.user \in Users
      BY <1>6 DEF Jobs
    <2>2. PICK k \in keys : k.user = j.user /\ given' = [given EXCEPT ![r] = k.number]
      BY <1>6 DEF Start
    <2>3. floor' = [floor EXCEPT ![r] = HandedOut(j.user)]
      BY <1>6 DEF Start
    <2>4. k.number \in Nat /\ k.number <= made
      BY DEF UserInv, TablesInv, KeysInv
    <2>5. HandedOut(j.user) \in SUBSET Nat
      BY <1>5, <2>1
    <2>6. TablesInv'
      BY <1>1, <2>2, <2>3, <2>4, <2>5 DEF UserInv, TablesInv
    <2>7. LinesInv'
      BY <1>1, <1>2, <1>3, <1>4, <1>6 DEF UserInv, LinesInv, TablesInv, At
    <2>8. KeysInv'
      BY <1>1 DEF UserInv, KeysInv, ActiveKeys
    <2>9. ResetInv'
      <3>1. /\ \A q \in Requests \ {r} : job'[q] = job[q] /\ given'[q] = given[q] /\ floor'[q] = floor[q]
            /\ job'[r] = j /\ given'[r] = k.number /\ floor'[r] = HandedOut(j.user)
        BY <1>1, <2>2, <2>3 DEF UserInv, TablesInv
      <3>2. /\ \A n \in floor'[r] : n \in Nat /\ n <= made
            /\ \A n \in floor'[r], key \in keys : key.enabled /\ key.user = j.user => n <= key.number
        BY <1>5, <2>1, <3>1
      <3>3. QED
        BY <1>1, <1>4, <1>6, <2>4, <3>1, <3>2 DEF UserInv, ResetInv
    <2>10. QED
      BY <2>6, <2>7, <2>8, <2>9 DEF UserInv
  <1>7. CASE j.kind # "proxy"
    <2>1. UNCHANGED <<given, floor>>
      BY <1>7 DEF Start
    <2>2. TablesInv'
      BY <1>1, <2>1 DEF UserInv, TablesInv
    <2>3. LinesInv'
      BY <1>1, <1>2, <1>3, <1>4 DEF UserInv, LinesInv, TablesInv, At
    <2>4. KeysInv'
      BY <1>1 DEF UserInv, KeysInv, ActiveKeys
    <2>5. ResetInv'
      <3>1. \A q \in Requests \ {r} : job'[q] = job[q]
        BY <1>1 DEF UserInv, TablesInv
      <3>2. job'[r].kind # "proxy"
        BY <1>1, <1>7 DEF UserInv, TablesInv
      <3>3. QED
        BY <1>1, <1>4, <2>1, <3>1, <3>2 DEF UserInv, ResetInv
    <2>6. QED
      BY <2>2, <2>3, <2>4, <2>5 DEF UserInv
  <1>8. QED
    BY <1>6, <1>7

-----------------------------------------------------------------------------
(* A statement of a request that has begun: what it does to the request.     *)
Stepped(r, place) ==
  /\ pc[r] = "query" /\ pc' = [pc EXCEPT ![r] = place]
  /\ response' = response /\ job' = job /\ floor' = floor
  /\ line' = [line EXCEPT ![r] = @ + 1]

(* The statements that leave the tables alone.                               *)
LEMMA ReadingInv ==
  ASSUME UserInv, StorageInv, NEW r \in Requests,
         GetUser(r) \/ GetUpdatedUser(r) \/ AuthenticateAPIKey(r) \/ TouchAPIKey(r)
  PROVE  UserInv'
  <1>1. PICK place \in {"query", "answer"} : Stepped(r, place)
    BY DEF GetUser, GetUpdatedUser, AuthenticateAPIKey, TouchAPIKey, Query, Goto, NextLine, Stepped
  <1>2. UNCHANGED <<users, keys, made, given>>
    BY DEF GetUser, GetUpdatedUser, AuthenticateAPIKey, TouchAPIKey, tableVars
  <1>3. pc \in [Requests -> Places] /\ line \in [Requests -> Nat]
    BY DEF StorageInv, FailureInv, StorageTypeOK, UserInv, TablesInv
  <1>4. \/ At(r, "update", 1) /\ job[r].user \in DOMAIN users /\ place = "query"
        \/ At(r, "reset", 1) /\ job[r].user \in DOMAIN users /\ place = "query"
        \/ At(r, "update", 3)
        \/ At(r, "proxy", 1) /\ Authentic(job[r].user, given[r]) /\ place = "query"
        \/ At(r, "proxy", 2)
    <2>1. "query" # "answer"
      OBVIOUS
    <2>2. ASSUME Query(r, "query") PROVE place = "query"
      BY <1>1, <1>3, <2>2 DEF Query, Goto, Stepped
    <2>3. QED
      BY <2>2 DEF GetUser, GetUpdatedUser, AuthenticateAPIKey, TouchAPIKey
  <1>5. TablesInv'
    BY <1>1, <1>2 DEF UserInv, TablesInv, Stepped
  <1>6. LinesInv'
    <2>1. \A q \in Requests \ {r} : pc'[q] = pc[q] /\ line'[q] = line[q]
      BY <1>1, <1>3 DEF Stepped
    <2>2. pc'[r] = place /\ line'[r] = line[r] + 1
      BY <1>1, <1>3 DEF Stepped
    <2>3. response[r] = "success" => (job[r].kind \in {"reset", "proxy"} => line[r] >= 3)
      BY DEF UserInv, LinesInv
    <2>4. QED
      BY <1>1, <1>2, <1>3, <1>4, <2>1, <2>2, <2>3 DEF UserInv, LinesInv, At, Stepped
  <1>7. KeysInv'
    BY <1>2 DEF UserInv, KeysInv, ActiveKeys
  <1>8. ResetInv'
    <2>1. \A q \in Requests \ {r} : line'[q] = line[q]
      BY <1>1, <1>3 DEF Stepped
    <2>2. line'[r] = line[r] + 1
      BY <1>1, <1>3 DEF Stepped
    <2>3. job[r].kind = "reset" => line'[r] < 3
      BY <1>4, <2>2 DEF At
    <2>4. ASSUME job[r].kind = "proxy", NEW n \in floor[r] PROVE given[r] >= n
      <3>1. CASE line[r] >= 2
        BY <2>4, <3>1 DEF UserInv, ResetInv
      <3>2. CASE line[r] = 1
        <4>1. PICK k \in keys : k.enabled /\ k.user = job[r].user /\ k.number = given[r]
          BY <1>4, <2>4, <3>2 DEF At, Authentic, ActiveKeys
        <4>2. n <= k.number
          BY <2>4, <4>1 DEF UserInv, ResetInv
        <4>3. n \in Nat /\ k.number \in Nat
          BY <2>4 DEF UserInv, TablesInv
        <4>4. QED
          BY <4>1, <4>2, <4>3
      <3>3. QED
        BY <1>4, <2>4, <3>1, <3>2 DEF At
    <2>5. QED
      BY <1>1, <1>2, <1>3, <2>1, <2>2, <2>3, <2>4 DEF UserInv, ResetInv, Stepped
  <1>9. QED
    BY <1>5, <1>6, <1>7, <1>8 DEF UserInv

LEMMA UpdateUserInv ==
  ASSUME UserInv, StorageInv, NEW r \in Requests, UpdateUser(r)
  PROVE  UserInv'
  <1>1. Stepped(r, "check") /\ At(r, "update", 2) /\ UNCHANGED <<keys, made, given>>
    BY DEF UpdateUser, Query, Goto, NextLine, Stepped
  <1>2. DOMAIN users' = DOMAIN users
    BY DEF UpdateUser
  <1>3. pc \in [Requests -> Places] /\ line \in [Requests -> Nat]
    BY DEF StorageInv, FailureInv, StorageTypeOK, UserInv, TablesInv
  <1>4. TablesInv'
    BY <1>1, <1>2 DEF UserInv, TablesInv, Stepped
  <1>5. LinesInv'
    BY <1>1, <1>2, <1>3 DEF UserInv, LinesInv, At, Stepped
  <1>6. KeysInv'
    BY <1>1, <1>2 DEF UserInv, KeysInv, ActiveKeys
  <1>7. ResetInv'
    <2>1. \A q \in Requests \ {r} : line'[q] = line[q]
      BY <1>1, <1>3 DEF Stepped
    <2>2. job[r].kind = "update"
      BY <1>1 DEF At
    <2>3. QED
      BY <1>1, <2>1, <2>2 DEF UserInv, ResetInv, Stepped
  <1>8. QED
    BY <1>4, <1>5, <1>6, <1>7 DEF UserInv

-----------------------------------------------------------------------------
(* A new key is newer than all others.  CreateUser and ResetUserAPIKey make  *)
(* one for a user who has no other active key then.                          *)
LEMMA NewKeyInv ==
  ASSUME UserInv, NEW u \in Users, NEW r \in Requests,
         made' = made + 1, job' = job, floor' = floor,
         DOMAIN users' = DOMAIN users \cup {u},
         NewKey(u) \in keys',
         \A k \in keys' : \/ k = NewKey(u)
                          \/ k \in keys /\ (k.enabled => k.user # u)
                          \/ ~k.enabled /\ \E old \in keys : k = [old EXCEPT !.enabled = FALSE],
         \A k \in keys : k.enabled /\ k.user # u => k \in keys',
         \A q \in Requests \ {r} : given'[q] = given[q] /\ line'[q] = line[q],
         line' \in [Requests -> Nat], given' \in [Requests -> Nat],
         job[r].kind \in {"create", "reset"},
         \/ given'[r] = given[r] /\ job[r].kind = "create"
         \/ given'[r] = made + 1 /\ job[r].kind = "reset" /\ job[r].user = u
  PROVE  TablesInv' /\ KeysInv' /\ ResetInv'
  <1> DEFINE new == NewKey(u)
  <1>1. /\ made \in Nat /\ new \in [user : Users, number : Nat \ {0}, enabled : BOOLEAN]
        /\ new.user = u /\ new.number = made + 1 /\ new.enabled
    BY DEF UserInv, TablesInv, NewKey
  <1>2. ASSUME NEW k \in keys'
        PROVE  /\ k \in [user : Users, number : Nat \ {0}, enabled : BOOLEAN]
               /\ k.user \in DOMAIN users' /\ k.number <= made'
               /\ k.enabled => k = new \/ (k \in keys /\ k.user # u)
    <2>1. CASE k = new
      BY <1>1, <2>1
    <2>2. CASE k \in keys /\ (k.enabled => k.user # u)
      BY <1>1, <2>2 DEF UserInv, TablesInv, KeysInv
    <2>3. CASE ~k.enabled /\ \E old \in keys : k = [old EXCEPT !.enabled = FALSE]
      <3>1. PICK old \in keys : k = [old EXCEPT !.enabled = FALSE]
        BY <2>3
      <3>2. /\ old \in [user : Users, number : Nat \ {0}, enabled : BOOLEAN]
            /\ old.user \in DOMAIN users /\ old.number <= made
        BY DEF UserInv, TablesInv, KeysInv
      <3>3. /\ k \in [user : Users, number : Nat \ {0}, enabled : BOOLEAN]
            /\ k.user = old.user /\ k.number = old.number
        BY <3>1, <3>2
      <3>4. k.user \in DOMAIN users' /\ k.number <= made'
        BY <1>1, <3>2, <3>3
      <3>5. QED
        BY <2>3, <3>3, <3>4
    <2>4. QED
      BY <1>2, <2>1, <2>2, <2>3
  <1> HIDE DEF new
  <1>3. TablesInv'
    BY <1>1, <1>2 DEF UserInv, TablesInv
  <1>4. KeysInv'
    <2>1. ASSUME NEW v \in DOMAIN users'
          PROVE  \E k \in ActiveKeys(v)' : \A other \in ActiveKeys(v)' : other = k
      <3>1. CASE v = u
        BY <1>1, <1>2, <3>1 DEF ActiveKeys, new
      <3>2. CASE v # u
        <4>1. ActiveKeys(v)' = ActiveKeys(v)
          BY <1>1, <1>2, <3>2 DEF ActiveKeys
        <4>2. v \in DOMAIN users
          BY <2>1, <3>2
        <4>3. QED
          BY <4>1, <4>2 DEF UserInv, KeysInv
      <3>3. QED
        BY <3>1, <3>2
    <2>2. QED
      BY <1>2, <2>1 DEF KeysInv
  <1>5. ResetInv'
    <2>1. \A q \in Requests : given'[q] <= made' /\ \A n \in floor'[q] : n <= made'
      BY <1>1 DEF UserInv, TablesInv, ResetInv
    <2>2. ASSUME NEW q \in Requests, NEW k \in keys', k.enabled,
                 job[q].kind = "reset", line'[q] >= 3, job[q].user = k.user
          PROVE  given'[q] <= k.number
      <3>1. CASE k = new
        BY <1>1, <2>1, <3>1
      <3>2. CASE k \in keys /\ k.user # u
        BY <2>2, <3>2 DEF UserInv, ResetInv
      <3>3. QED
        BY <1>2, <2>2, <3>1, <3>2
    <2>3. ASSUME NEW q \in Requests, NEW k \in keys', k.enabled,
                 job[q].kind = "proxy", job[q].user = k.user, NEW n \in floor[q]
          PROVE  n <= k.number
      <3>1. CASE k = new
        BY <1>1, <2>1, <3>1
      <3>2. CASE k \in keys /\ k.user # u
        BY <2>3, <3>2 DEF UserInv, ResetInv
      <3>3. QED
        BY <1>2, <2>3, <3>1, <3>2
    <2>4. ASSUME NEW q \in Requests, job[q].kind = "proxy", line'[q] >= 2, NEW n \in floor[q]
          PROVE  given'[q] >= n
      <3>1. q # r
        BY <2>4
      <3>2. QED
        BY <2>4, <3>1 DEF UserInv, ResetInv
    <2>5. QED
      BY <2>1, <2>2, <2>3, <2>4 DEF ResetInv
  <1>6. QED
    BY <1>3, <1>4, <1>5

LEMMA CreateUserInv ==
  ASSUME UserInv, StorageInv, NEW r \in Requests, CreateUser(r)
  PROVE  UserInv'
  <1>1. Stepped(r, "answer") /\ At(r, "create", 1) /\ made' = made + 1 /\ given' = given
    BY DEF CreateUser, Query, Goto, NextLine, Stepped
  <1>2. PICK u \in Users \ DOMAIN users :
          DOMAIN users' = DOMAIN users \cup {u} /\ keys' = keys \cup {NewKey(u)}
    BY DEF CreateUser
  <1>3. pc \in [Requests -> Places] /\ line \in [Requests -> Nat] /\ given \in [Requests -> Nat]
    BY DEF StorageInv, FailureInv, StorageTypeOK, UserInv, TablesInv
  <1>4. /\ \A q \in Requests \ {r} : given'[q] = given[q] /\ line'[q] = line[q]
        /\ line' \in [Requests -> Nat] /\ job[r].kind = "create"
        /\ job' = job /\ floor' = floor
    BY <1>1, <1>3 DEF Stepped, At
  <1>5. \A k \in keys : k.user # u
    BY <1>2 DEF UserInv, KeysInv
  <1>6. TablesInv' /\ KeysInv' /\ ResetInv'
    BY <1>1, <1>2, <1>3, <1>4, <1>5, NewKeyInv
  <1>7. LinesInv'
    BY <1>1, <1>2, <1>3, <1>4 DEF UserInv, LinesInv, At, Stepped
  <1>8. QED
    BY <1>6, <1>7 DEF UserInv

LEMMA ResetUserAPIKeyInv ==
  ASSUME UserInv, StorageInv, NEW r \in Requests, ResetUserAPIKey(r)
  PROVE  UserInv'
  <1> DEFINE u == job[r].user
  <1>1. /\ Stepped(r, "answer") /\ At(r, "reset", 2) /\ made' = made + 1 /\ users' = users
        /\ given' = [given EXCEPT ![r] = made + 1] /\ keys' = Disabled(u, keys) \cup {NewKey(u)}
    BY DEF ResetUserAPIKey, Query, Goto, NextLine, Stepped, KeysAfterReset
  <1>2. u \in DOMAIN users /\ u \in Users
    BY <1>1 DEF UserInv, LinesInv, TablesInv
  <1>3. /\ pc \in [Requests -> Places] /\ line \in [Requests -> Nat]
        /\ given \in [Requests -> Nat] /\ made \in Nat
    BY DEF StorageInv, FailureInv, StorageTypeOK, UserInv, TablesInv
  <1>4. /\ \A q \in Requests \ {r} : given'[q] = given[q] /\ line'[q] = line[q]
        /\ line' \in [Requests -> Nat] /\ given' \in [Requests -> Nat]
        /\ job[r].kind = "reset" /\ given'[r] = made + 1
        /\ job' = job /\ floor' = floor
    BY <1>1, <1>3 DEF Stepped, At
  <1>5. \A k \in keys : k \in [user : Users, number : Nat \ {0}, enabled : BOOLEAN]
    BY DEF UserInv, TablesInv
  <1>6. DOMAIN users' = DOMAIN users \cup {u} /\ NewKey(u) \in keys'
    BY <1>1, <1>2
  <1>7. \A k \in keys' : \/ k = NewKey(u)
                         \/ k \in keys /\ (k.enabled => k.user # u)
                         \/ ~k.enabled /\ \E old \in keys : k = [old EXCEPT !.enabled = FALSE]
    BY <1>1, <1>5 DEF Disabled
  <1>8. \A k \in keys : k.enabled /\ k.user # u => k \in keys'
    BY <1>1, <1>5 DEF Disabled
  <1> HIDE DEF u
  <1>9. TablesInv' /\ KeysInv' /\ ResetInv'
    BY <1>1, <1>2, <1>3, <1>4, <1>6, <1>7, <1>8, NewKeyInv DEF u
  <1>10. LinesInv'
    BY <1>1, <1>3, <1>4 DEF UserInv, LinesInv, At, Stepped
  <1>11. QED
    BY <1>9, <1>10 DEF UserInv

LEMMA UserNextInv ==
  ASSUME UserInv, StorageInv, [UserNext]_userVars
  PROVE  UserInv'
  <1>1. ASSUME NEW r \in Requests, Statement(r) PROVE UserInv'
    BY <1>1, ReadingInv, UpdateUserInv, CreateUserInv, ResetUserAPIKeyInv, QuietUserActions
       DEF Statement
  <1>2. QED
    BY <1>1, StartInv, QuietUserActions DEF UserNext

LEMMA UserInvariant == UserSpec => [](UserInv /\ StorageInv)
  <1>1. UserInit => UserInv /\ StorageInv
    BY UserInitInv, StorageInitInv DEF UserInit
  <1>2. UserInv /\ StorageInv /\ [UserNext]_userVars => UserInv' /\ StorageInv'
    BY UserNextInv, UserStepIsStorageStep, StorageNextInv
  <1>3. QED
    BY <1>1, <1>2, PTL DEF UserSpec

-----------------------------------------------------------------------------
(* Every user has exactly one active key in every state, for any number of   *)
(* users, requests and keys.                                                 *)
THEOREM OneActiveKeyHolds == UserSpec => []OneActiveKey
  <1>1. UserInv => OneActiveKey
    <2> SUFFICES ASSUME UserInv, NEW u \in DOMAIN users
                 PROVE  Cardinality(ActiveKeys(u)) = 1
      BY DEF OneActiveKey
    <2>1. PICK k \in ActiveKeys(u) : \A other \in ActiveKeys(u) : other = k
      BY DEF UserInv, KeysInv
    <2>2. ActiveKeys(u) = {k}
      BY <2>1
    <2>3. QED
      BY <2>2, FS_Singleton
  <1>2. QED
    BY <1>1, UserInvariant, PTL

(* No request that arrived after a reset had handed out its key is served    *)
(* with an older key of that user, for any number of resets and requests.    *)
THEOREM ResetCutsOffHolds == UserSpec => []ResetCutsOff
  <1>1. UserInv => ResetCutsOff
    <2> SUFFICES ASSUME UserInv, NEW r \in Requests, job[r].kind = "proxy",
                        response[r] = "success", NEW number \in floor[r]
                 PROVE  given[r] >= number
      BY DEF ResetCutsOff
    <2>1. line[r] >= 3 /\ line[r] \in Nat
      BY DEF UserInv, LinesInv, TablesInv
    <2>2. QED
      BY <2>1 DEF UserInv, ResetInv
  <1>2. QED
    BY <1>1, UserInvariant, PTL

-----------------------------------------------------------------------------
(* An update that is about to write has read a row, so what it writes is one.*)
RowsInv ==
  /\ users \in [DOMAIN users -> Row]
  /\ read \in [Requests -> Row \cup {NoRow}]
  /\ \A r \in Requests : At(r, "update", 2) => read[r] \in Row

LEMMA RowsInitInv == UserInit => RowsInv
  BY DEF UserInit, RowsInv, At

LEMMA RowsNextInv ==
  ASSUME RowsInv, UserInv, StorageInv, [UserNext]_userVars
  PROVE  RowsInv'
  <1>1. line \in [Requests -> Nat] /\ job \in [Requests -> Jobs \cup {NoJob}]
    BY DEF UserInv, TablesInv
  <1>2. ASSUME UNCHANGED <<users, read, job, line>> PROVE RowsInv'
    BY <1>2 DEF RowsInv, At
  <1>3. ASSUME NEW r \in Requests, NEW j \in Jobs, Start(r, j) PROVE RowsInv'
    <2>1. UNCHANGED <<users, read, line>> /\ job' = [job EXCEPT ![r] = j] /\ line[r] = 1
      BY <1>3 DEF Start, Begin, tableVars, UserInv, LinesInv
    <2>2. \A q \in Requests : At(q, "update", 2)' => At(q, "update", 2)
      BY <1>1, <2>1 DEF At
    <2>3. QED
      BY <2>1, <2>2 DEF RowsInv
  <1>4. ASSUME NEW r \in Requests, GetUser(r) PROVE RowsInv'
    <2>1. /\ users' = users /\ job' = job /\ line' = [line EXCEPT ![r] = @ + 1]
          /\ read' = [read EXCEPT ![r] = IF job[r].kind = "update" THEN users[job[r].user] ELSE NoRow]
          /\ job[r].user \in DOMAIN users
      BY <1>4 DEF GetUser, NextLine, tableVars
    <2>2. users[job[r].user] \in Row
      BY <2>1 DEF RowsInv
    <2>3. QED
      BY <1>1, <2>1, <2>2 DEF RowsInv, At
  <1>5. ASSUME NEW r \in Requests, UpdateUser(r) PROVE RowsInv'
    <2>1. /\ job' = job /\ line' = [line EXCEPT ![r] = @ + 1] /\ line[r] = 2 /\ job[r].kind = "update"
          /\ read' = [read EXCEPT ![r] = NoRow]
          /\ users' = [users EXCEPT ![job[r].user] =
               [name |-> Chosen(job[r].name, read[r].name),
                enabled |-> Chosen(job[r].enabled, read[r].enabled)]]
      BY <1>5 DEF UpdateUser, NextLine, At
    <2>2. job[r].name \in Names \cup {Keep} /\ job[r].enabled \in BOOLEAN \cup {Keep}
      <3>1. NoJob.kind # "update"
        BY DEF NoJob
      <3>2. job[r] \in Jobs
        BY <1>1, <2>1, <3>1
      <3>3. QED
        BY <2>1, <3>2 DEF Jobs
    <2>3. read[r] \in Row
      BY <2>1 DEF RowsInv, At
    <2>4. /\ Chosen(job[r].name, read[r].name) \in Names
          /\ Chosen(job[r].enabled, read[r].enabled) \in BOOLEAN
      BY <2>2, <2>3 DEF Chosen, Row
    <2>5. users' \in [DOMAIN users' -> Row]
      BY <2>1, <2>4 DEF RowsInv, Row
    <2>6. QED
      BY <1>1, <2>1, <2>5 DEF RowsInv, At
  <1>6. ASSUME NEW r \in Requests, CreateUser(r) PROVE RowsInv'
    <2>1. job' = job /\ read' = read /\ line' = [line EXCEPT ![r] = @ + 1] /\ job[r].kind = "create"
      BY <1>6 DEF CreateUser, NextLine, At
    <2>2. PICK u \in Users \ DOMAIN users :
            users' = [v \in DOMAIN users \cup {u} |->
              IF v = u THEN [name |-> job[r].name, enabled |-> job[r].enabled] ELSE users[v]]
      BY <1>6 DEF CreateUser
    <2>3. [name |-> job[r].name, enabled |-> job[r].enabled] \in Row
      <3>1. NoJob.kind # "create"
        BY DEF NoJob
      <3>2. job[r] \in Jobs
        BY <1>1, <2>1, <3>1
      <3>3. QED
        BY <2>1, <3>2 DEF Jobs, Row
    <2>4. QED
      BY <1>1, <2>1, <2>2, <2>3 DEF RowsInv, At
  <1>7. ASSUME NEW r \in Requests,
               GetUpdatedUser(r) \/ AuthenticateAPIKey(r) \/ TouchAPIKey(r) \/ ResetUserAPIKey(r)
        PROVE  RowsInv'
    <2>1. /\ UNCHANGED <<users, job, read>> /\ line' = [line EXCEPT ![r] = @ + 1]
          /\ At(r, "update", 1) => FALSE
      BY <1>7 DEF GetUpdatedUser, AuthenticateAPIKey, TouchAPIKey, ResetUserAPIKey, NextLine, tableVars, At
    <2>2. QED
      BY <1>1, <2>1 DEF RowsInv, At
  <1>8. ASSUME NEW r \in Requests, RecordUsage(r) \/ StatementFails(r) \/ Respond(r) PROVE RowsInv'
    BY <1>2, <1>8 DEF RecordUsage, StatementFails, Respond, tableVars, jobVars
  <1>9. QED
    BY <1>2, <1>3, <1>4, <1>5, <1>6, <1>7, <1>8 DEF UserNext, Statement, userVars, tableVars, jobVars

(* The tables, the requests and the failure state keep their types; an       *)
(* update never writes a row it has not read.                                *)
THEOREM UserTypesHold == UserSpec => []UserTypeOK
  <1>1. UserInit => RowsInv
    BY RowsInitInv
  <1>2. RowsInv /\ UserInv /\ StorageInv /\ [UserNext]_userVars => RowsInv'
    BY RowsNextInv
  <1>3. UserInv /\ StorageInv /\ RowsInv => UserTypeOK
    BY DEF UserInv, TablesInv, StorageInv, FailureInv, RowsInv, UserTypeOK
  <1>4. QED
    BY <1>1, <1>2, <1>3, UserInvariant, PTL DEF UserSpec
=============================================================================
