-------------------------- MODULE ModelCatalogProofs --------------------------
(***************************************************************************)
(* Theorems about ModelCatalog for any number of versions, auths, callers, *)
(* fetches and entries.  What the properties say of the states of a        *)
(* current entry becomes inductive together with its converse: a fetch of  *)
(* an auth that was never removed holds the mark it set.  The last part is *)
(* about the LRU list and the map of versions.                             *)
(***************************************************************************)
EXTENDS ModelCatalog, SequenceTheorems, TLAPS

(* A fetch that runs is of some auth for some entry, and the answer it     *)
(* carries is a revision the upstream catalog has had.                     *)
FetchesTyped ==
  \A t \in Tasks : Running(t) =>
    /\ tasks[t].entry \in Entries /\ tasks[t].auth \in Auths
    /\ tasks[t].phase = "ok" =>
         1 <= tasks[t].revision /\ tasks[t].revision <= revisions[tasks[t].auth]

(* What holds of one auth of a current entry: its marks have their fetches *)
(* and it is not forgotten; and, if it was never removed, one fetch at     *)
(* most, which holds the mark it set and will not make the snapshot older. *)
StateKept(e, a) ==
  LET s == auths[e][a] IN
  s # NoState =>
    /\ s.foreground # NoTask =>
         s.foreground \in Tasks /\ Fetches(s.foreground, e, a) /\ Foreground(s.foreground)
    /\ s.background => \E t \in Tasks : Fetches(t, e, a) /\ ~Foreground(t)
    /\ s.snapshot = 0 /\ s.foreground = NoTask /\ ~s.background => s.exhausted \/ closed
    /\ s.snapshot <= revisions[a]

FetchesHold(e, a) ==
  LET s == auths[e][a] IN
  \A t \in Tasks : Fetches(t, e, a) =>
    /\ s # NoState
    /\ Foreground(t) => s.foreground = t
    /\ ~Foreground(t) => s.background
    /\ tasks[t].phase = "ok" => s.snapshot <= tasks[t].revision
    /\ \A u \in Tasks : Fetches(u, e, a) => t = u

PairKept(e, a) == StateKept(e, a) /\ (a \notin removed => FetchesHold(e, a))

CatalogInv ==
  /\ CatalogTypes
  /\ FetchesTyped
  /\ CallsWillClose
  /\ \A e \in Entries, a \in Auths : EntryCurrent(e) => PairKept(e, a)

-----------------------------------------------------------------------------
\* The constants of the records have their types.
LEMMA ConstantTypes ==
  /\ EmptyState \in States
  /\ NoStates \in [Auths -> States \cup {NoState}]
  /\ IdleTask \in FetchTasks /\ IdleCaller \in CatalogCallers
  BY CatalogAssumption DEF EmptyState, States, NoStates, IdleTask, FetchTasks, IdleCaller,
     CatalogCallers

\* SetState changes the state of one auth of one entry.
LEMMA SetStateGives ==
  ASSUME CatalogTypes, NEW t \in Tasks, tasks[t].entry \in Entries, tasks[t].auth \in Auths,
         NEW s \in States, SetState(t, s)
  PROVE  /\ auths' \in [Entries -> [Auths -> States \cup {NoState}]]
         /\ auths'[tasks[t].entry][tasks[t].auth] = s
         /\ \A e \in Entries, a \in Auths :
              e # tasks[t].entry \/ a # tasks[t].auth => auths'[e][a] = auths[e][a]
  BY DEF CatalogTypes, SetState

\* The states that the operations of a task write.
LEMMA WrittenStates ==
  ASSUME NEW s \in States, CatalogTypes, NEW a \in Auths,
         NEW revision \in 0 .. MaxRevision, NEW exhausted \in BOOLEAN
  PROVE  /\ Applied(s, revision) \in States
         /\ Failed(s) \in States
         /\ Finished(s, a, exhausted) \in States
  <1>1. Applied(s, revision) \in States
    <2>1. s.foreground \in Tasks \cup {NoTask}
      BY DEF States
    <2>2. 0 \in 0 .. MaxEpoch
      BY CatalogAssumption
    <2>3. QED
      BY <2>1, <2>2 DEF Applied, States
  <1>2. Failed(s) \in States
    BY DEF Failed, States
  <1>3. CASE exhausted = TRUE
    <2>1. epochs[a] \in 0 .. MaxEpoch
      BY DEF CatalogTypes
    <2>2. Finished(s, a, exhausted) \in States
      BY <1>3, <2>1 DEF Finished, States
    <2>3. QED
      BY <1>1, <1>2, <2>2
  <1>4. CASE exhausted = FALSE
    <2>1. Finished(s, a, exhausted) \in States
      BY <1>4 DEF Finished, States
    <2>2. QED
      BY <1>1, <1>2, <2>1
  <1>5. QED
    BY <1>3, <1>4

\* A step that leaves the entries, their states and the fetches alone, and
\* starts no caller, keeps the invariant.
LEMMA QuietKeeps ==
  ASSUME CatalogInv, CatalogTypes', UNCHANGED <<versions, auths, tasks, removed>>,
         closed => closed', \A a \in Auths : revisions[a] <= revisions'[a],
         \A c \in Callers : Waiting(c)' => Waiting(c) /\ callers'[c].calls \subseteq callers[c].calls
  PROVE  CatalogInv'
  <1>1. /\ \A e \in Entries : EntryCurrent(e)' = EntryCurrent(e)
        /\ \A e \in Entries : KnownTo(e)' = KnownTo(e)
        /\ \A t \in Tasks : Running(t)' = Running(t) /\ Foreground(t)' = Foreground(t)
        /\ \A t \in Tasks : StateOf(t)' = StateOf(t)
        /\ \A t \in Tasks, e \in Entries, a \in Auths : Fetches(t, e, a)' = Fetches(t, e, a)
    BY DEF EntryCurrent, KnownTo, Running, Foreground, StateOf, Fetches
  <1>2. FetchesTyped'
    BY <1>1, SMT DEF FetchesTyped, CatalogInv, CatalogTypes, FetchTasks
  <1>3. CallsWillClose'
    BY <1>1 DEF CallsWillClose, CatalogInv, CatalogTypes, CatalogCallers
  <1>4. ASSUME NEW e \in Entries, NEW a \in Auths, EntryCurrent(e)'
        PROVE  PairKept(e, a)'
    <2>1. PairKept(e, a)
      BY <1>1, <1>4 DEF CatalogInv
    <2>2. StateKept(e, a)'
      <3>1. auths[e][a] # NoState =>
              /\ auths[e][a].snapshot \in Int
              /\ revisions[a] \in Int /\ revisions'[a] \in Int
        BY DEF CatalogInv, CatalogTypes, States
      <3>2. QED
        BY <1>1, <2>1, <3>1 DEF PairKept, StateKept
    <2>3. a \notin removed => FetchesHold(e, a)'
      BY <1>1, <2>1 DEF PairKept, FetchesHold
    <2>4. QED
      BY <2>2, <2>3 DEF PairKept
  <1>5. QED
    BY <1>2, <1>3, <1>4 DEF CatalogInv

-----------------------------------------------------------------------------
\* One step of a fetch t that writes at most the state of its own auth: what
\* such a step leaves alone.
OwnStep(t) ==
  /\ UNCHANGED <<versions, removed, closed, revisions>>
  /\ \A u \in Tasks \ {t} : tasks'[u] = tasks[u]
  /\ \A e \in Entries, a \in Auths :
       e # tasks[t].entry \/ a # tasks[t].auth => auths'[e][a] = auths[e][a]

LEMMA OwnStepFrame ==
  ASSUME NEW t \in Tasks, OwnStep(t)
  PROVE  /\ \A e \in Entries : EntryCurrent(e)' = EntryCurrent(e)
         /\ \A e \in Entries, a \in Auths :
              e # tasks[t].entry \/ a # tasks[t].auth => (a \in KnownTo(e))' = (a \in KnownTo(e))
         /\ \A u \in Tasks \ {t} : Running(u)' = Running(u) /\ Foreground(u)' = Foreground(u)
         /\ \A u \in Tasks \ {t}, e \in Entries, a \in Auths : Fetches(u, e, a)' = Fetches(u, e, a)
  BY DEF OwnStep, EntryCurrent, KnownTo, Running, Foreground, Fetches

\* The calls a step closes are gone, and the others still run.
LEMMA CallsKept ==
  ASSUME CatalogInv, CatalogTypes', NEW t \in Tasks, OwnStep(t),
         \/ CloseCall(t)
         \/ callers' = callers /\ ~Foreground(t)
         \/ callers' = callers /\ Running(t)' /\ Foreground(t)'
  PROVE  CallsWillClose'
  <1>1. \A c \in Callers : Waiting(c)' => Waiting(c) /\ callers'[c].calls \subseteq callers[c].calls
    BY DEF CloseCall, Waiting, CatalogInv, CatalogTypes, CatalogCallers
  <1>2. ASSUME NEW c \in Callers, Waiting(c)', NEW u \in callers'[c].calls
        PROVE  Running(u)' /\ Foreground(u)'
    <2>1. u \in Tasks /\ Waiting(c) /\ u \in callers[c].calls
      BY <1>1, <1>2 DEF CatalogTypes, CatalogInv, CatalogCallers
    <2>2. Running(u) /\ Foreground(u)
      BY <2>1 DEF CatalogInv, CallsWillClose
    <2>3. CASE u # t
      BY <2>1, <2>2, <2>3, OwnStepFrame
    <2>4. CASE u = t
      <3>1. CloseCall(t) => u \notin callers'[c].calls
        BY <2>1, <2>4 DEF CloseCall, CatalogInv, CatalogTypes, CatalogCallers, Waiting
      <3>2. QED
        BY <1>2, <2>2, <2>4, <3>1
    <2>5. QED
      BY <2>3, <2>4
  <1>3. QED
    BY <1>2 DEF CallsWillClose

\* The other auths and entries keep what holds of them.
LEMMA OthersKept ==
  ASSUME CatalogInv, NEW t \in Tasks, OwnStep(t), Running(t),
         Running(t)' => tasks'[t].entry = tasks[t].entry /\ tasks'[t].auth = tasks[t].auth,
         NEW e \in Entries, NEW a \in Auths, EntryCurrent(e)',
         e # tasks[t].entry \/ a # tasks[t].auth
  PROVE  PairKept(e, a)'
  <1>1. PairKept(e, a)
    BY OwnStepFrame DEF CatalogInv
  <1>2. \A u \in Tasks : Fetches(u, e, a)' = Fetches(u, e, a)
    <2>1. ~Fetches(t, e, a) /\ ~Fetches(t, e, a)'
      BY DEF Fetches, Running
    <2>2. QED
      BY <2>1 DEF OwnStep, Fetches, Running
  <1>3. \A u \in Tasks : Fetches(u, e, a) => u # t
    BY DEF Fetches
  <1>4. auths'[e][a] = auths[e][a] /\ closed' = closed /\ revisions' = revisions /\ removed' = removed
    BY DEF OwnStep
  <1>5. \A u \in Tasks \ {t} : tasks'[u] = tasks[u] /\ Foreground(u)' = Foreground(u)
    BY OwnStepFrame DEF OwnStep
  <1>6. StateKept(e, a)'
    BY <1>1, <1>2, <1>3, <1>4, <1>5 DEF PairKept, StateKept
  <1>7. a \notin removed => FetchesHold(e, a)'
    BY <1>1, <1>2, <1>3, <1>4, <1>5 DEF PairKept, FetchesHold
  <1>8. QED
    BY <1>4, <1>6, <1>7 DEF PairKept

\* What is left to show of such a step: it keeps the types, the calls and
\* what holds of its own auth.
LEMMA OwnStepKeeps ==
  ASSUME CatalogInv, CatalogTypes', NEW t \in Tasks, OwnStep(t), Running(t),
         CallsWillClose',
         Running(t)' => /\ tasks'[t].entry = tasks[t].entry /\ tasks'[t].auth = tasks[t].auth
                        /\ tasks'[t].phase = "ok" =>
                             \/ tasks[t].phase = "ok" /\ tasks'[t].revision = tasks[t].revision
                             \/ tasks'[t].revision = revisions[tasks[t].auth],
         \A e \in Entries, a \in Auths :
           EntryCurrent(e) /\ tasks[t].entry = e /\ tasks[t].auth = a => PairKept(e, a)'
  PROVE  CatalogInv'
  <1>1. FetchesTyped'
    <2>1. revisions' = revisions /\ \A a \in Auths : revisions[a] \in Int /\ 1 <= revisions[a]
      BY DEF OwnStep, CatalogInv, CatalogTypes
    <2>2. ASSUME NEW u \in Tasks, Running(u)'
          PROVE  /\ tasks'[u].entry \in Entries /\ tasks'[u].auth \in Auths
                 /\ tasks'[u].phase = "ok" =>
                      1 <= tasks'[u].revision /\ tasks'[u].revision <= revisions[tasks'[u].auth]
      <3>1. CASE u # t
        BY <2>2, <3>1 DEF CatalogInv, FetchesTyped, OwnStep, Running
      <3>2. CASE u = t
        <4>1. tasks[t].entry \in Entries /\ tasks[t].auth \in Auths
          BY DEF CatalogInv, FetchesTyped
        <4>2. tasks[t].phase = "ok" =>
                1 <= tasks[t].revision /\ tasks[t].revision <= revisions[tasks[t].auth]
          BY DEF CatalogInv, FetchesTyped
        <4>3. QED
          BY <2>1, <2>2, <3>2, <4>1, <4>2
      <3>3. QED
        BY <3>1, <3>2
    <2>3. QED
      BY <2>1, <2>2 DEF FetchesTyped
  <1>2. ASSUME NEW e \in Entries, NEW a \in Auths, EntryCurrent(e)'
        PROVE  PairKept(e, a)'
    <2>1. CASE e # tasks[t].entry \/ a # tasks[t].auth
      BY <1>2, <2>1, OthersKept
    <2>2. CASE e = tasks[t].entry /\ a = tasks[t].auth
      BY <1>2, <2>2, OwnStepFrame
    <2>3. QED
      BY <2>1, <2>2
  <1>3. QED
    BY <1>1, <1>2 DEF CatalogInv

-----------------------------------------------------------------------------
\* The steps of a fetch, one by one.  An idle task has no part in them.
LEMMA FetchAnswersKeeps ==
  ASSUME CatalogInv, NEW t \in Tasks, FetchAnswers(t)
  PROVE  CatalogInv'
  <1>1. Running(t) /\ tasks[t] \in FetchTasks /\ tasks[t].entry \in Entries /\ tasks[t].auth \in Auths
    BY DEF CatalogInv, CatalogTypes, FetchesTyped, FetchAnswers, Running
  <1>2. revisions[tasks[t].auth] \in 1 .. MaxRevision /\ epochs[tasks[t].auth] + 1 \in 0 .. MaxEpoch
    BY <1>1, CatalogAssumption DEF CatalogInv, CatalogTypes, FetchAnswers
  <1>3. /\ tasks'[t] \in FetchTasks
        /\ tasks'[t].phase = "ok" /\ tasks'[t].revision = revisions[tasks[t].auth]
        /\ tasks'[t].kind = tasks[t].kind
        /\ tasks'[t].entry = tasks[t].entry /\ tasks'[t].auth = tasks[t].auth
        /\ \A u \in Tasks \ {t} : tasks'[u] = tasks[u]
    <2> DEFINE answered == [tasks[t] EXCEPT !.phase = "ok"]
    <2>1. /\ tasks'[t] = [answered EXCEPT !.revision = revisions[tasks[t].auth]]
          /\ \A u \in Tasks \ {t} : tasks'[u] = tasks[u]
      BY DEF FetchAnswers, CatalogInv, CatalogTypes
    <2>2. /\ answered \in FetchTasks /\ answered.phase = "ok" /\ answered.kind = tasks[t].kind
          /\ answered.entry = tasks[t].entry /\ answered.auth = tasks[t].auth
      BY <1>1 DEF FetchTasks
    <2> HIDE DEF answered
    <2>3. QED
      BY <1>1, <1>2, <2>1, <2>2 DEF FetchTasks
  <1>4. CatalogTypes'
    <2>1. tasks' \in [Tasks -> FetchTasks] /\ epochs' \in [Auths -> 0 .. MaxEpoch]
      BY <1>1, <1>2, <1>3 DEF FetchAnswers, CatalogInv, CatalogTypes
    <2>2. QED
      BY <2>1 DEF FetchAnswers, cacheVars, CatalogInv, CatalogTypes
  <1>5. OwnStep(t)
    BY <1>3 DEF OwnStep, FetchAnswers, cacheVars
  <1>6. CallsWillClose'
    <2>1. Running(t)' /\ Foreground(t)' = Foreground(t) /\ callers' = callers
      BY <1>3 DEF Running, Foreground, FetchAnswers
    <2>2. QED
      BY <2>1, <1>4, <1>5, CallsKept
  <1>7. ASSUME NEW e \in Entries, NEW a \in Auths,
               EntryCurrent(e), tasks[t].entry = e, tasks[t].auth = a
        PROVE  PairKept(e, a)'
    <2>1. PairKept(e, a) /\ auths' = auths /\ removed' = removed /\ closed' = closed
          /\ revisions' = revisions
      BY <1>7 DEF CatalogInv, FetchAnswers, cacheVars
    <2>2. \A u \in Tasks : Fetches(u, e, a)' = Fetches(u, e, a) /\ Foreground(u)' = Foreground(u)
      BY <1>1, <1>3 DEF Fetches, Running, Foreground
    <2>3. StateKept(e, a)'
      BY <2>1, <2>2 DEF PairKept, StateKept
    <2>4. ASSUME a \notin removed
          PROVE  FetchesHold(e, a)'
      <3>1. \A u \in Tasks : Fetches(u, e, a)' =>
              /\ auths[e][a] # NoState
              /\ Foreground(u)' => auths[e][a].foreground = u
              /\ ~Foreground(u)' => auths[e][a].background
              /\ \A w \in Tasks : Fetches(w, e, a)' => u = w
        BY <2>1, <2>2, <2>4 DEF PairKept, FetchesHold
      <3>2. auths[e][a] # NoState => auths[e][a].snapshot <= tasks'[t].revision
        BY <2>1, <1>3, <1>7 DEF PairKept, StateKept
      <3>3. \A u \in Tasks : Fetches(u, e, a)' /\ tasks'[u].phase = "ok" =>
              auths[e][a].snapshot <= tasks'[u].revision
        BY <1>3, <2>1, <2>2, <2>4, <3>1, <3>2 DEF PairKept, FetchesHold
      <3>4. QED
        BY <2>1, <3>1, <3>3 DEF FetchesHold
    <2>5. QED
      BY <2>1, <2>3, <2>4 DEF PairKept
  <1>8. QED
    BY <1>1, <1>3, <1>4, <1>5, <1>6, <1>7, OwnStepKeeps

LEMMA FetchFailsKeeps ==
  ASSUME CatalogInv, NEW t \in Tasks, FetchFails(t)
  PROVE  CatalogInv'
  <1>1. /\ Running(t) /\ tasks[t] \in FetchTasks /\ tasks[t].phase = "fetch"
        /\ tasks[t].entry \in Entries /\ tasks[t].auth \in Auths
    BY DEF CatalogInv, CatalogTypes, FetchesTyped, FetchFails, Running
  <1>2. /\ tasks'[t] \in FetchTasks
        /\ tasks'[t].phase \in {"fetch", "failed"}
        /\ tasks'[t].kind = tasks[t].kind
        /\ tasks'[t].entry = tasks[t].entry /\ tasks'[t].auth = tasks[t].auth
        /\ \A u \in Tasks \ {t} : tasks'[u] = tasks[u]
    <2>1. CASE /\ ~Foreground(t) /\ tasks[t].tries < Retries
               /\ tasks' = [tasks EXCEPT ![t].tries = @ + 1]
      <3>1. tasks[t].tries + 1 \in 0 .. Retries
        BY <1>1, <2>1, CatalogAssumption DEF FetchTasks
      <3>2. QED
        BY <1>1, <2>1, <3>1 DEF CatalogInv, CatalogTypes, FetchTasks
    <2>2. CASE tasks' = [tasks EXCEPT ![t].phase = "failed"]
      BY <1>1, <2>2 DEF CatalogInv, CatalogTypes, FetchTasks
    <2>3. QED
      BY <2>1, <2>2 DEF FetchFails
  <1>3. CatalogTypes'
    <2>1. tasks' \in [Tasks -> FetchTasks]
      BY <1>2 DEF FetchFails, CatalogInv, CatalogTypes
    <2>2. QED
      BY <2>1 DEF FetchFails, cacheVars, healthVars, CatalogInv, CatalogTypes
  <1>4. OwnStep(t)
    BY <1>2 DEF OwnStep, FetchFails, cacheVars
  <1>5. CallsWillClose'
    <2>1. Running(t)' /\ Foreground(t)' = Foreground(t) /\ callers' = callers
      BY <1>2 DEF Running, Foreground, FetchFails
    <2>2. QED
      BY <2>1, <1>3, <1>4, CallsKept
  <1>6. ASSUME NEW e \in Entries, NEW a \in Auths,
               EntryCurrent(e), tasks[t].entry = e, tasks[t].auth = a
        PROVE  PairKept(e, a)'
    <2>1. PairKept(e, a) /\ auths' = auths /\ removed' = removed /\ closed' = closed
          /\ revisions' = revisions
      BY <1>6 DEF CatalogInv, FetchFails, cacheVars
    <2>2. \A u \in Tasks : Fetches(u, e, a)' = Fetches(u, e, a) /\ Foreground(u)' = Foreground(u)
      BY <1>1, <1>2 DEF Fetches, Running, Foreground
    <2>3. StateKept(e, a)'
      BY <2>1, <2>2 DEF PairKept, StateKept
    <2>4. a \notin removed => FetchesHold(e, a)'
      BY <1>2, <2>1, <2>2 DEF PairKept, FetchesHold
    <2>5. QED
      BY <2>1, <2>3, <2>4 DEF PairKept
  <1>7. QED
    BY <1>1, <1>2, <1>3, <1>4, <1>5, <1>6, OwnStepKeeps

\* A task that ends, and the calls it closes, keep their types.
LEMMA EndGives ==
  ASSUME CatalogTypes, NEW t \in Tasks, EndTask(t)
  PROVE  /\ tasks' \in [Tasks -> FetchTasks] /\ ~Running(t)'
         /\ \A u \in Tasks \ {t} : tasks'[u] = tasks[u]
  <1>1. /\ tasks'[t] = IdleTask
        /\ \A u \in Tasks \ {t} : tasks'[u] = tasks[u]
        /\ tasks' \in [Tasks -> FetchTasks]
    BY ConstantTypes DEF EndTask, CatalogTypes
  <1>2. QED
    BY <1>1 DEF Running, IdleTask

LEMMA CloseGives ==
  ASSUME CatalogTypes, NEW t \in Tasks, CloseCall(t)
  PROVE  callers' \in [Callers -> CatalogCallers]
  <1>1. ASSUME NEW c \in Callers
        PROVE  callers'[c] \in CatalogCallers
    <2>1. callers[c] \in CatalogCallers
      BY DEF CatalogTypes
    <2>2. CASE Waiting(c)
      <3>1. callers'[c] = [callers[c] EXCEPT !.calls = callers[c].calls \ {t}]
        BY <2>2 DEF CloseCall
      <3>2. callers[c].calls \ {t} \in SUBSET Tasks
        BY <2>1 DEF CatalogCallers
      <3>3. QED
        BY <2>1, <3>1, <3>2 DEF CatalogCallers
    <2>3. CASE ~Waiting(c)
      BY <2>1, <2>3 DEF CloseCall
    <2>4. QED
      BY <2>2, <2>3
  <1>2. QED
    BY <1>1 DEF CloseCall

\* When a fetch ends, its auth has no mark left that was the mark of it.
LEMMA EndedKeeps ==
  ASSUME CatalogInv, NEW t \in Tasks, OwnStep(t), EndTask(t), Running(t),
         NEW e \in Entries, NEW a \in Auths,
         EntryCurrent(e), tasks[t].entry = e, tasks[t].auth = a,
         auths'[e][a] # NoState =>
           /\ auths[e][a] # NoState
           /\ \/ auths'[e][a].foreground = NoTask
              \/ /\ auths'[e][a].foreground = auths[e][a].foreground
                 /\ auths[e][a].foreground # t
           /\ auths'[e][a].background => auths[e][a].background /\ Foreground(t)
           /\ auths'[e][a].snapshot = 0 /\ auths'[e][a].foreground = NoTask
                /\ ~auths'[e][a].background => auths'[e][a].exhausted \/ closed
           /\ auths'[e][a].snapshot <= revisions[a]
  PROVE  PairKept(e, a)'
  <1>1. PairKept(e, a) /\ Fetches(t, e, a)
    BY DEF CatalogInv, Fetches
  <1>2. /\ closed' = closed /\ revisions' = revisions /\ removed' = removed
        /\ ~Running(t)' /\ \A u \in Tasks \ {t} : tasks'[u] = tasks[u]
    BY EndGives DEF OwnStep, CatalogInv
  <1>3. \A u \in Tasks \ {t} : Fetches(u, e, a)' = Fetches(u, e, a) /\ Foreground(u)' = Foreground(u)
    BY <1>2 DEF Fetches, Running, Foreground
  <1>4. StateKept(e, a)'
    <2>1. ASSUME auths'[e][a] # NoState, auths'[e][a].foreground # NoTask
          PROVE  /\ auths'[e][a].foreground \in Tasks
                 /\ Fetches(auths[e][a].foreground, e, a)'
                 /\ Foreground(auths[e][a].foreground)'
      <3> DEFINE f == auths[e][a].foreground
      <3>1. auths'[e][a].foreground = f /\ f # t /\ f \in Tasks /\ Fetches(f, e, a) /\ Foreground(f)
        BY <1>1, <2>1 DEF PairKept, StateKept
      <3>2. tasks'[f] = tasks[f]
        BY <1>2, <3>1
      <3>3. QED
        BY <3>1, <3>2 DEF Fetches, Running, Foreground
    <2>2. ASSUME auths'[e][a] # NoState, auths'[e][a].background
          PROVE  \E u \in Tasks : Fetches(u, e, a)' /\ ~Foreground(u)'
      <3>1. PICK u \in Tasks : Fetches(u, e, a) /\ ~Foreground(u)
        BY <1>1, <2>2 DEF PairKept, StateKept
      <3>2. u # t
        BY <2>2, <3>1
      <3>3. QED
        BY <1>3, <3>1, <3>2
    <2>3. QED
      BY <1>2, <2>1, <2>2 DEF StateKept
  <1>5. a \notin removed => FetchesHold(e, a)'
    <2>1. a \notin removed => \A u \in Tasks : ~Fetches(u, e, a)'
      BY <1>1, <1>2, <1>3 DEF PairKept, FetchesHold, Fetches
    <2>2. QED
      BY <2>1 DEF FetchesHold
  <1>6. QED
    BY <1>2, <1>4, <1>5 DEF PairKept

LEMMA ForegroundMootKeeps ==
  ASSUME CatalogInv, NEW t \in Tasks, ForegroundMoot(t)
  PROVE  CatalogInv'
  <1>1. Running(t) /\ Foreground(t) /\ tasks[t].entry \in Entries /\ tasks[t].auth \in Auths
    BY DEF CatalogInv, FetchesTyped, ForegroundMoot, ForegroundReturned, Running
  <1>2. EndTask(t) /\ CloseCall(t) /\ ~HoldsCall(t) /\ auths' = auths
    BY DEF ForegroundMoot, cacheVars
  <1>3. CatalogTypes'
    BY <1>2, EndGives, CloseGives DEF CatalogInv, CatalogTypes, ForegroundMoot, cacheVars, healthVars
  <1>4. OwnStep(t)
    BY <1>2, EndGives DEF OwnStep, ForegroundMoot, cacheVars, CatalogInv
  <1>5. CallsWillClose'
    BY <1>2, <1>3, <1>4, CallsKept
  <1>6. ASSUME NEW e \in Entries, NEW a \in Auths,
               EntryCurrent(e), tasks[t].entry = e, tasks[t].auth = a
        PROVE  PairKept(e, a)'
    <2>1. PairKept(e, a)
      BY <1>6 DEF CatalogInv
    <2>2. auths[e][a] # NoState => auths[e][a].foreground # t
      BY <1>2, <1>6 DEF HoldsCall, Known, StateOf
    <2>3. QED
      BY <1>1, <1>2, <1>4, <1>6, <2>1, <2>2, EndedKeeps DEF PairKept, StateKept
  <1>7. ~Running(t)'
    BY <1>2, EndGives DEF CatalogInv
  <1>8. QED
    BY <1>1, <1>3, <1>4, <1>5, <1>6, <1>7, OwnStepKeeps

\* A fetch that ends after writing s into the state of its auth.
LEMMA WriterKeeps ==
  ASSUME CatalogInv, NEW t \in Tasks, Running(t), Known(t),
         NEW s \in States, SetState(t, s), EndTask(t),
         CloseCall(t) \/ (callers' = callers /\ ~Foreground(t)),
         UNCHANGED <<versions, removed, closed, revisions, epochs, forgetting>>,
         s.foreground = NoTask \/ (s.foreground = StateOf(t).foreground /\ s.foreground # t),
         s.background => StateOf(t).background /\ Foreground(t),
         s.snapshot = 0 /\ s.foreground = NoTask /\ ~s.background => s.exhausted \/ closed,
         s.snapshot <= revisions[tasks[t].auth]
  PROVE  CatalogInv'
  <1>1. tasks[t].entry \in Entries /\ tasks[t].auth \in Auths
    BY DEF CatalogInv, FetchesTyped
  <1>2. CatalogTypes'
    <2>1. auths' \in [Entries -> [Auths -> States \cup {NoState}]]
      BY <1>1, SetStateGives DEF CatalogInv
    <2>2. callers' \in [Callers -> CatalogCallers]
      BY CloseGives DEF CatalogInv, CatalogTypes
    <2>3. tasks' \in [Tasks -> FetchTasks]
      BY EndGives DEF CatalogInv
    <2>4. QED
      BY <2>1, <2>2, <2>3 DEF CatalogInv, CatalogTypes
  <1>3. OwnStep(t)
    <2>1. \A u \in Tasks \ {t} : tasks'[u] = tasks[u]
      BY EndGives DEF CatalogInv
    <2>2. \A e \in Entries, a \in Auths :
            e # tasks[t].entry \/ a # tasks[t].auth => auths'[e][a] = auths[e][a]
      BY <1>1, SetStateGives DEF CatalogInv
    <2>3. QED
      BY <2>1, <2>2 DEF OwnStep
  <1>4. CallsWillClose'
    BY <1>2, <1>3, CallsKept
  <1>5. ASSUME NEW e \in Entries, NEW a \in Auths,
               EntryCurrent(e), tasks[t].entry = e, tasks[t].auth = a
        PROVE  PairKept(e, a)'
    <2>1. auths'[e][a] = s
      BY <1>1, <1>5, SetStateGives DEF CatalogInv
    <2>2. auths[e][a] # NoState /\ auths[e][a] = StateOf(t)
      BY <1>5 DEF Known, StateOf
    <2>3. QED
      BY <1>3, <1>5, <2>1, <2>2, EndedKeeps
  <1>6. ~Running(t)'
    BY EndGives DEF CatalogInv
  <1>7. QED
    BY <1>1, <1>2, <1>3, <1>4, <1>5, <1>6, OwnStepKeeps

\* A background fetch that ends in an entry that is evicted, or in one that
\* does not know its auth.
LEMMA StrayKeeps ==
  ASSUME CatalogInv, NEW t \in Tasks, Running(t), ~Foreground(t), ~Known(t), EndTask(t),
         UNCHANGED <<versions, auths, callers, removed, closed, revisions, epochs, forgetting>>
  PROVE  CatalogInv'
  <1>1. CatalogTypes' /\ ~Running(t)'
    BY EndGives DEF CatalogInv, CatalogTypes
  <1>2. OwnStep(t)
    BY EndGives DEF OwnStep, CatalogInv
  <1>3. CallsWillClose'
    BY <1>1, <1>2, CallsKept
  <1>4. ASSUME NEW e \in Entries, NEW a \in Auths,
               EntryCurrent(e), tasks[t].entry = e, tasks[t].auth = a
        PROVE  PairKept(e, a)'
    <2>1. auths'[e][a] = NoState
      BY <1>4 DEF Known
    <2>2. QED
      BY <1>2, <1>4, <2>1, EndedKeeps
  <1>5. QED
    BY <1>1, <1>2, <1>3, <1>4, OwnStepKeeps

\* What is known of a fetch that runs, and of the state it is about to write.
LEMMA Knowns ==
  ASSUME CatalogInv, NEW t \in Tasks, Running(t), Known(t)
  PROVE  /\ tasks[t].entry \in Entries /\ tasks[t].auth \in Auths
         /\ StateOf(t) \in States
         /\ StateOf(t).foreground # NoTask =>
              StateOf(t).foreground \in Tasks /\ Foreground(StateOf(t).foreground)
         /\ StateOf(t).snapshot <= revisions[tasks[t].auth]
         /\ tasks[t].phase = "ok" =>
              /\ tasks[t].revision \in 0 .. MaxRevision
              /\ 1 <= tasks[t].revision /\ tasks[t].revision <= revisions[tasks[t].auth]
  <1>1. tasks[t].entry \in Entries /\ tasks[t].auth \in Auths
    BY DEF CatalogInv, FetchesTyped
  <1>2. EntryCurrent(tasks[t].entry) /\ StateOf(t) # NoState
    BY DEF Known, StateOf
  <1>3. StateKept(tasks[t].entry, tasks[t].auth)
    BY <1>1, <1>2 DEF CatalogInv, PairKept
  <1>4. StateOf(t) \in States
    BY <1>1, <1>2 DEF CatalogInv, CatalogTypes, StateOf
  <1>5. tasks[t] \in FetchTasks
    BY DEF CatalogInv, CatalogTypes
  <1>6. tasks[t].revision \in 0 .. MaxRevision
    BY <1>5 DEF FetchTasks
  <1>7. QED
    BY <1>1, <1>2, <1>3, <1>4, <1>6 DEF StateKept, StateOf, CatalogInv, FetchesTyped

LEMMA ForegroundSucceedsKeeps ==
  ASSUME CatalogInv, NEW t \in Tasks, ForegroundSucceeds(t)
  PROVE  CatalogInv'
  <1> DEFINE applied == Applied(StateOf(t), tasks[t].revision)
             s == [applied EXCEPT !.foreground = NoTask]
  <1>1. /\ Running(t) /\ Known(t) /\ tasks[t].phase = "ok" /\ SetState(t, s)
        /\ EndTask(t) /\ CloseCall(t)
    BY DEF ForegroundSucceeds, ForegroundReturned, HoldsCall, Running
  <1>2. tasks[t].revision \in 0 .. MaxRevision /\ applied \in States
    BY <1>1, Knowns, WrittenStates DEF CatalogInv
  <1>3. applied.snapshot = tasks[t].revision /\ ~applied.background
    BY DEF Applied
  <1> HIDE DEF applied
  <1>4. s \in States /\ s.foreground = NoTask /\ s.snapshot = tasks[t].revision /\ ~s.background
    BY <1>2, <1>3 DEF States
  <1> HIDE DEF s
  <1>5. 1 <= s.snapshot /\ s.snapshot <= revisions[tasks[t].auth]
    BY <1>1, <1>4, Knowns
  <1>6. UNCHANGED <<versions, removed, closed, revisions, epochs, forgetting>>
    BY DEF ForegroundSucceeds, healthVars
  <1>7. QED
    BY <1>1, <1>4, <1>5, <1>6, WriterKeeps

LEMMA BackgroundSucceedsKeeps ==
  ASSUME CatalogInv, NEW t \in Tasks, BackgroundSucceeds(t)
  PROVE  CatalogInv'
  <1>1. Running(t) /\ tasks[t].phase = "ok" /\ ~Foreground(t) /\ EndTask(t) /\ callers' = callers
    BY DEF BackgroundSucceeds, Running
  <1>2. UNCHANGED <<versions, removed, closed, revisions, epochs, forgetting>>
    BY DEF BackgroundSucceeds, healthVars
  <1>3. CASE Known(t)
    <2> DEFINE s == Applied(StateOf(t), tasks[t].revision)
    <2>1. SetState(t, s)
      BY <1>3 DEF BackgroundSucceeds
    <2>2. tasks[t].revision \in 0 .. MaxRevision /\ s \in States
      BY <1>1, <1>3, Knowns, WrittenStates DEF CatalogInv
    <2>3. s.snapshot = tasks[t].revision /\ ~s.background /\ s.foreground = StateOf(t).foreground
      BY DEF Applied
    <2> HIDE DEF s
    <2>4. 1 <= s.snapshot /\ s.snapshot <= revisions[tasks[t].auth]
      BY <1>1, <1>3, <2>3, Knowns
    <2>5. s.foreground # NoTask => s.foreground # t
      BY <1>1, <1>3, <2>3, Knowns
    <2>6. QED
      BY <1>1, <1>2, <1>3, <2>1, <2>2, <2>3, <2>4, <2>5, WriterKeeps
  <1>4. CASE ~Known(t)
    BY <1>1, <1>2, <1>4, StrayKeeps DEF BackgroundSucceeds
  <1>5. QED
    BY <1>3, <1>4

\* A background fetch that ends without a result.
LEMMA FinishKeeps ==
  ASSUME CatalogInv, NEW t \in Tasks, NEW exhausted \in BOOLEAN,
         Running(t), ~Foreground(t), FinishBackground(t, exhausted), EndTask(t),
         Known(t) => exhausted = TRUE \/ closed,
         UNCHANGED <<versions, lru, callers, healthVars, closed, revisions, removed>>
  PROVE  CatalogInv'
  <1>1. CASE Known(t)
    <2> DEFINE s == Finished(StateOf(t), tasks[t].auth, exhausted)
    <2>1. SetState(t, s)
      BY <1>1 DEF FinishBackground
    <2>2. StateOf(t) \in States /\ s \in States
      <3>1. 0 \in 0 .. MaxRevision
        BY CatalogAssumption
      <3>2. StateOf(t) \in States /\ tasks[t].auth \in Auths /\ CatalogTypes
        BY <1>1, Knowns DEF CatalogInv
      <3>3. QED
        BY <3>1, <3>2, WrittenStates
    <2>3. /\ s.foreground = StateOf(t).foreground /\ s.snapshot = StateOf(t).snapshot
          /\ ~s.background
      BY <2>2 DEF Finished, States
    <2>4. exhausted = TRUE => s.exhausted
      BY <2>2 DEF Finished, States
    <2> HIDE DEF s
    <2>5. s.foreground # NoTask => s.foreground # t
      BY <1>1, <2>3, Knowns
    <2>6. s.snapshot <= revisions[tasks[t].auth]
      BY <1>1, <2>3, Knowns
    <2>7. UNCHANGED <<versions, removed, closed, revisions, epochs, forgetting, callers>>
      BY DEF healthVars
    <2>8. QED
      BY <1>1, <2>1, <2>2, <2>3, <2>4, <2>5, <2>6, <2>7, WriterKeeps
  <1>2. CASE ~Known(t)
    BY <1>2, StrayKeeps DEF FinishBackground, healthVars
  <1>3. QED
    BY <1>1, <1>2

LEMMA BackgroundSpentKeeps ==
  ASSUME CatalogInv, NEW t \in Tasks, BackgroundSpent(t)
  PROVE  CatalogInv'
  BY FinishKeeps DEF BackgroundSpent, Running

LEMMA BackgroundCutKeeps ==
  ASSUME CatalogInv, NEW t \in Tasks, BackgroundCut(t)
  PROVE  CatalogInv'
  <1>1. Known(t) => closed
    BY DEF Known, BackgroundCut, ContextDone
  <1>2. QED
    BY <1>1, FinishKeeps DEF BackgroundCut, Running

\* A foreground fetch that fails holds the only mark of its state: the task
\* goes on as the background fetch of it.
LEMMA ForegroundFailsKeeps ==
  ASSUME CatalogInv, NEW t \in Tasks, ForegroundFails(t)
  PROVE  CatalogInv'
  <1> DEFINE s == Failed(StateOf(t))
  <1>1. /\ Running(t) /\ Known(t) /\ Foreground(t) /\ SetState(t, s) /\ CloseCall(t)
        /\ StateOf(t).foreground = t
    BY DEF ForegroundFails, ForegroundReturned, HoldsCall, Running
  <1>2. StateOf(t) \in States /\ s \in States
    <2>1. 0 \in 0 .. MaxRevision /\ TRUE \in BOOLEAN
      BY CatalogAssumption
    <2>2. StateOf(t) \in States /\ tasks[t].auth \in Auths /\ CatalogTypes
      BY <1>1, Knowns DEF CatalogInv
    <2>3. QED
      BY <2>1, <2>2, WrittenStates
  <1>3. s.foreground = NoTask /\ s.background /\ s.snapshot = StateOf(t).snapshot
    BY <1>2 DEF Failed, States
  <1> HIDE DEF s
  <1>4. s.snapshot <= revisions[tasks[t].auth]
    BY <1>1, <1>3, Knowns
  <1>5. UNCHANGED <<versions, removed, closed, revisions, epochs, forgetting>>
    BY DEF ForegroundFails, healthVars
  <1>6. CASE StateOf(t).background
    <2>1. EndTask(t)
      BY <1>6 DEF ForegroundFails
    <2>2. QED
      BY <1>1, <1>2, <1>3, <1>4, <1>5, <1>6, <2>1, WriterKeeps
  <1>7. CASE ~StateOf(t).background
    <2>1. tasks' = [tasks EXCEPT ![t] = [tasks[t] EXCEPT !.phase = "fetch",
                                                        !.kind = "background", !.tries = 1]]
      BY <1>7 DEF ForegroundFails
    <2>2. /\ tasks'[t] \in FetchTasks
          /\ tasks'[t].phase = "fetch" /\ tasks'[t].kind = "background"
          /\ tasks'[t].entry = tasks[t].entry /\ tasks'[t].auth = tasks[t].auth
          /\ \A u \in Tasks \ {t} : tasks'[u] = tasks[u]
      <3>1. tasks[t] \in FetchTasks /\ 1 \in 0 .. Retries
        BY CatalogAssumption DEF CatalogInv, CatalogTypes
      <3> DEFINE one == [tasks[t] EXCEPT !.phase = "fetch"]
                 two == [one EXCEPT !.kind = "background"]
                 three == [two EXCEPT !.tries = 1]
      <3>2. one \in FetchTasks /\ one.phase = "fetch"
            /\ one.entry = tasks[t].entry /\ one.auth = tasks[t].auth
        BY <3>1 DEF FetchTasks
      <3> HIDE DEF one
      <3>3. two \in FetchTasks /\ two.phase = "fetch" /\ two.kind = "background"
            /\ two.entry = tasks[t].entry /\ two.auth = tasks[t].auth
        BY <3>2 DEF FetchTasks
      <3> HIDE DEF two
      <3>4. three \in FetchTasks /\ three.phase = "fetch" /\ three.kind = "background"
            /\ three.entry = tasks[t].entry /\ three.auth = tasks[t].auth
        BY <3>1, <3>3 DEF FetchTasks
      <3>5. tasks' = [tasks EXCEPT ![t] = three]
        BY <2>1 DEF one, two
      <3> HIDE DEF three
      <3>6. QED
        BY <3>4, <3>5 DEF CatalogInv, CatalogTypes
    <2>3. tasks[t].entry \in Entries /\ tasks[t].auth \in Auths
      BY DEF CatalogInv, FetchesTyped, ForegroundFails, ForegroundReturned, Running
    <2>4. CatalogTypes'
      <3>1. auths' \in [Entries -> [Auths -> States \cup {NoState}]]
        BY <1>1, <1>2, <2>3, SetStateGives DEF CatalogInv
      <3>2. callers' \in [Callers -> CatalogCallers]
        BY <1>1, CloseGives DEF CatalogInv
      <3>3. tasks' \in [Tasks -> FetchTasks]
        BY <2>1, <2>2 DEF CatalogInv, CatalogTypes
      <3>4. QED
        BY <1>5, <3>1, <3>2, <3>3 DEF CatalogInv, CatalogTypes
    <2>5. OwnStep(t)
      <3>1. \A e \in Entries, a \in Auths :
              e # tasks[t].entry \/ a # tasks[t].auth => auths'[e][a] = auths[e][a]
        BY <1>1, <1>2, <2>3, SetStateGives DEF CatalogInv
      <3>2. QED
        BY <1>5, <2>2, <3>1 DEF OwnStep
    <2>6. CallsWillClose'
      BY <1>1, <2>4, <2>5, CallsKept
    <2>7. ASSUME NEW e \in Entries, NEW a \in Auths,
                 EntryCurrent(e), tasks[t].entry = e, tasks[t].auth = a
          PROVE  PairKept(e, a)'
      <3>1. auths'[e][a] = s /\ auths[e][a] = StateOf(t) /\ PairKept(e, a) /\ Fetches(t, e, a)
        BY <1>1, <1>2, <2>3, <2>7, SetStateGives DEF CatalogInv, StateOf, Fetches
      <3>2. Fetches(t, e, a)' /\ ~Foreground(t)'
        BY <2>2, <2>7 DEF Fetches, Running, Foreground
      <3>3. StateKept(e, a)'
        BY <1>3, <1>4, <1>5, <2>7, <3>1, <3>2 DEF StateKept
      <3>4. a \notin removed => FetchesHold(e, a)'
        <4>1. \A u \in Tasks \ {t} : Fetches(u, e, a)' = Fetches(u, e, a)
          BY <2>2 DEF Fetches, Running
        <4>2. a \notin removed => \A u \in Tasks : Fetches(u, e, a)' => u = t
          BY <3>1, <4>1 DEF PairKept, FetchesHold
        <4>3. s # NoState
          BY <1>2, StateAssumption
        <4>4. QED
          BY <1>3, <2>2, <3>1, <3>2, <4>2, <4>3 DEF FetchesHold
      <3>5. QED
        BY <1>5, <3>3, <3>4 DEF PairKept
    <2>8. QED
      BY <1>1, <2>2, <2>4, <2>5, <2>6, <2>7, OwnStepKeeps
  <1>8. QED
    BY <1>6, <1>7

-----------------------------------------------------------------------------
\* The steps of the callers after they asked, and of what is around the catalog.
LEMMA CallersKeep ==
  ASSUME CatalogInv, NEW c \in Callers, Answer(c) \/ Leave(c)
  PROVE  CatalogInv'
  <1>1. UNCHANGED <<versions, auths, tasks, removed, closed, revisions, epochs, forgetting>>
    BY DEF Answer, Leave, cacheVars, healthVars
  <1>2. callers' = [callers EXCEPT ![c] = IdleCaller]
    BY DEF Answer, Leave
  <1>3. CatalogTypes'
    BY <1>1, <1>2, ConstantTypes DEF CatalogInv, CatalogTypes
  <1>4. \A d \in Callers : Waiting(d)' => Waiting(d) /\ callers'[d] = callers[d]
    BY <1>2 DEF Waiting, IdleCaller, CatalogInv, CatalogTypes
  <1>5. \A a \in Auths : revisions[a] <= revisions'[a]
    BY <1>1 DEF CatalogInv, CatalogTypes
  <1>6. QED
    BY <1>1, <1>3, <1>4, <1>5, QuietKeeps

LEMMA QuietAroundKeeps ==
  ASSUME CatalogInv,
         \/ \E v \in Versions : Cached(v)
         \/ \E a \in Auths : ProvenHealthy(a) \/ HealthForgets(a) \/ ReconcileStops(a)
         \/ \E a \in Auths : UpstreamChanges(a)
         \/ Close
  PROVE  CatalogInv'
  <1>1. UNCHANGED <<versions, auths, tasks, removed, callers>> /\ (closed => closed')
    BY DEF Cached, ProvenHealthy, HealthForgets, ReconcileStops, UpstreamChanges, Close,
       cacheVars, healthVars
  <1>2. /\ epochs' \in [Auths -> 0 .. MaxEpoch]
        /\ forgetting' \subseteq Auths /\ closed' \in BOOLEAN
    <2>1. CASE \E a \in Auths : ProvenHealthy(a)
      BY <2>1, CatalogAssumption DEF ProvenHealthy, CatalogInv, CatalogTypes
    <2>2. CASE \E a \in Auths : HealthForgets(a)
      BY <2>2, CatalogAssumption DEF HealthForgets, CatalogInv, CatalogTypes
    <2>3. CASE \/ \E v \in Versions : Cached(v)
               \/ \E a \in Auths : ReconcileStops(a)
               \/ \E a \in Auths : UpstreamChanges(a)
               \/ Close
      BY <2>3 DEF Cached, ReconcileStops, UpstreamChanges, Close, healthVars, CatalogInv,
         CatalogTypes
    <2>4. QED
      BY <2>1, <2>2, <2>3
  <1>3. /\ revisions' \in [Auths -> 1 .. MaxRevision]
        /\ \A a \in Auths : revisions[a] <= revisions'[a]
    <2>1. CASE \E a \in Auths : UpstreamChanges(a)
      BY <2>1, CatalogAssumption DEF UpstreamChanges, CatalogInv, CatalogTypes
    <2>2. CASE revisions' = revisions
      BY <2>2 DEF CatalogInv, CatalogTypes
    <2>3. QED
      BY <2>1, <2>2 DEF Cached, ProvenHealthy, HealthForgets, ReconcileStops, Close
  <1>4. CatalogTypes'
    BY <1>1, <1>2, <1>3 DEF CatalogInv, CatalogTypes
  <1>5. \A c \in Callers : Waiting(c)' => Waiting(c) /\ callers'[c].calls \subseteq callers[c].calls
    BY <1>1 DEF Waiting
  <1>6. QED
    BY <1>1, <1>3, <1>4, <1>5, QuietKeeps

\* A step that leaves the fetches alone and writes states only.
LEMMA StatesKeep ==
  ASSUME CatalogInv, CatalogTypes',
         UNCHANGED <<versions, tasks, callers, closed, revisions>>, removed \subseteq removed',
         \A e \in Entries, a \in Auths :
           \/ auths'[e][a] = auths[e][a]
           \/ auths'[e][a] = NoState /\ a \in removed'
           \/ /\ auths'[e][a] # NoState /\ auths[e][a] # NoState
              /\ auths'[e][a].foreground = auths[e][a].foreground
              /\ auths'[e][a].background = auths[e][a].background
              /\ auths'[e][a].exhausted = auths[e][a].exhausted
              /\ auths'[e][a].snapshot = auths[e][a].snapshot
  PROVE  CatalogInv'
  <1>1. /\ \A e \in Entries : EntryCurrent(e)' = EntryCurrent(e)
        /\ \A t \in Tasks : Running(t)' = Running(t) /\ Foreground(t)' = Foreground(t)
        /\ \A t \in Tasks, e \in Entries, a \in Auths : Fetches(t, e, a)' = Fetches(t, e, a)
    BY DEF EntryCurrent, Running, Foreground, Fetches
  <1>2. FetchesTyped'
    BY <1>1 DEF FetchesTyped, CatalogInv
  <1>3. CallsWillClose'
    BY <1>1 DEF CallsWillClose, CatalogInv, Waiting, CatalogTypes, CatalogCallers
  <1>4. ASSUME NEW e \in Entries, NEW a \in Auths, EntryCurrent(e)'
        PROVE  PairKept(e, a)'
    <2>1. PairKept(e, a)
      BY <1>1, <1>4 DEF CatalogInv
    <2>2. StateKept(e, a)'
      BY <1>1, <2>1 DEF PairKept, StateKept, Fetches, Running, Foreground
    <2>3. a \notin removed' => FetchesHold(e, a)'
      BY <1>1, <2>1 DEF PairKept, FetchesHold
    <2>4. QED
      BY <2>2, <2>3 DEF PairKept
  <1>5. QED
    BY <1>2, <1>3, <1>4 DEF CatalogInv

LEMMA CatalogForgetsKeeps ==
  ASSUME CatalogInv, NEW b \in Auths, CatalogForgets(b)
  PROVE  CatalogInv'
  <1>1. \A e \in Entries, a \in Auths :
          auths'[e][a] = IF a = b THEN NoState ELSE auths[e][a]
    BY DEF CatalogForgets, CatalogInv, CatalogTypes
  <1>2. CatalogTypes'
    <2>1. auths' \in [Entries -> [Auths -> States \cup {NoState}]]
      BY DEF CatalogForgets, CatalogInv, CatalogTypes
    <2>2. forgetting' \subseteq Auths /\ removed' \subseteq Auths
      BY DEF CatalogForgets, CatalogInv, CatalogTypes
    <2>3. QED
      BY <2>1, <2>2 DEF CatalogForgets, CatalogInv, CatalogTypes
  <1>3. b \in removed' /\ removed \subseteq removed'
    BY DEF CatalogForgets
  <1>4. QED
    BY <1>1, <1>2, <1>3, StatesKeep DEF CatalogForgets

\* The clock changes no more of a state than what it says of the time.
LEMMA TimePassesGives ==
  ASSUME CatalogInv, NEW f \in Entries, NEW b \in Auths, TimePasses(f, b)
  PROVE  \E s \in States :
           /\ auths[f][b] \in States
           /\ auths' = [auths EXCEPT ![f] = [auths[f] EXCEPT ![b] = s]]
           /\ s.foreground = auths[f][b].foreground /\ s.background = auths[f][b].background
           /\ s.exhausted = auths[f][b].exhausted /\ s.snapshot = auths[f][b].snapshot
  <1>1. /\ auths[f][b] \in States
        /\ \/ auths' = [auths EXCEPT ![f] = [auths[f] EXCEPT ![b] = [auths[f][b] EXCEPT !.fresh = FALSE]]]
           \/ auths' = [auths EXCEPT ![f] = [auths[f] EXCEPT ![b] = [auths[f][b] EXCEPT !.cycle = "over"]]]
    BY DEF TimePasses, CatalogInv, CatalogTypes
  <1>2. QED
    <2>1. CASE auths' = [auths EXCEPT ![f] = [auths[f] EXCEPT ![b] = [auths[f][b] EXCEPT !.fresh = FALSE]]]
      <3> DEFINE s == [auths[f][b] EXCEPT !.fresh = FALSE]
      <3>1. s \in States /\ s.foreground = auths[f][b].foreground
            /\ s.background = auths[f][b].background
            /\ s.exhausted = auths[f][b].exhausted /\ s.snapshot = auths[f][b].snapshot
        BY <1>1 DEF States
      <3>2. QED
        BY <1>1, <2>1, <3>1
    <2>2. CASE auths' = [auths EXCEPT ![f] = [auths[f] EXCEPT ![b] = [auths[f][b] EXCEPT !.cycle = "over"]]]
      <3> DEFINE s == [auths[f][b] EXCEPT !.cycle = "over"]
      <3>1. s \in States /\ s.foreground = auths[f][b].foreground
            /\ s.background = auths[f][b].background
            /\ s.exhausted = auths[f][b].exhausted /\ s.snapshot = auths[f][b].snapshot
        BY <1>1 DEF States
      <3>2. QED
        BY <1>1, <2>2, <3>1
    <2>3. QED
      BY <1>1, <2>1, <2>2

LEMMA TimePassesKeeps ==
  ASSUME CatalogInv, NEW f \in Entries, NEW b \in Auths, TimePasses(f, b)
  PROVE  CatalogInv'
  <1>1. PICK s \in States :
          /\ auths[f][b] \in States
          /\ auths' = [auths EXCEPT ![f] = [auths[f] EXCEPT ![b] = s]]
          /\ s.foreground = auths[f][b].foreground /\ s.background = auths[f][b].background
          /\ s.exhausted = auths[f][b].exhausted /\ s.snapshot = auths[f][b].snapshot
    BY TimePassesGives
  <1>2. /\ auths' \in [Entries -> [Auths -> States \cup {NoState}]]
        /\ auths'[f][b] = s
        /\ \A e \in Entries, a \in Auths : e # f \/ a # b => auths'[e][a] = auths[e][a]
    BY <1>1 DEF CatalogInv, CatalogTypes
  <1>3. CatalogTypes'
    BY <1>2 DEF TimePasses, healthVars, CatalogInv, CatalogTypes
  <1>4. s # NoState /\ auths[f][b] # NoState
    BY <1>1, StateAssumption
  <1>5. QED
    BY <1>1, <1>2, <1>3, <1>4, StatesKeep DEF TimePasses

-----------------------------------------------------------------------------
\* The state a request finds, in an entry that is current or new.
FoundEntry(v, e) == versions[v] = e \/ (versions[v] = NoEntry /\ Unreferenced(e))

LEMMA FoundGives ==
  ASSUME CatalogInv, NEW v \in Versions, NEW e \in Entries, FoundEntry(v, e), NEW a \in Auths
  PROVE  /\ HeldState(v, a) \in States \cup {NoState}
         /\ FoundState(v, a) \in States
         /\ HeldState(v, a) # NoState =>
              EntryCurrent(e) /\ HeldState(v, a) = auths[e][a] /\ FoundState(v, a) = auths[e][a]
         /\ HeldState(v, a) = NoState => FoundState(v, a) = EmptyState
         /\ a \notin removed => \A t \in Tasks : Fetches(t, e, a) =>
              EntryCurrent(e) /\ HeldState(v, a) # NoState
  <1>1. CASE versions[v] = NoEntry
    <2>1. HeldState(v, a) = NoState /\ FoundState(v, a) = EmptyState
      BY <1>1 DEF HeldState, FoundState
    <2>2. \A t \in Tasks : ~Fetches(t, e, a)
      BY <1>1, CatalogAssumption DEF FoundEntry, Unreferenced, Fetches
    <2>3. QED
      BY <2>1, <2>2, ConstantTypes
  <1>2. CASE versions[v] = e
    <2>1. versions[v] # NoEntry /\ EntryCurrent(e)
      BY <1>2, CatalogAssumption DEF EntryCurrent
    <2>2. HeldState(v, a) = auths[e][a]
      BY <1>2, <2>1 DEF HeldState
    <2>3. auths[e][a] \in States \cup {NoState}
      BY DEF CatalogInv, CatalogTypes
    <2>4. PairKept(e, a)
      BY <2>1 DEF CatalogInv
    <2>5. FoundState(v, a) = IF auths[e][a] = NoState THEN EmptyState ELSE auths[e][a]
      BY <2>2 DEF FoundState
    <2>6. a \notin removed => \A t \in Tasks : Fetches(t, e, a) => auths[e][a] # NoState
      BY <2>4 DEF PairKept, FetchesHold
    <2>7. QED
      BY <2>1, <2>2, <2>3, <2>5, <2>6, ConstantTypes
  <1>3. QED
    BY <1>1, <1>2 DEF FoundEntry

LEMMA StartedGives ==
  ASSUME NEW s \in States, NEW t \in Tasks
  PROVE  /\ Started(s, t) \in States
         /\ Started(s, t).foreground = t
         /\ Started(s, t).background = s.background
         /\ Started(s, t).snapshot = s.snapshot
  <1> DEFINE one == [s EXCEPT !.foreground = t]
             two == [one EXCEPT !.exhausted = FALSE]
             cycle == IF s.exhausted \/ s.cycle = "none" THEN "open" ELSE s.cycle
             three == [two EXCEPT !.cycle = cycle]
  <1>1. one \in States /\ one.foreground = t /\ one.background = s.background
        /\ one.snapshot = s.snapshot /\ one.cycle = s.cycle
    BY DEF States
  <1>2. cycle \in {"none", "open", "over"}
    BY DEF States
  <1>3. Started(s, t) = three
    BY DEF Started, States
  <1> HIDE DEF one, cycle
  <1>4. two \in States /\ two.foreground = t /\ two.background = s.background
        /\ two.snapshot = s.snapshot
    BY <1>1 DEF States
  <1> HIDE DEF two
  <1>5. three \in States /\ three.foreground = t /\ three.background = s.background
        /\ three.snapshot = s.snapshot
    BY <1>2, <1>4 DEF States
  <1>6. QED
    BY <1>3, <1>5

\* Which tasks a request starts, and for which auths.
LEMMA AskTasks ==
  ASSUME CatalogInv, NEW c \in Callers, NEW v \in Versions, NEW asked \in SUBSET Auths,
         NEW e \in Entries, NEW slot \in Slots(v, asked), AskWith(c, v, asked, e, slot)
  PROVE  /\ tasks' \in [Tasks -> FetchTasks]
         /\ \A a \in StartedBy(v, asked) :
              /\ a \in Auths /\ slot[a] \in Tasks /\ ~Running(slot[a])
              /\ tasks'[slot[a]] = ForegroundTask(e, a)
         /\ \A t \in Tasks : \/ tasks'[t] = tasks[t]
                             \/ \E a \in StartedBy(v, asked) : slot[a] = t
  <1> DEFINE started == StartedBy(v, asked)
  <1>1. started \subseteq Auths
    BY DEF StartedBy
  <1>2. /\ \A a \in started : slot[a] \in Tasks /\ ~Running(slot[a])
        /\ \A a, b \in started : slot[a] = slot[b] => a = b
    BY DEF Slots, Injection, IsInjective
  <1>3. \A a \in Auths : ForegroundTask(e, a) \in FetchTasks
    <2> DEFINE one == [IdleTask EXCEPT !.phase = "fetch"]
               two == [one EXCEPT !.entry = e]
    <2>1. one \in FetchTasks
      BY ConstantTypes DEF FetchTasks
    <2> HIDE DEF one
    <2>2. two \in FetchTasks
      BY <2>1 DEF FetchTasks
    <2>3. \A a \in Auths : ForegroundTask(e, a) = [two EXCEPT !.auth = a]
      BY DEF ForegroundTask, one
    <2> HIDE DEF two
    <2>4. QED
      BY <2>2, <2>3 DEF FetchTasks
  <1>4. tasks' = [t \in Tasks |->
          IF t \in {slot[a] : a \in started}
          THEN ForegroundTask(e, CHOOSE a \in started : slot[a] = t) ELSE tasks[t]]
    BY DEF AskWith
  <1> HIDE DEF started
  <1>5. ASSUME NEW a \in started
        PROVE  tasks'[slot[a]] = ForegroundTask(e, a)
    <2>1. (CHOOSE b \in started : slot[b] = slot[a]) = a
      BY <1>2
    <2>2. QED
      BY <1>2, <1>4, <2>1
  <1>6. \A t \in Tasks : tasks'[t] = tasks[t] \/ \E a \in started : slot[a] = t
    BY <1>4
  <1>7. \A t \in Tasks : tasks'[t] \in FetchTasks
    BY <1>1, <1>3, <1>5, <1>6 DEF CatalogInv, CatalogTypes
  <1>8. QED
    BY <1>1, <1>2, <1>4, <1>5, <1>6, <1>7 DEF started

\* What a request leaves in the entries: the others that stay are untouched.
LEMMA AskStates ==
  ASSUME CatalogInv, NEW c \in Callers, NEW v \in Versions, NEW asked \in SUBSET Auths,
         NEW e \in Entries, FoundEntry(v, e),
         NEW slot \in Slots(v, asked), AskWith(c, v, asked, e, slot)
  PROVE  /\ versions' \in [Versions -> Entries \cup {NoEntry}]
         /\ auths' \in [Entries -> [Auths -> States \cup {NoState}]]
         /\ \A a \in StartedBy(v, asked) :
              auths'[e][a] = Started(FoundState(v, a), slot[a])
         /\ \A a \in Auths \ StartedBy(v, asked) : auths'[e][a] = HeldState(v, a)
         /\ \A f \in Entries \ {e} :
              EntryCurrent(f)' => EntryCurrent(f) /\ auths'[f] = auths[f]
  <1> DEFINE kept == Kept(MovedToFront(e))
             started == StartedBy(v, asked)
             written == [a \in Auths |-> IF a \in started THEN Started(FoundState(v, a), slot[a])
                                         ELSE IF a \in asked THEN FoundState(v, a)
                                         ELSE HeldState(v, a)]
  <1>1. /\ versions' = VersionsWith(v, e, kept)
        /\ auths' = [f \in Entries |-> IF f = e THEN written
                                       ELSE IF f \in ToSet(kept) THEN auths[f] ELSE NoStates]
    BY DEF AskWith
  <1>2. started \subseteq asked /\ asked \subseteq Auths
    BY DEF StartedBy
  <1>3. \A a \in started : slot[a] \in Tasks
    BY DEF Slots, Injection
  <1>4. \A a \in Auths : FoundState(v, a) \in States /\ HeldState(v, a) \in States \cup {NoState}
    BY FoundGives
  <1>5. ASSUME NEW a \in asked \ started
        PROVE  FoundState(v, a) = HeldState(v, a)
    <2>1. ASSUME HeldState(v, a) = NoState
          PROVE  FALSE
      <3>1. FoundState(v, a) = EmptyState
        BY <2>1 DEF FoundState
      <3>2. Starts(EmptyState, a)
        BY DEF Starts, Reopens, EmptyState
      <3>3. QED
        BY <1>5, <3>1, <3>2 DEF StartedBy
    <2>2. QED
      BY <2>1 DEF FoundState
  <1>6. \A a \in Auths : written[a] \in States \cup {NoState}
    BY <1>3, <1>4, StartedGives
  <1> HIDE DEF kept, started
  <1>7. versions' \in [Versions -> Entries \cup {NoEntry}]
    BY <1>1 DEF VersionsWith, CatalogInv, CatalogTypes
  <1>8. auths' \in [Entries -> [Auths -> States \cup {NoState}]]
    BY <1>1, <1>6, ConstantTypes DEF CatalogInv, CatalogTypes
  <1>9. ASSUME NEW f \in Entries \ {e}, EntryCurrent(f)'
        PROVE  EntryCurrent(f) /\ auths'[f] = auths[f]
    <2>1. PICK w \in Versions : versions'[w] = f
      BY <1>9 DEF EntryCurrent
    <2>2. w # v /\ versions[w] \in ToSet(kept) /\ versions[w] = f
      BY <1>1, <2>1, CatalogAssumption DEF VersionsWith
    <2>3. QED
      BY <1>1, <2>2 DEF EntryCurrent
  <1>10. /\ \A a \in started : auths'[e][a] = Started(FoundState(v, a), slot[a])
         /\ \A a \in Auths \ started : auths'[e][a] = HeldState(v, a)
    <2>1. auths'[e] = written
      BY <1>1
    <2>2. \A a \in Auths : auths'[e][a] = IF a \in started THEN Started(FoundState(v, a), slot[a])
                                          ELSE IF a \in asked THEN FoundState(v, a)
                                          ELSE HeldState(v, a)
      BY <2>1
    <2>3. QED
      BY <1>2, <1>5, <2>2
  <1>11. QED
    BY <1>7, <1>8, <1>9, <1>10 DEF started

\* The fetches a request starts, seen from the entry it asks.
LEMMA AskFetches ==
  ASSUME CatalogInv, NEW c \in Callers, NEW v \in Versions, NEW asked \in SUBSET Auths,
         NEW e \in Entries, NEW slot \in Slots(v, asked), AskWith(c, v, asked, e, slot)
  PROVE  /\ \A a \in StartedBy(v, asked) :
              /\ slot[a] \in Tasks /\ Foreground(slot[a])' /\ Fetches(slot[a], e, a)'
              /\ tasks'[slot[a]].phase = "fetch"
         /\ \A t \in Tasks : Running(t) => tasks'[t] = tasks[t]
         /\ \A t \in Tasks, f \in Entries, a \in Auths : Fetches(t, f, a)' =>
              \/ Fetches(t, f, a) /\ tasks'[t] = tasks[t]
              \/ f = e /\ a \in StartedBy(v, asked) /\ t = slot[a]
  <1>1. ASSUME NEW a \in StartedBy(v, asked)
        PROVE  /\ slot[a] \in Tasks /\ ~Running(slot[a])
               /\ tasks'[slot[a]].phase = "fetch" /\ tasks'[slot[a]].kind = "foreground"
               /\ tasks'[slot[a]].entry = e /\ tasks'[slot[a]].auth = a
    <2>1. slot[a] \in Tasks /\ ~Running(slot[a]) /\ tasks'[slot[a]] = ForegroundTask(e, a)
      BY AskTasks
    <2>2. /\ ForegroundTask(e, a).phase = "fetch" /\ ForegroundTask(e, a).kind = "foreground"
          /\ ForegroundTask(e, a).entry = e /\ ForegroundTask(e, a).auth = a
      BY DEF ForegroundTask, IdleTask
    <2>3. QED
      BY <2>1, <2>2
  <1>2. \A t \in Tasks : Running(t) => tasks'[t] = tasks[t]
    BY AskTasks
  <1>3. ASSUME NEW t \in Tasks, NEW f \in Entries, NEW a \in Auths, Fetches(t, f, a)'
        PROVE  \/ Fetches(t, f, a) /\ tasks'[t] = tasks[t]
               \/ f = e /\ a \in StartedBy(v, asked) /\ t = slot[a]
    <2>1. CASE tasks'[t] = tasks[t]
      BY <1>3, <2>1 DEF Fetches, Running
    <2>2. CASE \E b \in StartedBy(v, asked) : slot[b] = t
      BY <1>1, <1>3, <2>2 DEF Fetches
    <2>3. QED
      BY <2>1, <2>2, AskTasks
  <1>4. \A a \in StartedBy(v, asked) : Foreground(slot[a])' /\ Fetches(slot[a], e, a)'
    BY <1>1 DEF Foreground, Fetches, Running
  <1>5. QED
    BY <1>1, <1>2, <1>3, <1>4

\* What holds of an auth in the entry a request asks.
LEMMA AskedPairKept ==
  ASSUME CatalogInv, NEW c \in Callers, NEW v \in Versions, NEW asked \in SUBSET Auths,
         NEW e \in Entries, FoundEntry(v, e),
         NEW slot \in Slots(v, asked), AskWith(c, v, asked, e, slot),
         NEW a \in Auths
  PROVE  PairKept(e, a)'
  <1> DEFINE s == FoundState(v, a)
  <1>1. UNCHANGED <<closed, revisions, removed>> /\ revisions[a] \in Int /\ 1 <= revisions[a]
    BY DEF AskWith, CatalogInv, CatalogTypes
  <1>2. s \in States /\ (HeldState(v, a) # NoState => PairKept(e, a) /\ auths[e][a] = s)
    BY FoundGives DEF CatalogInv
  <1>3. s.snapshot <= revisions[a]
    BY <1>1, <1>2, FoundGives DEF PairKept, StateKept, EmptyState
  <1>4. \A t \in Tasks : Fetches(t, e, a) => Fetches(t, e, a)' /\ Foreground(t)' = Foreground(t)
    BY AskFetches DEF Fetches, Running, Foreground
  <1>5. a \notin removed => \A t \in Tasks : Fetches(t, e, a) => HeldState(v, a) # NoState
    BY FoundGives
  <1>6. CASE a \in StartedBy(v, asked)
    <2>1. s.foreground = NoTask /\ ~s.background
      BY <1>6 DEF StartedBy, Starts
    <2>2. /\ auths'[e][a] = Started(s, slot[a]) /\ slot[a] \in Tasks
          /\ Fetches(slot[a], e, a)' /\ Foreground(slot[a])'
          /\ tasks'[slot[a]].phase = "fetch"
      BY <1>6, AskStates, AskFetches
    <2>3. /\ auths'[e][a].foreground = slot[a] /\ ~auths'[e][a].background
          /\ auths'[e][a].snapshot = s.snapshot /\ auths'[e][a] # NoState
      BY <1>2, <2>1, <2>2, StartedGives, StateAssumption
    <2>4. slot[a] # NoTask
      BY <2>2, CatalogAssumption
    <2>5. StateKept(e, a)'
      BY <1>1, <1>3, <2>2, <2>3, <2>4 DEF StateKept
    <2>6. a \notin removed => FetchesHold(e, a)'
      <3>1. a \notin removed => \A t \in Tasks : ~Fetches(t, e, a)
        BY <1>2, <1>5, <2>1, CatalogAssumption DEF PairKept, FetchesHold
      <3>2. a \notin removed => \A t \in Tasks : Fetches(t, e, a)' => t = slot[a]
        BY <3>1, AskFetches
      <3>3. QED
        BY <2>2, <2>3, <3>2 DEF FetchesHold
    <2>7. QED
      BY <1>1, <2>5, <2>6 DEF PairKept
  <1>7. CASE a \notin StartedBy(v, asked)
    <2>1. auths'[e][a] = HeldState(v, a)
      BY <1>7, AskStates
    <2>2. \A t \in Tasks : Fetches(t, e, a)' => Fetches(t, e, a) /\ tasks'[t] = tasks[t]
      BY <1>7, AskFetches
    <2>3. StateKept(e, a)'
      <3>1. CASE HeldState(v, a) = NoState
        BY <2>1, <3>1 DEF StateKept
      <3>2. CASE HeldState(v, a) # NoState
        <4>1. StateKept(e, a) /\ auths'[e][a] = auths[e][a]
          BY <1>2, <2>1, <3>2, FoundGives DEF PairKept
        <4>2. QED
          BY <1>1, <1>4, <4>1 DEF StateKept
      <3>3. QED
        BY <3>1, <3>2
    <2>4. a \notin removed => FetchesHold(e, a)'
      <3>1. CASE HeldState(v, a) = NoState
        BY <1>5, <2>2, <3>1 DEF FetchesHold
      <3>2. CASE HeldState(v, a) # NoState
        <4>1. (a \notin removed => FetchesHold(e, a)) /\ auths'[e][a] = auths[e][a]
          BY <1>2, <2>1, <3>2, FoundGives DEF PairKept
        <4>2. QED
          BY <1>4, <2>2, <4>1 DEF FetchesHold
      <3>3. QED
        BY <3>1, <3>2
    <2>5. QED
      BY <1>1, <2>3, <2>4 DEF PairKept
  <1>8. QED
    BY <1>6, <1>7

LEMMA AskWithKeeps ==
  ASSUME CatalogInv, NEW c \in Callers, NEW v \in Versions, NEW asked \in SUBSET Auths,
         NEW e \in Entries, FoundEntry(v, e),
         NEW slot \in Slots(v, asked), AskWith(c, v, asked, e, slot)
  PROVE  CatalogInv'
  <1> DEFINE begun  == {slot[a] : a \in StartedBy(v, asked)}
             joined == {FoundState(v, a).foreground : a \in JoinedBy(v, asked)}
  <1>1. UNCHANGED <<closed, revisions, removed, epochs, forgetting>>
    BY DEF AskWith, healthVars
  <1>2. \A t \in begun : t \in Tasks /\ Running(t)' /\ Foreground(t)'
    BY AskFetches DEF Fetches
  <1>3. ASSUME NEW a \in JoinedBy(v, asked)
        PROVE  \E t \in Tasks : t = FoundState(v, a).foreground /\ Running(t)' /\ Foreground(t)'
    <2>1. a \in Auths /\ FoundState(v, a).foreground # NoTask
      BY DEF JoinedBy, Joins
    <2>2. HeldState(v, a) # NoState
      BY <2>1, FoundGives DEF EmptyState
    <2>3. auths[e][a] = FoundState(v, a) /\ StateKept(e, a) /\ auths[e][a] # NoState
      BY <2>1, <2>2, FoundGives DEF CatalogInv, PairKept
    <2>4. PICK t \in Tasks : t = FoundState(v, a).foreground /\ Running(t) /\ Foreground(t)
      BY <2>1, <2>3 DEF StateKept, Fetches
    <2>5. tasks'[t] = tasks[t]
      BY <2>4, AskFetches
    <2>6. QED
      BY <2>4, <2>5 DEF Running, Foreground
  <1>4. \A t \in joined : t \in Tasks /\ Running(t)' /\ Foreground(t)'
    BY <1>3
  <1>5. callers' = [callers EXCEPT ![c] =
          [stage |-> "waiting", entry |-> e, calls |-> begun \cup joined]]
    BY DEF AskWith
  <1> HIDE DEF begun, joined
  <1>6. CatalogTypes'
    <2>1. [stage |-> "waiting", entry |-> e, calls |-> begun \cup joined] \in CatalogCallers
      BY <1>2, <1>4 DEF CatalogCallers
    <2>2. callers' \in [Callers -> CatalogCallers]
      BY <1>5, <2>1 DEF CatalogInv, CatalogTypes
    <2>3. QED
      BY <1>1, <2>2, AskTasks, AskStates DEF CatalogInv, CatalogTypes
  <1>7. FetchesTyped'
    <2>1. ASSUME NEW t \in Tasks, Running(t)'
          PROVE  /\ tasks'[t].entry \in Entries /\ tasks'[t].auth \in Auths
                 /\ tasks'[t].phase = "ok" =>
                      1 <= tasks'[t].revision /\ tasks'[t].revision <= revisions'[tasks'[t].auth]
      <3>1. CASE tasks'[t] = tasks[t]
        BY <1>1, <2>1, <3>1 DEF CatalogInv, FetchesTyped, Running
      <3>2. CASE \E a \in StartedBy(v, asked) : slot[a] = t
        BY <3>2, AskFetches, AskTasks DEF Fetches
      <3>3. QED
        BY <3>1, <3>2, AskTasks
    <2>2. QED
      BY <2>1 DEF FetchesTyped
  <1>8. CallsWillClose'
    <2>1. ASSUME NEW d \in Callers, Waiting(d)', NEW t \in callers'[d].calls
          PROVE  Running(t)' /\ Foreground(t)'
      <3>1. CASE d = c
        <4>1. callers'[c].calls = begun \cup joined
          BY <1>5 DEF CatalogInv, CatalogTypes
        <4>2. QED
          BY <1>2, <1>4, <2>1, <3>1, <4>1
      <3>2. CASE d # c
        <4>1. callers'[d] = callers[d] /\ callers[d] \in CatalogCallers
          BY <1>5, <3>2 DEF CatalogInv, CatalogTypes
        <4>2. t \in Tasks /\ Running(t) /\ Foreground(t)
          BY <2>1, <4>1 DEF Waiting, CatalogInv, CallsWillClose, CatalogCallers
        <4>3. tasks'[t] = tasks[t]
          BY <4>2, AskFetches
        <4>4. QED
          BY <4>2, <4>3 DEF Running, Foreground
      <3>3. QED
        BY <3>1, <3>2
    <2>2. QED
      BY <2>1 DEF CallsWillClose
  <1>9. ASSUME NEW f \in Entries, NEW a \in Auths, EntryCurrent(f)'
        PROVE  PairKept(f, a)'
    <2>1. CASE f = e
      BY <2>1, AskedPairKept
    <2>2. CASE f # e
      <3>1. auths'[f] = auths[f] /\ PairKept(f, a)
        BY <1>9, <2>2, AskStates DEF CatalogInv
      <3>2. \A t \in Tasks : Fetches(t, f, a)' => Fetches(t, f, a) /\ tasks'[t] = tasks[t]
        BY <2>2, AskFetches
      <3>3. \A t \in Tasks : Fetches(t, f, a) => Fetches(t, f, a)' /\ Foreground(t)' = Foreground(t)
        BY AskFetches DEF Fetches, Running, Foreground
      <3>4. StateKept(f, a)'
        BY <1>1, <3>1, <3>3 DEF PairKept, StateKept
      <3>5. a \notin removed => FetchesHold(f, a)'
        BY <3>1, <3>2, <3>3 DEF PairKept, FetchesHold
      <3>6. QED
        BY <1>1, <3>4, <3>5 DEF PairKept
    <2>3. QED
      BY <2>1, <2>2
  <1>10. QED
    BY <1>6, <1>7, <1>8, <1>9 DEF CatalogInv

\* The entry that a request finds, or a new one.
LEMMA AskedEntry ==
  ASSUME CatalogTypes, NEW c, NEW v \in Versions, NEW asked, Ask(c, v, asked)
  PROVE  EntryFor(v) \in Entries /\ FoundEntry(v, EntryFor(v))
  <1>1. CASE versions[v] = NoEntry
    <2>1. \E f \in Entries : Unreferenced(f)
      BY <1>1 DEF Ask, HasEntry
    <2>2. QED
      BY <1>1, <2>1 DEF EntryFor, FoundEntry
  <1>2. CASE versions[v] # NoEntry
    BY <1>2 DEF EntryFor, FoundEntry, CatalogTypes
  <1>3. QED
    BY <1>1, <1>2

LEMMA AskKeeps ==
  ASSUME CatalogInv, NEW c \in Callers, NEW v \in Versions, NEW asked \in SUBSET Auths,
         Ask(c, v, asked)
  PROVE  CatalogInv'
  <1> DEFINE e == EntryFor(v)
             slot == CHOOSE slot \in Slots(v, asked) : TRUE
  <1>1. slot \in Slots(v, asked) /\ AskWith(c, v, asked, e, slot)
    BY DEF Ask
  <1>2. e \in Entries /\ FoundEntry(v, e)
    BY AskedEntry DEF CatalogInv
  <1> HIDE DEF e, slot
  <1>3. QED
    BY <1>1, <1>2, AskWithKeeps

-----------------------------------------------------------------------------
LEMMA InitEstablishes == ASSUME CatalogInit PROVE CatalogInv
  <1>1. CatalogTypes
    <2>1. 0 \in 0 .. MaxEpoch /\ 1 \in 1 .. MaxRevision
      BY CatalogAssumption
    <2>2. epochs \in [Auths -> 0 .. MaxEpoch] /\ revisions \in [Auths -> 1 .. MaxRevision]
      BY <2>1 DEF CatalogInit
    <2>3. /\ tasks \in [Tasks -> FetchTasks] /\ callers \in [Callers -> CatalogCallers]
          /\ auths \in [Entries -> [Auths -> States \cup {NoState}]]
      BY ConstantTypes DEF CatalogInit
    <2>4. QED
      BY <2>2, <2>3 DEF CatalogInit, CatalogTypes
  <1>2. FetchesTyped /\ CallsWillClose
    BY DEF CatalogInit, FetchesTyped, CallsWillClose, Running, Waiting, IdleTask, IdleCaller
  <1>3. \A e \in Entries : ~EntryCurrent(e)
    BY CatalogAssumption DEF CatalogInit, EntryCurrent
  <1>4. QED
    BY <1>1, <1>2, <1>3 DEF CatalogInv

LEMMA StepKeeps == ASSUME CatalogInv, [CatalogNext]_catalogVars PROVE CatalogInv'
  <1>1. ASSUME NEW t \in Tasks, TaskStep(t)
        PROVE  CatalogInv'
    BY <1>1, FetchAnswersKeeps, FetchFailsKeeps, ForegroundMootKeeps, ForegroundSucceedsKeeps,
       ForegroundFailsKeeps, BackgroundSucceedsKeeps, BackgroundSpentKeeps, BackgroundCutKeeps
       DEF TaskStep
  <1>2. ASSUME NEW c \in Callers, CallerStep(c)
        PROVE  CatalogInv'
    BY <1>2, AskKeeps, CallersKeep DEF CallerStep
  <1>3. CASE Around
    BY <1>3, QuietAroundKeeps, CatalogForgetsKeeps, TimePassesKeeps DEF Around
  <1>4. CASE UNCHANGED catalogVars
    <2>1. CatalogTypes'
      BY <1>4 DEF CatalogInv, CatalogTypes, catalogVars, cacheVars, healthVars
    <2>2. \A a \in Auths : revisions[a] <= revisions'[a]
      BY <1>4 DEF CatalogInv, CatalogTypes, catalogVars
    <2>3. QED
      BY <1>4, <2>1, <2>2, QuietKeeps DEF catalogVars, cacheVars, Waiting
  <1>5. QED
    BY <1>1, <1>2, <1>3, <1>4 DEF CatalogNext

\* The inductive invariant, with the types of every variable.
THEOREM CatalogInvHolds == CatalogSpec => []CatalogInv
  <1>1. CatalogInit => CatalogInv
    BY InitEstablishes
  <1>2. CatalogInv /\ [CatalogNext]_catalogVars => CatalogInv'
    BY StepKeeps
  <1>3. QED
    BY <1>1, <1>2, PTL DEF CatalogSpec

\* No mark of a state in a current entry is left without the fetch that will
\* clear it: Catalog would never fetch that auth again.
THEOREM MarksHaveFetchesHolds == CatalogSpec => []MarksHaveFetches
  <1>1. CatalogInv => MarksHaveFetches
    BY DEF CatalogInv, PairKept, StateKept, MarksHaveFetches, KnownTo
  <1>2. QED
    BY <1>1, CatalogInvHolds, PTL

\* While an auth is never removed, at most one fetch of it runs for a current
\* entry, whatever callers, retries and evictions do.
THEOREM OneFetchHolds == CatalogSpec => []OneFetch
  <1>1. CatalogInv => OneFetch
    BY DEF CatalogInv, PairKept, FetchesHold, OneFetch
  <1>2. QED
    BY <1>1, CatalogInvHolds, PTL

\* An auth without a snapshot is being fetched or has spent its cycle.
THEOREM NoneForgottenHolds == CatalogSpec => []NoneForgotten
  <1>1. CatalogInv => NoneForgotten
    BY DEF CatalogInv, PairKept, StateKept, NoneForgotten, KnownTo
  <1>2. QED
    BY <1>1, CatalogInvHolds, PTL

\* Whatever a caller waits for is a foreground fetch that still runs.
THEOREM CallsWillCloseHolds == CatalogSpec => []CallsWillClose
  <1>1. CatalogInv => CallsWillClose
    BY DEF CatalogInv
  <1>2. QED
    BY <1>1, CatalogInvHolds, PTL

-----------------------------------------------------------------------------
\* What SnapshotsOnlyAdvance says of one auth of one entry.
Advances(e, a) ==
  auths'[e][a] # NoState /\ auths'[e][a].snapshot >= auths[e][a].snapshot

LEMMA KnownTyped ==
  ASSUME CatalogInv, NEW e \in Entries, NEW a \in Auths, auths[e][a] # NoState
  PROVE  auths[e][a] \in States /\ auths[e][a].snapshot \in Int
  <1>1. auths[e][a] \in States
    BY DEF CatalogInv, CatalogTypes
  <1>2. QED
    BY <1>1 DEF States

LEMMA WriterAdvances ==
  ASSUME CatalogInv, NEW t \in Tasks, Running(t), Known(t), NEW s \in States, SetState(t, s),
         tasks[t].auth \notin removed => s.snapshot >= StateOf(t).snapshot,
         NEW e \in Entries, NEW a \in Auths \ removed, auths[e][a] # NoState
  PROVE  Advances(e, a)
  <1>1. tasks[t].entry \in Entries /\ tasks[t].auth \in Auths
    BY DEF CatalogInv, FetchesTyped
  <1>2. CASE e = tasks[t].entry /\ a = tasks[t].auth
    <2>1. auths'[e][a] = s /\ auths[e][a] = StateOf(t) /\ s # NoState
      BY <1>1, <1>2, SetStateGives, StateAssumption DEF CatalogInv, StateOf
    <2>2. QED
      BY <1>2, <2>1 DEF Advances
  <1>3. CASE e # tasks[t].entry \/ a # tasks[t].auth
    <2>1. auths'[e][a] = auths[e][a]
      BY <1>1, <1>3, SetStateGives DEF CatalogInv
    <2>2. QED
      BY <2>1, KnownTyped DEF Advances
  <1>4. QED
    BY <1>2, <1>3

LEMMA TaskAdvances ==
  ASSUME CatalogInv, NEW t \in Tasks, TaskStep(t),
         NEW e \in Entries, NEW a \in Auths \ removed, auths[e][a] # NoState
  PROVE  Advances(e, a)
  <1>1. ASSUME auths' = auths
        PROVE  Advances(e, a)
    BY <1>1, KnownTyped DEF Advances
  <1>2. Known(t) /\ Running(t) => /\ tasks[t].entry \in Entries /\ tasks[t].auth \in Auths
                                  /\ StateOf(t) \in States /\ StateOf(t).snapshot \in Int
    BY Knowns DEF States
  <1>3. ASSUME Known(t), Running(t), tasks[t].phase = "ok", tasks[t].auth \notin removed
        PROVE  tasks[t].revision >= StateOf(t).snapshot
    <2>1. tasks[t].entry \in Entries /\ tasks[t].auth \in Auths
          /\ Fetches(t, tasks[t].entry, tasks[t].auth)
      BY <1>2, <1>3 DEF Fetches
    <2>2. FetchesHold(tasks[t].entry, tasks[t].auth)
      BY <1>3, <2>1 DEF Known, CatalogInv, PairKept
    <2>3. StateOf(t).snapshot <= tasks[t].revision
      BY <1>3, <2>1, <2>2 DEF FetchesHold, StateOf
    <2>4. tasks[t].revision \in Int
      BY <1>3, Knowns
    <2>5. QED
      BY <1>2, <1>3, <2>3, <2>4
  <1>4. CASE FetchAnswers(t) \/ FetchFails(t) \/ ForegroundMoot(t)
    BY <1>1, <1>4 DEF FetchAnswers, FetchFails, ForegroundMoot, cacheVars
  <1>5. CASE ForegroundSucceeds(t)
    <2> DEFINE applied == Applied(StateOf(t), tasks[t].revision)
               s == [applied EXCEPT !.foreground = NoTask]
    <2>1. Running(t) /\ Known(t) /\ tasks[t].phase = "ok" /\ SetState(t, s)
      BY <1>5 DEF ForegroundSucceeds, ForegroundReturned, HoldsCall, Running
    <2>2. applied \in States
      BY <2>1, Knowns, WrittenStates DEF CatalogInv
    <2>3. applied.snapshot = tasks[t].revision
      BY DEF Applied
    <2> HIDE DEF applied
    <2>4. s \in States /\ s.snapshot = tasks[t].revision
      BY <2>2, <2>3 DEF States
    <2> HIDE DEF s
    <2>5. QED
      BY <1>3, <2>1, <2>4, WriterAdvances
  <1>6. CASE BackgroundSucceeds(t)
    <2>1. Running(t) /\ tasks[t].phase = "ok"
      BY <1>6 DEF BackgroundSucceeds, Running
    <2>2. CASE Known(t)
      <3> DEFINE s == Applied(StateOf(t), tasks[t].revision)
      <3>1. SetState(t, s)
        BY <1>6, <2>2 DEF BackgroundSucceeds
      <3>2. s \in States
        BY <2>1, <2>2, Knowns, WrittenStates DEF CatalogInv
      <3>3. s.snapshot = tasks[t].revision
        BY DEF Applied
      <3> HIDE DEF s
      <3>4. QED
        BY <1>3, <2>1, <2>2, <3>1, <3>2, <3>3, WriterAdvances
    <2>3. CASE ~Known(t)
      BY <1>1, <1>6, <2>3 DEF BackgroundSucceeds
    <2>4. QED
      BY <2>2, <2>3
  <1>7. CASE ForegroundFails(t)
    <2> DEFINE s == Failed(StateOf(t))
    <2>1. Running(t) /\ Known(t) /\ SetState(t, s)
      BY <1>7 DEF ForegroundFails, ForegroundReturned, HoldsCall, Running
    <2>2. s \in States /\ s.snapshot = StateOf(t).snapshot
      BY <1>2, <2>1 DEF Failed, States
    <2> HIDE DEF s
    <2>3. QED
      BY <1>2, <2>1, <2>2, WriterAdvances
  <1>8. CASE BackgroundSpent(t) \/ BackgroundCut(t)
    <2>1. PICK exhausted \in BOOLEAN : FinishBackground(t, exhausted)
      BY <1>8 DEF BackgroundSpent, BackgroundCut
    <2>2. Running(t)
      BY <1>8 DEF BackgroundSpent, BackgroundCut, Running
    <2>3. CASE Known(t)
      <3> DEFINE s == Finished(StateOf(t), tasks[t].auth, exhausted)
      <3>1. SetState(t, s)
        BY <2>1, <2>3 DEF FinishBackground
      <3>2. s \in States
        <4>1. 0 \in 0 .. MaxRevision
          BY CatalogAssumption
        <4>2. QED
          BY <1>2, <2>2, <2>3, <4>1, WrittenStates DEF CatalogInv
      <3>3. s.snapshot = StateOf(t).snapshot
        BY <1>2, <2>2, <2>3 DEF Finished, States
      <3> HIDE DEF s
      <3>4. QED
        BY <1>2, <2>2, <2>3, <3>1, <3>2, <3>3, WriterAdvances
    <2>4. CASE ~Known(t)
      BY <1>1, <2>1, <2>4 DEF FinishBackground
    <2>5. QED
      BY <2>3, <2>4
  <1>9. QED
    BY <1>4, <1>5, <1>6, <1>7, <1>8 DEF TaskStep

LEMMA AskAdvances ==
  ASSUME CatalogInv, NEW c \in Callers, NEW v \in Versions, NEW asked \in SUBSET Auths,
         Ask(c, v, asked),
         NEW f \in Entries, EntryCurrent(f), EntryCurrent(f)',
         NEW a \in Auths, auths[f][a] # NoState
  PROVE  Advances(f, a)
  <1> DEFINE e == EntryFor(v)
             slot == CHOOSE slot \in Slots(v, asked) : TRUE
  <1>1. slot \in Slots(v, asked) /\ AskWith(c, v, asked, e, slot)
    BY DEF Ask
  <1>2. e \in Entries /\ FoundEntry(v, e)
    <2>1. CASE versions[v] = NoEntry
      <3>1. \E g \in Entries : Unreferenced(g)
        BY <2>1 DEF Ask, HasEntry
      <3>2. QED
        BY <2>1, <3>1 DEF EntryFor, FoundEntry
    <2>2. CASE versions[v] # NoEntry
      BY <2>2 DEF EntryFor, FoundEntry, CatalogInv, CatalogTypes
    <2>3. QED
      BY <2>1, <2>2
  <1> HIDE DEF e, slot
  <1>3. CASE f # e
    <2>1. auths'[f] = auths[f]
      BY <1>1, <1>2, <1>3, AskStates
    <2>2. QED
      BY <2>1, KnownTyped DEF Advances
  <1>4. CASE f = e
    <2>1. versions[v] = e /\ versions[v] # NoEntry
      BY <1>2, <1>4, CatalogAssumption DEF FoundEntry, Unreferenced
    <2>2. HeldState(v, a) = auths[f][a] /\ FoundState(v, a) = auths[f][a]
      BY <1>4, <2>1 DEF HeldState, FoundState
    <2>3. CASE a \in StartedBy(v, asked)
      <3>1. slot[a] \in Tasks /\ auths'[f][a] = Started(auths[f][a], slot[a])
        BY <1>1, <1>2, <1>4, <2>2, <2>3, AskStates, AskFetches
      <3>2. auths'[f][a] \in States /\ auths'[f][a].snapshot = auths[f][a].snapshot
        BY <3>1, KnownTyped, StartedGives
      <3>3. QED
        BY <3>2, KnownTyped, StateAssumption DEF Advances
    <2>4. CASE a \notin StartedBy(v, asked)
      <3>1. auths'[f][a] = auths[f][a]
        BY <1>1, <1>2, <1>4, <2>2, <2>4, AskStates
      <3>2. QED
        BY <3>1, KnownTyped DEF Advances
    <2>5. QED
      BY <2>3, <2>4
  <1>5. QED
    BY <1>3, <1>4

LEMMA StepAdvances ==
  ASSUME CatalogInv, [CatalogNext]_catalogVars,
         NEW e \in Entries, EntryCurrent(e), EntryCurrent(e)',
         NEW a \in KnownTo(e) \ removed'
  PROVE  Advances(e, a)
  <1>1. a \in Auths /\ auths[e][a] # NoState
    BY DEF KnownTo
  <1>2. ASSUME auths' = auths
        PROVE  Advances(e, a)
    BY <1>1, <1>2, KnownTyped DEF Advances
  <1>3. ASSUME NEW t \in Tasks, TaskStep(t)
        PROVE  Advances(e, a)
    <2>1. removed' = removed
      BY <1>3 DEF TaskStep, FetchAnswers, FetchFails, ForegroundMoot, ForegroundSucceeds,
         ForegroundFails, BackgroundSucceeds, BackgroundSpent, BackgroundCut
    <2>2. QED
      BY <1>1, <1>3, <2>1, TaskAdvances
  <1>4. ASSUME NEW c \in Callers, CallerStep(c)
        PROVE  Advances(e, a)
    <2>1. CASE \E v \in Versions, asked \in SUBSET Auths : Ask(c, v, asked)
      <3>1. PICK v \in Versions, asked \in SUBSET Auths : Ask(c, v, asked)
        BY <2>1
      <3>2. QED
        BY <1>1, <3>1, AskAdvances
    <2>2. CASE Answer(c) \/ Leave(c)
      BY <1>2, <2>2 DEF Answer, Leave, cacheVars
    <2>3. QED
      BY <1>4, <2>1, <2>2 DEF CallerStep
  <1>5. CASE Around
    <2>1. ASSUME NEW b \in Auths, CatalogForgets(b)
          PROVE  Advances(e, a)
      <3>1. auths'[e][a] = auths[e][a]
        BY <1>1, <2>1 DEF CatalogForgets, CatalogInv, CatalogTypes
      <3>2. QED
        BY <1>1, <3>1, KnownTyped DEF Advances
    <2>2. ASSUME NEW f \in Entries, NEW b \in Auths, TimePasses(f, b)
          PROVE  Advances(e, a)
      <3>1. PICK s \in States :
              /\ auths' = [auths EXCEPT ![f] = [auths[f] EXCEPT ![b] = s]]
              /\ s.snapshot = auths[f][b].snapshot
        BY <2>2, TimePassesGives
      <3>2. /\ auths'[f][b] = s /\ s # NoState
            /\ e # f \/ a # b => auths'[e][a] = auths[e][a]
        BY <1>1, <3>1, StateAssumption DEF CatalogInv, CatalogTypes
      <3>3. QED
        BY <1>1, <3>1, <3>2, KnownTyped DEF Advances
    <2>3. CASE \/ \E v \in Versions : Cached(v)
               \/ \E b \in Auths : ProvenHealthy(b) \/ HealthForgets(b) \/ ReconcileStops(b)
               \/ \E b \in Auths : UpstreamChanges(b)
               \/ Close
      BY <1>2, <2>3 DEF Cached, ProvenHealthy, HealthForgets, ReconcileStops, UpstreamChanges,
         Close, cacheVars
    <2>4. QED
      BY <1>5, <2>1, <2>2, <2>3 DEF Around
  <1>6. CASE UNCHANGED catalogVars
    BY <1>2, <1>6 DEF catalogVars, cacheVars
  <1>7. QED
    BY <1>3, <1>4, <1>5, <1>6 DEF CatalogNext

\* No step loses a snapshot of an auth that was never removed, or replaces it
\* by an older one, while the entry is current: a failed refresh keeps the
\* last successful snapshot, and no fetch is overtaken by another.
THEOREM SnapshotsOnlyAdvanceHolds == CatalogSpec => SnapshotsOnlyAdvance
  <1>1. CatalogInv /\ [CatalogNext]_catalogVars =>
          [\A e \in Entries : EntryCurrent(e) /\ EntryCurrent(e)' =>
             \A a \in KnownTo(e) \ removed' :
               a \in KnownTo(e)' /\ auths'[e][a].snapshot >= auths[e][a].snapshot]_catalogVars
    <2>1. \A e \in Entries : \A a \in Auths : Advances(e, a) => a \in KnownTo(e)'
      BY DEF Advances, KnownTo
    <2>2. QED
      BY <2>1, StepAdvances DEF Advances, KnownTo
  <1>2. QED
    BY <1>1, CatalogInvHolds, PTL DEF SnapshotsOnlyAdvance, CatalogSpec

-----------------------------------------------------------------------------
\* A sequence is known by what is at each of its places.
LEMMA HoldsIs ==
  ASSUME NEW s \in Seq(Entries)
  PROVE  /\ IsInjective(s) <=> \A i, j \in 1 .. Len(s) : s[i] = s[j] => i = j
         /\ ToSet(s) = {s[i] : i \in 1 .. Len(s)}
         /\ Len(s) \in Nat /\ DOMAIN s = 1 .. Len(s)
         /\ \A i \in 1 .. Len(s) : s[i] \in Entries
  <1>1. Len(s) \in Nat /\ DOMAIN s = 1 .. Len(s) /\ \A i \in 1 .. Len(s) : s[i] \in Entries
    BY LenProperties, ElementOfSeq
  <1>2. IsInjective(s) <=> \A i, j \in 1 .. Len(s) : s[i] = s[j] => i = j
    BY <1>1 DEF IsInjective
  <1>3. ToSet(s) = {s[i] : i \in 1 .. Len(s)}
    BY <1>1 DEF ToSet
  <1>4. QED
    BY <1>1, <1>2, <1>3

\* What stands where in two lists put together.
LEMMA JoinedIs ==
  ASSUME NEW s \in Seq(Entries), NEW u \in Seq(Entries)
  PROVE  /\ s \o u \in Seq(Entries) /\ Len(s \o u) = Len(s) + Len(u)
         /\ \A i \in 1 .. Len(s) : (s \o u)[i] = s[i]
         /\ \A i \in 1 .. Len(u) : (s \o u)[Len(s) + i] = u[i]
  <1>1. Len(s) \in Nat /\ Len(u) \in Nat
    BY LenProperties
  <1>2. /\ s \o u \in Seq(Entries)
        /\ Len(s \o u) = Len(s) + Len(u)
        /\ \A i \in 1 .. Len(s) + Len(u) :
             (s \o u)[i] = IF i <= Len(s) THEN s[i] ELSE u[i - Len(s)]
    BY ConcatProperties
  <1>3. ASSUME NEW i \in 1 .. Len(s) PROVE (s \o u)[i] = s[i]
    <2>1. i \in 1 .. Len(s) + Len(u) /\ i <= Len(s)
      BY <1>1
    <2>2. QED
      BY <1>2, <2>1
  <1>4. ASSUME NEW i \in 1 .. Len(u) PROVE (s \o u)[Len(s) + i] = u[i]
    <2>1. /\ Len(s) + i \in 1 .. Len(s) + Len(u) /\ ~(Len(s) + i <= Len(s))
          /\ (Len(s) + i) - Len(s) = i
      BY <1>1
    <2>2. QED
      BY <1>2, <2>1
  <1>5. QED
    BY <1>2, <1>3, <1>4

\* An element that is removed leaves the others in their order.
LEMMA RemovedIs ==
  ASSUME NEW s \in Seq(Entries), NEW p \in 1 .. Len(s), NEW r, r = RemoveAt(s, p)
  PROVE  /\ r \in Seq(Entries) /\ Len(r) = Len(s) - 1
         /\ \A i \in 1 .. Len(s) - 1 : r[i] = IF i < p THEN s[i] ELSE s[i + 1]
  <1> DEFINE n == Len(s)
             b == SubSeq(s, 1, p - 1)
             a == SubSeq(s, p + 1, n)
  <1>1. n \in Nat /\ p \in Nat
    BY LenProperties
  <1>2. /\ b \in Seq(Entries) /\ Len(b) = p - 1
        /\ \A i \in 1 .. p - 1 : b[i] = s[i]
    BY <1>1, SubSeqProperties
  <1>3. /\ a \in Seq(Entries) /\ Len(a) = n - p
        /\ \A i \in 1 .. n - p : a[i] = s[p + i]
    BY <1>1, SubSeqProperties
  <1>4. r = b \o a
    BY DEF RemoveAt
  <1> HIDE DEF a, b
  <1>5. /\ r \in Seq(Entries) /\ Len(r) = Len(b) + Len(a)
        /\ \A i \in 1 .. Len(b) : r[i] = b[i]
        /\ \A i \in 1 .. Len(a) : r[Len(b) + i] = a[i]
    <2>1. b \in Seq(Entries) /\ a \in Seq(Entries)
      BY <1>2, <1>3
    <2>2. /\ b \o a \in Seq(Entries) /\ Len(b \o a) = Len(b) + Len(a)
          /\ \A i \in 1 .. Len(b) : (b \o a)[i] = b[i]
          /\ \A i \in 1 .. Len(a) : (b \o a)[Len(b) + i] = a[i]
      BY <2>1, JoinedIs, Zenon
    <2>3. QED
      BY <1>4, <2>2, Zenon
  <1>6. Len(r) = n - 1
    BY <1>1, <1>2, <1>3, <1>5
  <1>7. ASSUME NEW i \in 1 .. n - 1
        PROVE  r[i] = IF i < p THEN s[i] ELSE s[i + 1]
    <2>1. CASE i < p
      <3>1. i \in 1 .. p - 1
        BY <1>1, <2>1
      <3>2. QED
        BY <1>2, <1>5, <2>1, <3>1
    <2>2. CASE ~(i < p)
      <3> DEFINE k == i - (p - 1)
      <3>1. k \in 1 .. n - p /\ p + k = i + 1 /\ (p - 1) + k = i
        BY <1>1, <2>2
      <3> HIDE DEF k
      <3>2. r[i] = a[k]
        BY <1>2, <1>3, <1>5, <3>1
      <3>3. a[k] = s[i + 1]
        BY <1>3, <3>1
      <3>4. QED
        BY <2>2, <3>2, <3>3
    <2>3. QED
      BY <2>1, <2>2
  <1>8. QED
    BY <1>5, <1>6, <1>7

\* An entry that moves to the front, or comes there, is in the list once.
LEMMA MovedIs ==
  ASSUME lru \in Seq(Entries), IsInjective(lru), NEW e \in Entries
  PROVE  LET m == MovedToFront(e)
         IN /\ m \in Seq(Entries) /\ IsInjective(m) /\ m[1] = e
            /\ ToSet(m) = ToSet(lru) \cup {e}
            /\ Len(m) = IF e \in ToSet(lru) THEN Len(lru) ELSE Len(lru) + 1
  <1> DEFINE n == Len(lru)
             r == Unlinked(e)
             m == MovedToFront(e)
             p == CHOOSE i \in DOMAIN lru : lru[i] = e
  <1>1. /\ \A i, j \in 1 .. n : lru[i] = lru[j] => i = j
        /\ ToSet(lru) = {lru[i] : i \in 1 .. n}
        /\ n \in Nat /\ DOMAIN lru = 1 .. n
        /\ \A i \in 1 .. n : lru[i] \in Entries
    BY HoldsIs
  <1>2. /\ r \in Seq(Entries) /\ Len(r) = IF e \in ToSet(lru) THEN n - 1 ELSE n
        /\ \A i, j \in 1 .. Len(r) : r[i] = r[j] => i = j
        /\ \A i \in 1 .. Len(r) : r[i] \in ToSet(lru) /\ r[i] # e
        /\ \A x \in ToSet(lru) \ {e} : \E i \in 1 .. Len(r) : r[i] = x
    <2>1. CASE e \in ToSet(lru)
      <3>1. p \in 1 .. n /\ lru[p] = e
        BY <1>1, <2>1
      <3>2. r = RemoveAt(lru, p)
        BY <2>1 DEF Unlinked
      <3> HIDE DEF p, r
      <3>3. /\ r \in Seq(Entries) /\ Len(r) = n - 1
            /\ \A i \in 1 .. n - 1 : r[i] = IF i < p THEN lru[i] ELSE lru[i + 1]
        BY <3>1, <3>2, RemovedIs
      <3>4. \A i, j \in 1 .. n - 1 : r[i] = r[j] => i = j
        BY <1>1, <3>1, <3>3
      <3>5. \A i \in 1 .. n - 1 : r[i] \in ToSet(lru) /\ r[i] # e
        BY <1>1, <3>1, <3>3
      <3>6. ASSUME NEW x \in ToSet(lru) \ {e}
            PROVE  \E i \in 1 .. n - 1 : r[i] = x
        <4>1. PICK j \in 1 .. n : lru[j] = x
          BY <1>1
        <4>2. CASE j < p
          <5>1. j \in 1 .. n - 1 /\ r[j] = x
            BY <1>1, <3>1, <3>3, <4>1, <4>2
          <5>2. QED
            BY <5>1
        <4>3. CASE ~(j < p)
          <5>1. j # p
            BY <3>1, <4>1
          <5>2. j - 1 \in 1 .. n - 1 /\ ~(j - 1 < p) /\ (j - 1) + 1 = j
            BY <1>1, <3>1, <4>3, <5>1
          <5>3. r[j - 1] = x
            BY <3>3, <4>1, <5>2
          <5>4. QED
            BY <5>2, <5>3
        <4>4. QED
          BY <4>2, <4>3
      <3>7. QED
        BY <2>1, <3>3, <3>4, <3>5, <3>6
    <2>2. CASE e \notin ToSet(lru)
      <3>1. r = lru
        BY <2>2 DEF Unlinked
      <3>2. QED
        BY <1>1, <2>2, <3>1
    <2>3. QED
      BY <2>1, <2>2
  <1>3. m = <<e>> \o r
    BY DEF MovedToFront
  <1> HIDE DEF r, m, p
  <1>4. /\ m \in Seq(Entries) /\ Len(m) = Len(r) + 1 /\ m[1] = e /\ Len(r) \in Nat
        /\ \A i \in 2 .. Len(r) + 1 : m[i] = r[i - 1]
    <2>1. <<e>> \in Seq(Entries) /\ Len(<<e>>) = 1 /\ Len(r) \in Nat
      BY <1>2, LenProperties
    <2> DEFINE one == <<e>>
    <2>2. one[1] = e
      OBVIOUS
    <2> HIDE DEF one
    <2>3. one \in Seq(Entries) /\ Len(one) = 1 /\ m = one \o r
      BY <1>3, <2>1 DEF one
    <2>4. /\ m \in Seq(Entries) /\ Len(m) = 1 + Len(r) /\ m[1] = one[1]
          /\ \A i \in 1 .. Len(r) : m[1 + i] = r[i]
      <3>1. one \in Seq(Entries) /\ r \in Seq(Entries)
        BY <1>2, <2>3
      <3>2. /\ one \o r \in Seq(Entries) /\ Len(one \o r) = Len(one) + Len(r)
            /\ \A i \in 1 .. Len(one) : (one \o r)[i] = one[i]
            /\ \A i \in 1 .. Len(r) : (one \o r)[Len(one) + i] = r[i]
        BY <3>1, JoinedIs, Zenon
      <3>3. /\ m \in Seq(Entries) /\ Len(m) = Len(one) + Len(r)
            /\ \A i \in 1 .. Len(one) : m[i] = one[i]
            /\ \A i \in 1 .. Len(r) : m[Len(one) + i] = r[i]
        BY <2>3, <3>2, Zenon
      <3>4. QED
        BY <2>3, <3>3
    <2>5. ASSUME NEW i \in 2 .. Len(r) + 1 PROVE m[i] = r[i - 1]
      <3>1. i - 1 \in 1 .. Len(r) /\ 1 + (i - 1) = i
        BY <2>1
      <3>2. QED
        BY <2>4, <3>1
    <2>6. QED
      BY <2>1, <2>2, <2>4, <2>5
  <1>5. \A i, j \in 1 .. Len(m) : m[i] = m[j] => i = j
    <2> SUFFICES ASSUME NEW i \in 1 .. Len(m), NEW j \in 1 .. Len(m), m[i] = m[j]
                 PROVE  i = j
      OBVIOUS
    <2>1. \A k \in 1 .. Len(m) : k # 1 => k - 1 \in 1 .. Len(r) /\ k \in 2 .. Len(r) + 1
      BY <1>4
    <2>2. \A k \in 1 .. Len(m) : k # 1 => m[k] = r[k - 1] /\ m[k] # e
      <3> SUFFICES ASSUME NEW k \in 1 .. Len(m), k # 1 PROVE m[k] = r[k - 1] /\ m[k] # e
        OBVIOUS
      <3>1. m[k] = r[k - 1]
        BY <1>4, <2>1
      <3>2. r[k - 1] # e
        BY <1>2, <2>1
      <3>3. QED
        BY <3>1, <3>2
    <2>3. CASE i # 1 /\ j # 1
      <3>1. r[i - 1] = r[j - 1] /\ i - 1 \in 1 .. Len(r) /\ j - 1 \in 1 .. Len(r)
        BY <2>1, <2>2, <2>3
      <3>2. i - 1 = j - 1
        BY <1>2, <3>1
      <3>3. QED
        BY <3>2
    <2>4. CASE i = 1 \/ j = 1
      <3>1. i = 1 /\ j = 1
        BY <1>4, <2>2, <2>4
      <3>2. QED
        BY <3>1
    <2>5. QED
      BY <2>3, <2>4
  <1>6. ToSet(m) = {m[i] : i \in 1 .. Len(m)} /\ IsInjective(m)
    BY <1>4, <1>5, HoldsIs
  <1>7. ToSet(m) = ToSet(lru) \cup {e}
    <2>1. ASSUME NEW x \in ToSet(m) PROVE x \in ToSet(lru) \cup {e}
      <3>1. PICK i \in 1 .. Len(m) : m[i] = x
        BY <1>6
      <3>2. i = 1 \/ (i \in 2 .. Len(r) + 1 /\ i - 1 \in 1 .. Len(r))
        BY <1>4
      <3>3. QED
        BY <1>2, <1>4, <3>1, <3>2
    <2>2. ASSUME NEW x \in ToSet(lru), x # e PROVE x \in ToSet(m)
      <3>1. PICK i \in 1 .. Len(r) : r[i] = x
        BY <1>2, <2>2
      <3>2. i + 1 \in 1 .. Len(m) /\ i + 1 \in 2 .. Len(r) + 1 /\ (i + 1) - 1 = i
        BY <1>4
      <3>3. m[i + 1] = x
        BY <1>4, <3>1, <3>2
      <3>4. QED
        BY <1>6, <3>2, <3>3
    <2>3. e \in ToSet(m)
      <3>1. 1 \in 1 .. Len(m)
        BY <1>4
      <3>2. QED
        BY <1>4, <1>6, <3>1
    <2>4. QED
      BY <2>1, <2>2, <2>3
  <1>8. Len(m) = IF e \in ToSet(lru) THEN n ELSE n + 1
    <2>1. CASE e \in ToSet(lru)
      <3>1. Len(r) = n - 1
        BY <1>2, <2>1
      <3>2. QED
        BY <1>1, <1>4, <2>1, <3>1
    <2>2. CASE e \notin ToSet(lru)
      <3>1. Len(r) = n
        BY <1>2, <2>2
      <3>2. QED
        BY <1>1, <1>4, <2>2, <3>1
    <2>3. QED
      BY <2>1, <2>2
  <1>9. QED
    BY <1>4, <1>6, <1>7, <1>8 DEF m

\* What is kept of a list is its front, within the limit.
LEMMA KeptIs ==
  ASSUME NEW s \in Seq(Entries), IsInjective(s), Len(s) >= 1
  PROVE  /\ Kept(s) \in Seq(Entries) /\ IsInjective(Kept(s)) /\ Len(Kept(s)) <= MaxVersions
         /\ ToSet(Kept(s)) \subseteq ToSet(s) /\ s[1] \in ToSet(Kept(s))
  <1> DEFINE n == IF Len(s) < MaxVersions THEN Len(s) ELSE MaxVersions
             k == Kept(s)
  <1>1. /\ \A i, j \in 1 .. Len(s) : s[i] = s[j] => i = j
        /\ ToSet(s) = {s[i] : i \in 1 .. Len(s)}
        /\ Len(s) \in Nat
    BY HoldsIs
  <1>2. n \in Nat /\ 1 <= n /\ n <= Len(s) /\ n <= MaxVersions
    BY <1>1, CatalogAssumption
  <1>3. k = SubSeq(s, 1, n)
    BY DEF Kept, FirstOf
  <1> HIDE DEF n, k
  <1>4. /\ k \in Seq(Entries) /\ Len(k) = n
        /\ \A i \in 1 .. n : k[i] = s[i]
    <2>1. \A i \in 1 .. n : i \in 1 .. Len(s)
      BY <1>1, <1>2
    <2>2. \A i \in 1 .. n : s[i] \in Entries
      BY <2>1, HoldsIs
    <2>3. QED
      BY <1>1, <1>2, <1>3, <2>2, SubSeqProperties
  <1>5. /\ IsInjective(k) <=> \A i, j \in 1 .. Len(k) : k[i] = k[j] => i = j
        /\ ToSet(k) = {k[i] : i \in 1 .. Len(k)}
    BY <1>4, HoldsIs
  <1>6. \A i \in 1 .. n : i \in 1 .. Len(s)
    BY <1>1, <1>2
  <1>7. IsInjective(k)
    BY <1>1, <1>4, <1>5, <1>6
  <1>8. ToSet(k) \subseteq ToSet(s)
    BY <1>1, <1>4, <1>5, <1>6
  <1>9. s[1] \in ToSet(k)
    <2>1. 1 \in 1 .. n
      BY <1>2
    <2>2. QED
      BY <1>4, <1>5, <2>1
  <1>10. QED
    BY <1>2, <1>4, <1>7, <1>8, <1>9 DEF k

-----------------------------------------------------------------------------
(* The entry that a caller will touch when it answers is an entry.         *)
WaitersTyped == \A c \in Callers : Waiting(c) => callers[c].entry \in Entries

LruInv == LruAgrees /\ WaitersTyped

\* An entry that is touched stays where it is in the map.
LEMMA TouchKeeps ==
  ASSUME CatalogTypes, LruAgrees, NEW e \in Entries, Touch(e), versions' = versions
  PROVE  LruAgrees'
  <1>1. CASE EntryCurrent(e)
    <2>1. lru' = MovedToFront(e)
      BY <1>1 DEF Touch
    <2>2. e \in ToSet(lru)
      BY <1>1, CatalogAssumption DEF LruAgrees, EntryCurrent
    <2>3. ToSet(lru) \cup {e} = ToSet(lru)
      BY <2>2
    <2>4. /\ lru' \in Seq(Entries) /\ IsInjective(lru') /\ Len(lru') = Len(lru)
          /\ ToSet(lru') = ToSet(lru)
      BY <2>1, <2>2, <2>3, MovedIs DEF LruAgrees
    <2>5. QED
      BY <2>4 DEF LruAgrees
  <1>2. CASE ~EntryCurrent(e)
    BY <1>2 DEF Touch, LruAgrees
  <1>3. QED
    BY <1>1, <1>2

\* A request that asks for a version puts its entry to the front and evicts
\* the entries beyond the limit from the map and from the list.
LEMMA AskAgrees ==
  ASSUME CatalogTypes, LruInv, NEW c \in Callers, NEW v \in Versions,
         NEW asked \in SUBSET Auths, NEW e \in Entries, FoundEntry(v, e),
         NEW slot, AskWith(c, v, asked, e, slot)
  PROVE  LruInv'
  <1> DEFINE m == MovedToFront(e)
             k == Kept(m)
  <1>1. /\ lru' = k
        /\ versions' = [w \in Versions |-> IF w = v THEN e
                                           ELSE IF versions[w] \in ToSet(k) THEN versions[w]
                                           ELSE NoEntry]
    BY DEF AskWith, VersionsWith
  <1>2. /\ m \in Seq(Entries) /\ IsInjective(m) /\ m[1] = e
        /\ ToSet(m) = ToSet(lru) \cup {e} /\ Len(m) >= 1
    <2>1. lru \in Seq(Entries) /\ IsInjective(lru)
      BY DEF LruInv, LruAgrees
    <2>2. /\ m \in Seq(Entries) /\ IsInjective(m) /\ m[1] = e
          /\ ToSet(m) = ToSet(lru) \cup {e}
      BY <2>1, MovedIs
    <2> HIDE DEF m
    <2>3. /\ Len(m) \in Nat /\ ToSet(m) = {m[i] : i \in 1 .. Len(m)}
      BY <2>2, HoldsIs
    <2>4. PICK i \in 1 .. Len(m) : m[i] = e
      BY <2>2, <2>3
    <2>5. QED
      BY <2>2, <2>3, <2>4
  <1> HIDE DEF m
  <1>3. /\ k \in Seq(Entries) /\ IsInjective(k) /\ Len(k) <= MaxVersions
        /\ ToSet(k) \subseteq ToSet(lru) \cup {e} /\ e \in ToSet(k)
    BY <1>2, KeptIs
  <1> HIDE DEF k
  <1>4. \A x \in ToSet(k) : x \in Entries /\ x # NoEntry
    BY <1>3, HoldsIs, CatalogAssumption
  <1>5. \A w \in Versions : versions[w] = e => w = v
    BY CatalogAssumption DEF FoundEntry, Unreferenced, EntryCurrent, LruInv, LruAgrees
  <1>6. versions[v] \in {NoEntry, e}
    BY DEF FoundEntry
  <1>7. ToSet(k) = {versions'[w] : w \in Versions} \ {NoEntry}
    <2>1. ASSUME NEW x \in ToSet(k) PROVE \E w \in Versions : versions'[w] = x
      <3>1. CASE x = e
        BY <1>1, <3>1
      <3>2. CASE x # e
        <4>1. x \in ToSet(lru)
          BY <1>3, <3>2
        <4>2. PICK w \in Versions : versions[w] = x
          BY <4>1 DEF LruInv, LruAgrees
        <4>3. w # v
          BY <1>4, <1>6, <3>2, <4>2
        <4>4. versions'[w] = x
          BY <1>1, <4>2, <4>3
        <4>5. QED
          BY <4>4
      <3>3. QED
        BY <3>1, <3>2
    <2>2. ASSUME NEW w \in Versions, versions'[w] # NoEntry PROVE versions'[w] \in ToSet(k)
      BY <1>1, <1>3, <2>2
    <2>3. QED
      BY <1>4, <2>1, <2>2
  <1>8. ASSUME NEW w \in Versions, NEW u \in Versions, versions'[w] = versions'[u],
               versions'[w] # NoEntry
        PROVE  w = u
    <2>1. \A x \in Versions \ {v} : versions'[x] # NoEntry => versions'[x] = versions[x]
      BY <1>1
    <2>2. versions'[v] = e
      BY <1>1
    <2>3. CASE w = v \/ u = v
      BY <1>5, <1>8, <2>1, <2>2, <2>3
    <2>4. CASE w # v /\ u # v
      <3>1. versions[w] = versions[u] /\ versions[w] # NoEntry
        BY <1>8, <2>1, <2>4
      <3>2. QED
        BY <3>1 DEF LruInv, LruAgrees
    <2>5. QED
      BY <2>3, <2>4
  <1>9. LruAgrees'
    BY <1>1, <1>3, <1>7, <1>8 DEF LruAgrees
  <1>10. WaitersTyped'
    <2>1. ASSUME NEW d \in Callers, Waiting(d)' PROVE callers'[d].entry \in Entries
      <3>1. CASE d = c
        BY <3>1 DEF AskWith, CatalogTypes
      <3>2. CASE d # c
        <4>1. callers'[d] = callers[d]
          BY <3>2 DEF AskWith, CatalogTypes
        <4>2. QED
          BY <2>1, <4>1 DEF LruInv, WaitersTyped, Waiting
      <3>3. QED
        BY <3>1, <3>2
    <2>2. QED
      BY <2>1 DEF WaitersTyped
  <1>11. QED
    BY <1>9, <1>10 DEF LruInv

\* Whatever leaves the map and the list alone and lets no caller in.
LEMMA LruFrame ==
  ASSUME LruInv, versions' = versions, lru' = lru,
         \A d \in Callers : Waiting(d)' => Waiting(d) /\ callers'[d].entry = callers[d].entry
  PROVE  LruInv'
  <1>1. LruAgrees'
    BY DEF LruInv, LruAgrees
  <1>2. WaitersTyped'
    BY DEF LruInv, WaitersTyped
  <1>3. QED
    BY <1>1, <1>2 DEF LruInv

\* A caller that leaves is no longer waiting, and the others wait as before.
LEMMA LeftWaits ==
  ASSUME CatalogTypes, NEW c \in Callers, callers' = [callers EXCEPT ![c] = IdleCaller],
         NEW d \in Callers, Waiting(d)'
  PROVE  Waiting(d) /\ callers'[d].entry = callers[d].entry
  <1>1. CASE d = c
    BY <1>1 DEF CatalogTypes, Waiting, IdleCaller
  <1>2. CASE d # c
    BY <1>2 DEF CatalogTypes, Waiting
  <1>3. QED
    BY <1>1, <1>2

\* A call that is closed leaves its callers where they are.
LEMMA ClosedWaits ==
  ASSUME CatalogTypes, NEW t, CloseCall(t), NEW d \in Callers, Waiting(d)'
  PROVE  Waiting(d) /\ callers'[d].entry = callers[d].entry
  <1>1. callers[d] \in CatalogCallers
    BY DEF CatalogTypes
  <1>2. CASE Waiting(d)
    <2>1. callers'[d] = [callers[d] EXCEPT !.calls = callers[d].calls \ {t}]
      BY <1>2 DEF CloseCall
    <2>2. QED
      BY <1>1, <1>2, <2>1 DEF CatalogCallers
  <1>3. CASE ~Waiting(d)
    BY <1>3 DEF CloseCall, Waiting
  <1>4. QED
    BY <1>2, <1>3

LEMMA LruStepKeeps ==
  ASSUME CatalogInv, LruInv, [CatalogNext]_catalogVars
  PROVE  LruInv'
  <1>1. CatalogTypes
    BY DEF CatalogInv
  <1>2. ASSUME versions' = versions, lru' = lru, callers' = callers
        PROVE  LruInv'
    BY <1>2, LruFrame DEF Waiting
  <1>3. ASSUME NEW t \in Tasks, TaskStep(t)
        PROVE  LruInv'
    <2>1. versions' = versions /\ lru' = lru /\ (callers' = callers \/ CloseCall(t))
      BY <1>3 DEF TaskStep, FetchAnswers, FetchFails, ForegroundMoot, ForegroundSucceeds,
         ForegroundFails, BackgroundSucceeds, BackgroundSpent, BackgroundCut, cacheVars
    <2>2. CASE CloseCall(t)
      BY <1>1, <2>1, <2>2, ClosedWaits, LruFrame
    <2>3. QED
      BY <1>2, <2>1, <2>2
  <1>4. ASSUME NEW c \in Callers, CallerStep(c)
        PROVE  LruInv'
    <2>1. ASSUME NEW v \in Versions, NEW asked \in SUBSET Auths, Ask(c, v, asked)
          PROVE  LruInv'
      <3> DEFINE e == EntryFor(v)
                 slot == CHOOSE slot \in Slots(v, asked) : TRUE
      <3>1. AskWith(c, v, asked, e, slot)
        BY <2>1 DEF Ask
      <3>2. e \in Entries /\ FoundEntry(v, e)
        BY <1>1, <2>1, AskedEntry
      <3> HIDE DEF e, slot
      <3>3. QED
        BY <1>1, <3>1, <3>2, AskAgrees
    <2>2. CASE Answer(c)
      <3>1. callers[c].entry \in Entries
        BY <2>2 DEF Answer, LruInv, WaitersTyped
      <3>2. LruAgrees'
        BY <1>1, <2>2, <3>1, TouchKeeps DEF Answer, LruInv
      <3>3. \A d \in Callers : Waiting(d)' => Waiting(d) /\ callers'[d].entry = callers[d].entry
        BY <1>1, <2>2, LeftWaits DEF Answer
      <3>4. WaitersTyped'
        BY <3>3 DEF LruInv, WaitersTyped
      <3>5. QED
        BY <3>2, <3>4 DEF LruInv
    <2>3. CASE Leave(c)
      <3>1. versions' = versions /\ lru' = lru /\ callers' = [callers EXCEPT ![c] = IdleCaller]
        BY <2>3 DEF Leave, cacheVars
      <3>2. \A d \in Callers : Waiting(d)' => Waiting(d) /\ callers'[d].entry = callers[d].entry
        BY <1>1, <3>1, LeftWaits
      <3>3. QED
        BY <3>1, <3>2, LruFrame
    <2>4. QED
      BY <1>4, <2>1, <2>2, <2>3 DEF CallerStep
  <1>5. ASSUME NEW v \in Versions, Cached(v)
        PROVE  LruInv'
    <2>1. versions[v] \in Entries
      BY <1>1, <1>5 DEF Cached, CatalogTypes
    <2>2. LruAgrees'
      BY <1>1, <1>5, <2>1, TouchKeeps DEF Cached, LruInv
    <2>3. WaitersTyped'
      BY <1>5 DEF Cached, LruInv, WaitersTyped, Waiting
    <2>4. QED
      BY <2>2, <2>3 DEF LruInv
  <1>6. CASE Around
    <2>1. \/ \E v \in Versions : Cached(v)
          \/ versions' = versions /\ lru' = lru /\ callers' = callers
      BY <1>6 DEF Around, ProvenHealthy, HealthForgets, CatalogForgets, ReconcileStops,
         UpstreamChanges, TimePasses, Close, cacheVars
    <2>2. QED
      BY <1>2, <1>5, <2>1
  <1>7. CASE UNCHANGED catalogVars
    BY <1>2, <1>7 DEF catalogVars, cacheVars
  <1>8. QED
    BY <1>3, <1>4, <1>6, <1>7 DEF CatalogNext

\* The map of versions and the LRU list of the catalog hold the same entries,
\* each once and within the limit, for any number of versions and any limit.
THEOREM LruAgreesHolds == CatalogSpec => []LruAgrees
  <1>1. CatalogInit => LruInv
    <2>1. ASSUME CatalogInit PROVE LruAgrees
      <3>1. lru = <<>> /\ \A v \in Versions : versions[v] = NoEntry
        BY <2>1 DEF CatalogInit
      <3>2. lru \in Seq(Entries) /\ Len(lru) = 0
        <4>1. <<>> \in Seq(Entries) /\ Len(<<>>) = 0
          OBVIOUS
        <4>2. QED
          BY <3>1, <4>1
      <3>3. IsInjective(lru) /\ ToSet(lru) = {}
        <4>1. 1 .. Len(lru) = {}
          BY <3>2
        <4>2. QED
          BY <3>2, <4>1, HoldsIs, ZenonT(60)
      <3>4. QED
        BY <3>1, <3>2, <3>3, CatalogAssumption DEF LruAgrees
    <2>2. ASSUME CatalogInit PROVE WaitersTyped
      BY <2>2 DEF CatalogInit, WaitersTyped, Waiting, IdleCaller
    <2>3. QED
      BY <2>1, <2>2 DEF LruInv
  <1>2. CatalogInv /\ LruInv /\ [CatalogNext]_catalogVars => LruInv'
    BY LruStepKeeps
  <1>3. LruInv => LruAgrees
    BY DEF LruInv
  <1>4. QED
    BY <1>1, <1>2, <1>3, CatalogInvHolds, PTL DEF CatalogSpec

=============================================================================
