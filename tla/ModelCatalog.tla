---------------------------- MODULE ModelCatalog ----------------------------
(***************************************************************************)
(* The runtime model catalog (models.go): per client version an entry in   *)
(* an LRU cache, per auth of an entry the last snapshot of its upstream    *)
(* catalog, and the fetches behind them.  A request that misses starts or  *)
(* joins a foreground fetch of each auth and waits for all of them; a      *)
(* foreground fetch that fails leaves a background task with a few more    *)
(* attempts.  Everything but the fetches happens under one mutex; between  *)
(* the answer of a fetch and its arrival under the mutex the entry may be  *)
(* evicted and the auth removed or added again.                            *)
(*                                                                         *)
(* An instant is what the code compares it for: a snapshot is fresh or     *)
(* not, a refresh cycle has not begun, is open or is over.                 *)
(***************************************************************************)
EXTENDS Integers, FiniteSets, SequencesExt

CONSTANTS
  Versions,     \* normalized client versions
  Auths,        \* stable auth ids
  Callers,      \* requests for the catalog
  Tasks,        \* fetches, foreground or background
  Entries,      \* identities of cache entries
  NoEntry,
  NoAuth,
  NoTask,
  NoState,      \* what the map of an entry says of an auth it has no state for
  MaxVersions,  \* maxModelCatalogVersions
  Retries,      \* modelCatalogBackgroundRetries
  MaxEpoch,     \* bound: healthy epochs of an auth
  MaxRevision   \* bound: revisions of an upstream catalog

ASSUME CatalogAssumption ==
  /\ NoEntry \notin Entries /\ NoTask \notin Tasks /\ NoAuth \notin Auths
  /\ MaxVersions \in Nat \ {0} /\ Retries \in Nat \ {0}
  /\ MaxEpoch \in Nat /\ MaxRevision \in Nat \ {0}

VARIABLES
  versions,    \* version |-> its entry, or NoEntry
  lru,         \* the entries, the most recently used first
  auths,       \* entry |-> [auth |-> its state, or NoState]
  tasks,       \* task |-> the fetch it runs
  callers,     \* caller |-> the entry it asked and the calls it waits for
  epochs,      \* auth |-> its healthy epoch in the health registry
  forgetting,  \* auths a reconcile has removed from the health registry only
  closed,      \* the context of the catalog is cancelled
  revisions,   \* auth |-> the revision of its catalog upstream
  removed      \* history: auths that were ever removed from the catalog

cacheVars   == <<versions, lru, auths>>
healthVars  == <<epochs, forgetting>>
catalogVars == <<cacheVars, tasks, callers, healthVars, closed, revisions, removed>>

States ==
  [snapshot    : 0 .. MaxRevision,    \* the revision it shows, 0 for none
   fresh       : BOOLEAN,
   foreground  : Tasks \cup {NoTask},
   background  : BOOLEAN,
   cycle       : {"none", "open", "over"},
   exhausted   : BOOLEAN,
   generation  : 0 .. MaxEpoch]       \* exhaustedGeneration

EmptyState ==
  [snapshot |-> 0, fresh |-> FALSE, foreground |-> NoTask, background |-> FALSE,
   cycle |-> "none", exhausted |-> FALSE, generation |-> 0]

ASSUME StateAssumption == NoState \notin States

NoStates == [a \in Auths |-> NoState]

FetchTasks ==
  [phase : {"idle", "fetch", "ok", "failed"}, kind : {"foreground", "background"},
   entry : Entries \cup {NoEntry}, auth : Auths \cup {NoAuth},
   tries : 0 .. Retries, revision : 0 .. MaxRevision]

IdleTask == [phase |-> "idle", kind |-> "foreground", entry |-> NoEntry, auth |-> NoAuth,
             tries |-> 0, revision |-> 0]

CatalogCallers ==
  [stage : {"idle", "waiting"}, entry : Entries \cup {NoEntry}, calls : SUBSET Tasks]

IdleCaller == [stage |-> "idle", entry |-> NoEntry, calls |-> {}]

Running(t)    == tasks[t].phase # "idle"
Foreground(t) == tasks[t].kind = "foreground"
Waiting(c)    == callers[c].stage = "waiting"

EntryCurrent(e) == \E v \in Versions : versions[v] = e

(* The entry of t is current and still knows the auth of t.                *)
Known(t) ==
  EntryCurrent(tasks[t].entry) /\ auths[tasks[t].entry][tasks[t].auth] # NoState

StateOf(t) == auths[tasks[t].entry][tasks[t].auth]

SetState(t, s) ==
  auths' = [auths EXCEPT ![tasks[t].entry] = [@ EXCEPT ![tasks[t].auth] = s]]

ContextDone(e) == closed \/ ~EntryCurrent(e)

-----------------------------------------------------------------------------
(* versionLocked: the entry of a version moves to the front, or a new one  *)
(* is put there and the entries beyond the limit are evicted.  What an     *)
(* evicted entry knew is never read again.                                 *)

Unlinked(e) == IF e \in ToSet(lru) THEN RemoveAt(lru, CHOOSE i \in DOMAIN lru : lru[i] = e)
               ELSE lru

MovedToFront(e) == <<e>> \o Unlinked(e)

FirstOf(order, n) == SubSeq(order, 1, IF Len(order) < n THEN Len(order) ELSE n)

Kept(order) == FirstOf(order, MaxVersions)

Unreferenced(e) ==
  /\ ~EntryCurrent(e)
  /\ \A t \in Tasks : Running(t) => tasks[t].entry # e
  /\ \A c \in Callers : Waiting(c) => callers[c].entry # e

HasEntry(v) == versions[v] # NoEntry \/ \E e \in Entries : Unreferenced(e)
EntryFor(v) == IF versions[v] # NoEntry THEN versions[v]
               ELSE CHOOSE e \in Entries : Unreferenced(e)

VersionsWith(v, e, kept) ==
  [w \in Versions |-> IF w = v THEN e
                      ELSE IF versions[w] \in ToSet(kept) THEN versions[w] ELSE NoEntry]

-----------------------------------------------------------------------------
(* Catalog.                                                                *)

HeldState(v, a)  == IF versions[v] = NoEntry THEN NoState ELSE auths[versions[v]][a]
FoundState(v, a) == IF HeldState(v, a) = NoState THEN EmptyState ELSE HeldState(v, a)

Joins(s) == ~s.fresh /\ s.foreground # NoTask

Reopens(s, a) == s.exhausted => epochs[a] > s.generation \/ s.cycle # "open"

(* The mutant does not look for the background task.                       *)
Mutant_StartsOverBackground(s, a) == ~s.fresh /\ s.foreground = NoTask /\ Reopens(s, a)

Starts(s, a) == ~s.fresh /\ s.foreground = NoTask /\ ~s.background /\ Reopens(s, a)

Started(s, t) ==
  [s EXCEPT !.foreground = t,
            !.exhausted  = FALSE,
            !.cycle      = IF s.exhausted \/ s.cycle = "none" THEN "open" ELSE @]

ForegroundTask(e, a) ==
  [IdleTask EXCEPT !.phase = "fetch", !.entry = e, !.auth = a]

StartedBy(v, asked) == {a \in asked : Starts(FoundState(v, a), a)}
JoinedBy(v, asked)  == {a \in asked : Joins(FoundState(v, a))}

(* The tasks that may run the fetches it starts, each its own.             *)
Slots(v, asked) == Injection(StartedBy(v, asked), {t \in Tasks : ~Running(t)})

AskWith(c, v, asked, e, slot) ==
  LET kept    == Kept(MovedToFront(e))
      started == StartedBy(v, asked)
      begun   == {slot[a] : a \in started}
  IN
  /\ lru' = kept
  /\ versions' = VersionsWith(v, e, kept)
  /\ auths' = [f \in Entries |->
       IF f = e THEN [a \in Auths |-> IF a \in started
                                      THEN Started(FoundState(v, a), slot[a])
                                      ELSE IF a \in asked THEN FoundState(v, a)
                                      ELSE HeldState(v, a)]
       ELSE IF f \in ToSet(kept) THEN auths[f] ELSE NoStates]
  /\ tasks' = [t \in Tasks |->
       IF t \in begun THEN ForegroundTask(e, CHOOSE a \in started : slot[a] = t)
       ELSE tasks[t]]
  /\ callers' = [callers EXCEPT ![c] =
       [stage |-> "waiting", entry |-> e,
        calls |-> begun \cup {FoundState(v, a).foreground : a \in JoinedBy(v, asked)}]]
  /\ UNCHANGED <<healthVars, closed, revisions, removed>>

(* A request asks for the catalog of version v with the auths it found.    *)
Ask(c, v, asked) ==
  /\ ~Waiting(c)
  /\ HasEntry(v) /\ Slots(v, asked) # {}
  /\ AskWith(c, v, asked, EntryFor(v), CHOOSE slot \in Slots(v, asked) : TRUE)

(* aggregate: it touches the entry, unless that was evicted.               *)
Touch(e) == lru' = IF EntryCurrent(e) THEN MovedToFront(e) ELSE lru

(* All the calls are closed: the caller answers with what the entry shows. *)
Answer(c) ==
  /\ Waiting(c) /\ callers[c].calls = {}
  /\ Touch(callers[c].entry)
  /\ callers' = [callers EXCEPT ![c] = IdleCaller]
  /\ UNCHANGED <<versions, auths, tasks, healthVars, closed, revisions, removed>>

(* The context of the caller is done before it has seen all of them.       *)
Leave(c) ==
  /\ Waiting(c)
  /\ callers' = [callers EXCEPT ![c] = IdleCaller]
  /\ UNCHANGED <<cacheVars, tasks, healthVars, closed, revisions, removed>>

(* CachedCatalog: a proxied request looks without fetching.                *)
Cached(v) ==
  /\ versions[v] # NoEntry
  /\ Touch(versions[v])
  /\ UNCHANGED <<versions, auths, tasks, callers, healthVars, closed, revisions, removed>>

-----------------------------------------------------------------------------
(* The fetches.                                                            *)

(* fetchModelCatalog succeeds, and has marked the auth healthy by then.    *)
FetchAnswers(t) ==
  LET a == tasks[t].auth IN
  /\ tasks[t].phase = "fetch" /\ epochs[a] < MaxEpoch
  /\ tasks' = [tasks EXCEPT ![t].phase = "ok", ![t].revision = revisions[a]]
  /\ epochs' = [epochs EXCEPT ![a] = @ + 1]
  /\ UNCHANGED <<cacheVars, callers, forgetting, closed, revisions, removed>>

(* It fails; a background task waits and tries again while it may.         *)
FetchFails(t) ==
  /\ tasks[t].phase = "fetch"
  /\ \/ /\ ~Foreground(t) /\ tasks[t].tries < Retries
        /\ tasks' = [tasks EXCEPT ![t].tries = @ + 1]
     \/ /\ Foreground(t) \/ tasks[t].tries = Retries
        /\ tasks' = [tasks EXCEPT ![t].phase = "failed"]
  /\ UNCHANGED <<cacheVars, callers, healthVars, closed, revisions, removed>>

(* applyFetchSuccessLocked.  The mutant keeps the background mark.         *)
Mutant_AppliedMarked(s, revision) ==
  [s EXCEPT !.snapshot = revision, !.fresh = TRUE, !.exhausted = FALSE,
            !.generation = 0, !.cycle = "none"]

Applied(s, revision) ==
  [snapshot |-> revision, fresh |-> TRUE, foreground |-> s.foreground, background |-> FALSE,
   cycle |-> "none", exhausted |-> FALSE, generation |-> 0]

(* close(call.done).                                                       *)
CloseCall(t) ==
  callers' = [c \in Callers |-> IF Waiting(c)
                                THEN [callers[c] EXCEPT !.calls = @ \ {t}]
                                ELSE callers[c]]

EndTask(t) == tasks' = [tasks EXCEPT ![t] = IdleTask]

HoldsCall(t) == Known(t) /\ StateOf(t).foreground = t

ForegroundReturned(t) ==
  tasks[t].phase \in {"ok", "failed"} /\ Foreground(t)

(* runForegroundFetch: nobody holds its call any more.  The mutant returns *)
(* without closing it.                                                     *)
Mutant_ForegroundMootSilent(t) ==
  /\ ForegroundReturned(t) /\ ~HoldsCall(t)
  /\ EndTask(t)
  /\ UNCHANGED <<cacheVars, callers, healthVars, closed, revisions, removed>>

ForegroundMoot(t) ==
  /\ ForegroundReturned(t) /\ ~HoldsCall(t)
  /\ CloseCall(t) /\ EndTask(t)
  /\ UNCHANGED <<cacheVars, healthVars, closed, revisions, removed>>

ForegroundSucceeds(t) ==
  /\ ForegroundReturned(t) /\ HoldsCall(t) /\ tasks[t].phase = "ok"
  /\ SetState(t, [Applied(StateOf(t), tasks[t].revision) EXCEPT !.foreground = NoTask])
  /\ CloseCall(t) /\ EndTask(t)
  /\ UNCHANGED <<versions, lru, healthVars, closed, revisions, removed>>

(* The mutant starts the state over.                                       *)
Mutant_FailedReset(s) == [EmptyState EXCEPT !.background = TRUE]

Failed(s) == [s EXCEPT !.foreground = NoTask, !.background = TRUE]

(* The background task goes on in the place of the foreground one.         *)
ForegroundFails(t) ==
  /\ ForegroundReturned(t) /\ HoldsCall(t) /\ tasks[t].phase = "failed"
  /\ SetState(t, Failed(StateOf(t)))
  /\ CloseCall(t)
  /\ IF StateOf(t).background THEN EndTask(t)
     ELSE tasks' = [tasks EXCEPT ![t] =
            [@ EXCEPT !.phase = "fetch", !.kind = "background", !.tries = 1]]
  /\ UNCHANGED <<versions, lru, healthVars, closed, revisions, removed>>

(* finishBackground.  The mutant only counts a cycle that is still open.   *)
Mutant_FinishedOpen(s, a, exhausted) ==
  [s EXCEPT !.background = FALSE,
            !.exhausted  = exhausted /\ s.cycle = "open",
            !.generation = IF exhausted THEN epochs[a] ELSE @]

Finished(s, a, exhausted) ==
  [s EXCEPT !.background = FALSE,
            !.exhausted  = exhausted,
            !.generation = IF exhausted THEN epochs[a] ELSE @]

FinishBackground(t, exhausted) ==
  IF Known(t) THEN SetState(t, Finished(StateOf(t), tasks[t].auth, exhausted))
  ELSE auths' = auths

BackgroundSucceeds(t) ==
  /\ tasks[t].phase = "ok" /\ ~Foreground(t)
  /\ IF Known(t) THEN SetState(t, Applied(StateOf(t), tasks[t].revision))
     ELSE auths' = auths
  /\ EndTask(t)
  /\ UNCHANGED <<versions, lru, callers, healthVars, closed, revisions, removed>>

(* The last attempt has failed.                                            *)
BackgroundSpent(t) ==
  /\ tasks[t].phase = "failed" /\ ~Foreground(t)
  /\ FinishBackground(t, TRUE)
  /\ EndTask(t)
  /\ UNCHANGED <<versions, lru, callers, healthVars, closed, revisions, removed>>

(* The wait before an attempt ends with the context of the entry.          *)
BackgroundCut(t) ==
  /\ tasks[t].phase = "fetch" /\ ~Foreground(t)
  /\ ContextDone(tasks[t].entry)
  /\ FinishBackground(t, FALSE)
  /\ EndTask(t)
  /\ UNCHANGED <<versions, lru, callers, healthVars, closed, revisions, removed>>

-----------------------------------------------------------------------------
(* What happens around the catalog.                                        *)

(* An auth is proven healthy by anything but a fetch that succeeds.        *)
ProvenHealthy(a) ==
  /\ epochs[a] < MaxEpoch
  /\ epochs' = [epochs EXCEPT ![a] = @ + 1]
  /\ UNCHANGED <<cacheVars, tasks, callers, forgetting, closed, revisions, removed>>

(* reconcileAuths reports a removal to the health registry first, and to   *)
(* the catalog afterwards, unless it fails or is cancelled in between.     *)
HealthForgets(a) ==
  /\ a \notin forgetting
  /\ epochs' = [epochs EXCEPT ![a] = 0]
  /\ forgetting' = forgetting \cup {a}
  /\ UNCHANGED <<cacheVars, tasks, callers, closed, revisions, removed>>

CatalogForgets(a) ==
  /\ a \in forgetting
  /\ auths' = [e \in Entries |-> [auths[e] EXCEPT ![a] = NoState]]
  /\ removed' = removed \cup {a}
  /\ forgetting' = forgetting \ {a}
  /\ UNCHANGED <<versions, lru, tasks, callers, epochs, closed, revisions>>

ReconcileStops(a) ==
  /\ a \in forgetting
  /\ forgetting' = forgetting \ {a}
  /\ UNCHANGED <<cacheVars, tasks, callers, epochs, closed, revisions, removed>>

(* modelCatalogTTL passes for a snapshot or for a refresh cycle.           *)
TimePasses(e, a) ==
  /\ EntryCurrent(e) /\ auths[e][a] # NoState
  /\ \/ auths[e][a].fresh /\ auths' = [auths EXCEPT ![e] = [@ EXCEPT ![a].fresh = FALSE]]
     \/ /\ auths[e][a].cycle = "open"
        /\ auths' = [auths EXCEPT ![e] = [@ EXCEPT ![a].cycle = "over"]]
  /\ UNCHANGED <<versions, lru, tasks, callers, healthVars, closed, revisions, removed>>

UpstreamChanges(a) ==
  /\ revisions[a] < MaxRevision
  /\ revisions' = [revisions EXCEPT ![a] = @ + 1]
  /\ UNCHANGED <<cacheVars, tasks, callers, healthVars, closed, removed>>

Close ==
  /\ ~closed /\ closed' = TRUE
  /\ UNCHANGED <<cacheVars, tasks, callers, healthVars, revisions, removed>>

-----------------------------------------------------------------------------
CatalogInit ==
  /\ versions = [v \in Versions |-> NoEntry]
  /\ lru = <<>>
  /\ auths = [e \in Entries |-> NoStates]
  /\ tasks = [t \in Tasks |-> IdleTask]
  /\ callers = [c \in Callers |-> IdleCaller]
  /\ epochs = [a \in Auths |-> 0]
  /\ forgetting = {}
  /\ closed = FALSE
  /\ revisions = [a \in Auths |-> 1]
  /\ removed = {}

TaskStep(t) ==
  \/ FetchAnswers(t)       \/ FetchFails(t)
  \/ ForegroundMoot(t)     \/ ForegroundSucceeds(t) \/ ForegroundFails(t)
  \/ BackgroundSucceeds(t) \/ BackgroundSpent(t)    \/ BackgroundCut(t)

CallerStep(c) ==
  \/ \E v \in Versions, asked \in SUBSET Auths : Ask(c, v, asked)
  \/ Answer(c)
  \/ Leave(c)

Around ==
  \/ \E v \in Versions : Cached(v)
  \/ \E a \in Auths : \/ ProvenHealthy(a) \/ HealthForgets(a) \/ CatalogForgets(a)
                      \/ ReconcileStops(a) \/ UpstreamChanges(a)
  \/ \E e \in Entries, a \in Auths : TimePasses(e, a)
  \/ Close

CatalogNext ==
  \/ \E t \in Tasks : TaskStep(t)
  \/ \E c \in Callers : CallerStep(c)
  \/ Around

CatalogSpec == CatalogInit /\ [][CatalogNext]_catalogVars

-----------------------------------------------------------------------------
CatalogTypes ==
  /\ versions \in [Versions -> Entries \cup {NoEntry}]
  /\ auths \in [Entries -> [Auths -> States \cup {NoState}]]
  /\ tasks \in [Tasks -> FetchTasks]
  /\ callers \in [Callers -> CatalogCallers]
  /\ epochs \in [Auths -> 0 .. MaxEpoch]
  /\ forgetting \subseteq Auths /\ removed \subseteq Auths
  /\ closed \in BOOLEAN
  /\ revisions \in [Auths -> 1 .. MaxRevision]

(* The map of versions and the LRU list hold the same entries, each once,  *)
(* at most maxModelCatalogVersions of them, whatever is evicted, answered  *)
(* or asked for again (versionLocked, aggregate).                          *)
LruAgrees ==
  /\ lru \in Seq(Entries) /\ IsInjective(lru) /\ Len(lru) <= MaxVersions
  /\ ToSet(lru) = {versions[v] : v \in Versions} \ {NoEntry}
  /\ \A v, w \in Versions : versions[v] = versions[w] => v = w \/ versions[v] = NoEntry

KnownTo(e) == {a \in Auths : auths[e][a] # NoState}

Fetches(t, e, a) == Running(t) /\ tasks[t].entry = e /\ tasks[t].auth = a

(* A mark in the state of an auth has its fetch: without one, the marked   *)
(* auth would never be fetched again, because Catalog neither starts a     *)
(* fetch over a mark nor waits for it to be cleared.  Removals, evictions  *)
(* and a fetch that outlives either must not leave one behind.             *)
MarksHaveFetches ==
  \A e \in Entries : EntryCurrent(e) => \A a \in KnownTo(e) :
    LET s == auths[e][a] IN
    /\ s.foreground # NoTask =>
         /\ s.foreground \in Tasks
         /\ Fetches(s.foreground, e, a) /\ Foreground(s.foreground)
    /\ s.background => \E t \in Tasks : Fetches(t, e, a) /\ ~Foreground(t)

(* Concurrent misses for one version and auth share one fetch, and the     *)
(* background refresh is deduplicated: while the auth is never removed, at *)
(* most one fetch of it runs for a current entry.  (After a removal, the   *)
(* old fetch runs on beside the first one of the returned auth.)           *)
OneFetch ==
  \A t, u \in Tasks, e \in Entries, a \in Auths \ removed :
    EntryCurrent(e) /\ Fetches(t, e, a) /\ Fetches(u, e, a) => t = u

(* A failed refresh keeps the last successful snapshot, and no fetch that  *)
(* was overtaken replaces a snapshot by an older one, as long as the entry *)
(* is not evicted and the auth never removed.                              *)
SnapshotsOnlyAdvance ==
  [][\A e \in Entries : EntryCurrent(e) /\ EntryCurrent(e)' =>
       \A a \in KnownTo(e) \ removed' :
         a \in KnownTo(e)' /\ auths'[e][a].snapshot >= auths[e][a].snapshot]_catalogVars

(* An auth that is missing from the catalog is being fetched, or has spent *)
(* its refresh cycle: none is forgotten with fetches neither running nor   *)
(* counted, even when a fetch of the removed auth ends in the state of the *)
(* returned one.                                                           *)
NoneForgotten ==
  \A e \in Entries : EntryCurrent(e) => \A a \in KnownTo(e) :
    LET s == auths[e][a] IN
    s.snapshot = 0 /\ s.foreground = NoTask /\ ~s.background => s.exhausted \/ closed

(* No caller waits for a call that nobody will close: what it waits for    *)
(* are foreground fetches that still run, also when the entry is evicted   *)
(* or the auth removed while they do.  A fetch has a deadline, so every    *)
(* caller gets its answer.                                                 *)
CallsWillClose ==
  \A c \in Callers : Waiting(c) =>
    \A t \in callers[c].calls : Running(t) /\ Foreground(t)
=============================================================================
