# A TLA+ model of codex-oauth-proxy

codex-oauth-proxy is an HTTP server that lets many API-key users share a pool of
Codex OAuth credentials ("auths"). A request is authenticated, given an auth,
sent upstream with that auth's access token, and, when it fails, sent again with
another one. This directory holds TLA+ modules of the parts of the proxy that
keep state which several requests share, the TLC configurations that check them,
and TLAPS proofs. All paths below are under `src/`; files without a directory
are in `internal/codexonly/`.

## 1. The system

| Component | State it keeps | Operations | What is hard about it |
|---|---|---|---|
| Auth files, `FileAuthStore` (`auth.go`) | the JSON files of a directory, the `previous` map of the last scan | `Reconcile`, `Save`, `SetAccountDisabled`, all under `mutationMu` | results are applied outside the lock, in any order; changes seen by one caller are news to no other; several files make one account; a write in a group may fail half-way |
| Auth manager and OAuth refresh (`server.go` 46-229, `refresh.go`) | the map of refreshes in flight | `prepareAuth`, `RefreshAfterUnauthorized`, `ForceRefresh` | leader and followers, a rotating refresh token, cancellation, a deadline, a crash between the token endpoint and the file |
| Health registry (`auth_health.go`) | health state, model exclusions and healthy epoch of each auth; table `auth_health_states` | `MarkUnavailable`, `MarkHealthy`, `MarkCredentialHealthy`, `MarkModelUnsupported`, `ClearCooldown`, `PruneExpired`, `Reconcile`, `Restore` | verdicts of old requests meet newer ones; memory and table after failed writes and restarts |
| Session affinity (`session_affinity.go`) | table `session_affinity_bindings`, the cleanup timer | lookup, bind, rebind, refresh, five deletions, bounded cleanup | aliases of one session are merged, moved and expired by different requests |
| Selection (`server.go` 715-895) and failover (`failover.go`) | per-request sets of tried and failed auths, the round and its count of credentials | select, attempt, repair after 401, record the failure, wait, retry, final error | lists of auths read before and used after other requests' changes; deadlines that pass or move while the request waits |
| Model catalogs (`models.go`) | per auth and client version: models, freshness, the mark of a background fetch | `Catalog`, `KnownModelsForAuth`, `Reconcile`, background fetch | results of fetches whose auth has changed since |
| Management (`auth_management.go`) | counts of active connections | list, disable, refresh, clear cooldown, clear bindings | acts between the steps of requests |
| Storage failure and response writer (`storage_failure.go`, `storage_response_writer.go`) | the first fatal database error, "headers sent" | report, commit, check | a fatal error races with the first byte of a response |
| Users and API keys (`user_store.go`) | tables of users and keys | create, update, reset key, authenticate | `UpdateUser` reads, then writes |
| Usage (`usage.go`, `usage_proxy.go`) | table `usage_buckets`; per connection the metadata, what was recorded, what was captured | record once per response or correct it per WebSocket event, prune, report a window, a day or a timeseries | two goroutines of one bridge, ends of streams, records that commit late and out of order, retention edges |
| Responses, Chat Completions, edit predictions (`responses.go`, `chat_completions.go`, `zed_edit_predictions.go`) | per-stream converters: text, tool calls, the stop filter, the terminal response | convert requests, streams, tool calls, stop sequences | a stop sequence split over deltas; text and arguments told twice, as deltas and as snapshots; ends of a stream before and after its first byte |
| Routing, configuration, command line (`server.go`, `config.go`, `cmd/`) | none that lasts | | |

How they interact: `executeUpstream` reconciles the auth files, applies the
result to the health registry, the catalogs and the bindings, and then loops:
`selectProxyAuthCandidate` reconciles again, filters out tried and blocked
auths, asks the affinity table, and binds or moves the session;
`prepareAuth` refreshes an expired token; the attempt's answer is classified and
reported to the health registry. All of it runs in the goroutine of one request;
requests share the registry (one mutex), the file store (one mutex, held during
a token refresh), the refresh map (one mutex) and a SQLite database with one
connection, so that a transaction is atomic but nothing larger is.

What makes each part correct, in a sentence: an authoritative verdict is
neither lost nor invented (health); one exchange per refresh token, and the file
keeps a token that works (refresh); a session stays with its auth unless the
auth cannot be used, and its aliases stay together (affinity, selection); a
result about an old credential changes nothing about its successor (catalogs,
auth files); nothing is promised to a client after storage is lost (storage);
what was used is counted once (usage); a stream is cut where the whole text
would be (converters).

## 2. The modules

| Module | What it is |
|---|---|
| `DurableVerdicts` | abstract: what the registry promises about authoritative verdicts |
| `AuthHealth` | the health registry, its table, failed writes, crash and restore |
| `MCAuthHealth` | its instances for TLC |
| `AuthPool` | the auth directory and the file store: scans, changes of several files, who hears of removals |
| `MCAuthPool`, `AuthPoolProofs` | its instance; its theorems |
| `CredentialRefresh` | the coordinated OAuth refresh with the auth file and the token endpoint |
| `MCCredentialRefresh`, `CredentialRefreshProofs` | its instances; its theorems |
| `SessionBindings` | abstract: disjoint sessions that open, merge, move and end as a whole |
| `SessionAffinity` | the bindings table and each transaction on it |
| `MCSessionAffinity`, `SessionAffinityProofs` | its instances; its theorems |
| `AffinitySelection` | extends `SessionAffinity`: requests that select, bind and fail over |
| `MCAffinitySelection` | its instances; its theorems are in `SessionAffinityProofs` |
| `ModelCatalog` | the cache of upstream model catalogs, its foreground and background fetches |
| `MCModelCatalog`, `ModelCatalogProofs` | its instance; its theorems |
| `StorageFailure` | the one fatal storage error, the commit of a response, the end of the process |
| `UserStore` | extends `StorageFailure`: users, keys and the requests on them, statement by statement |
| `MCUserStore`, `UserStoreProofs` | its instance; the theorems of both, and that it implements `StorageFailure` |
| `Failover` | extends `AuthHealth`: one request in `executeUpstream`, attempt by attempt and round by round |
| `MCFailover`, `FailoverProofs` | its instance; the theorems of `AuthHealth`, of the request, and of the two together |
| `StopFilter` | the cut of a text at a stop sequence, whole and delta by delta |
| `ResponseStreams` | extends `StopFilter`: one upstream response read by the Chat Completions stream, the aggregated answer and the Responses collector |
| `MCResponseStreams`, `StreamProofs` | its instance; the theorems of `StopFilter` and of the stream |
| `UsageAccounting` | the WebSocket bridge, the captured bodies, the usage buckets and the reports |
| `MCUsageAccounting`, `UsageProofs` | its instance; its theorems |

### AuthHealth

Each method of `authHealthRegistry` holds `r.mu` while it writes the table and
memory, so each is one action; its parameter `ok` says whether the write
succeeds, and a failed write leaves memory alone, as the code's early returns do.
`states`, `exclusions`, `epochs` are the registry's maps, `rows` the table.
`ReportedStates(c)` are the states `markAuthFailure` can make (only credential
kinds carry a fingerprint, only quota and transient kinds a deadline).
`Reconcile` applies the changes of a result in order and stops at the first
delete that fails, then prunes; `Restore` and `RestoreFails` rebuild from the
table with whatever auth files are there. Time is a small counter; a deadline
has passed when it is not after the clock.

`KeepsPromise` says that, read through `DurableVerdict` (the part of memory that
must survive, or what the table says while the process is down), the registry
does only what `DurableVerdicts` allows: a crash changes nothing, and a standing
verdict ends in one of four ways only: with a newer authoritative verdict; with
a reason that refutes it (its deadline has passed, its tokens or its credential
are gone); with a step that advances the healthy epoch (a success, a credential
repair, the administrator); or at a moment when upstream has answered that the
credential lacks a model. `MarkModelUnsupported` (443-484) lifts the verdict too
and counts no epoch; the abstract `HearUnsupported` asks for the model exclusion
the answer leaves, through `excludedAt`. So a weaker failure never replaces a
standing verdict, and no success lifts a quota deadline that is ahead.
A success that was sent before a credential failure and arrives after it does
lift it: the code compares nothing, and `HearSuccess` allows it.

### CredentialRefresh

A call is a goroutine in `AuthManager.refresh`: `Select` (it read the credential
by a scan), `Lead` or `Follow` (the map `m.refreshes`), the critical section under
`mutationMu` from `Reread` over `Exchange`, `Retry`, `AttemptFails`, `WaitCut`,
to `Save` or `SaveFails`, then `Publish`, and `TakeResult` for followers. The
token endpoint is `Serve`: it honours the tokens in `live`, and a request may
renew the access token, rotate the pair, or do nothing, with the answer lost
or not. `Login`, `Remove`, `SetAccountDisabled`, `Cancel` and `Crash` surround
it. `verdict` is what `preparationFailure` makes of the error.

No call reads the file as such: it takes what a scan serves (`Read`, `Served`,
`Shut`). `disk` is what a file says, or will say once its writer is done; while
it is `torn` (`Tear` to `Mend`) it does not parse, and a scan serves what the
scan before left in `s.files` (`seen`, `shut`) until five seconds have passed
since the first scan that met it so (`trouble`, `GracePasses`). `Scan` is what
every scan leaves there: that of a call, of the leader under the lock, of
`SetAccountDisabled`, of a restart, and of everybody else (`Rescan`).
`retired`, `damaged` and `blind` are history variables: refresh tokens that a
saved file replaced, auths whose last rotated token was lost on its way, and the
leaders that work on what an earlier scan found because their file is torn.
`NoReplay` is said of the other leaders: section 5 has what becomes of these.

### AuthPool

`disk` is the directory, `files` and `auths` the maps the last scan left in the
store. A scan is `Begin` (the walk lists the directory), one `ReadFile` for each
file, in order, and `Publish`, with the operator's edits between any two; so is
the second scan of `SetAccountDisabled`. That operation then re-reads its sources
(`CheckSource`), replaces them one by one (`SaveSource`) and on a failure puts
back those it had replaced (`PutBack`, which may fail too). The part of a refresh
that touches files is `Renew`; the exchange with its errors is in
`CredentialRefresh`. `ops[c]` holds the local variables of a caller.

The time of the first failed parse is kept as `"grace"` or `"over"`. `kept` are
the auths that bindings, verdicts or catalog states exist for; a reconcile drops
those it saw removed (`Tell`), and a request may add one of its list (`UseAuth`).
The history variables say what the properties are relative to: `edited` and
`touched` what somebody outside the store did, `standing` the last state an
account was given, `steady` the files whose grace has not run out, `unheard`
the removals that went to an operation that does not pass them on.

### SessionAffinity and AffinitySelection

A row is `[group, auth, created, updated]`, and `Expires` follows from the last; a digest is a number, because
the code compares digests to name a group by its smallest one. One tenant is
enough: the tenant is part of what is hashed into a digest, and the rows that
predate tenant scopes are not modelled. Each transaction is an action; `Loaded`
is the two-step load of `loadSessionAffinityRows` (the rows of the asked digests,
then all rows of their groups), `Winners` the choice among live rows, written to
every loaded alias. An expired alias that is still in the table is revived when
its group is loaded; the documentation says nothing about it and the abstract
module allows it (an alias may join a session whenever it belongs to no other).
`TextAtMost` compares times the way the cleanup's SQL does, as RFC3339Nano text
with the fraction's trailing zeros dropped: a time that is another one cut to
fewer decimal places (`CutOf`) comes after it. `Fractions` is the number of ticks
in a second, `Units` says which places the clock shows; production has 10^9 and
the powers of ten from 10 to 10^9.

Cleanup may therefore remove a live binding within its last second, which
`CleanupSparesLive` says it does not (run `affinity_fractions`) and
`CleanupSparesLasting` limits to that second. When it takes some live rows of a
group and a full batch keeps it from the others, the group has lost its root, and
another session may take its name: the history variable `torn` says that it has
happened (`Tears`), and what the table promises of groups is said until then.
`SessionsStick` and `MovesOnlyOffUnusable` are said of every clock without this
exception.

`AffinitySelection` splits a request at every call that touches shared state
(`Phases`): the reconcile of `executeUpstream`, the deletion of removed auths'
bindings, the reconcile of the selection, the cleanup and filter, the two
queries of a lookup (outside a transaction), refresh, bind, rebind, rebind once
more, the attempt. `condition[a]` is what files and registry say of an auth.

### ModelCatalog

An entry is a `modelCatalogVersion`: `versions` says which entry a version has,
`lru` is the list (its last elements are evicted), `auths[e]` the map of its
states, where `NoState` stands for a missing key. `Ask` is the critical section
of `Catalog` together with the goroutines it starts; the caller then waits for
its `calls`, a set of foreground tasks, and `Answer`s through `aggregate`, or
leaves. A task is the goroutine of a fetch: it is in the fetch (`FetchAnswers`,
`FetchFails`), then has its result, then takes the mutex. Between the last two
anything may happen to its entry and its auth. `ForegroundFails` turns the task
into the background one, as the code starts it there; the waits between its
attempts are not told apart from the attempts.

What the code compares instants for is kept instead of instants: a snapshot is
`fresh` or not, a cycle has not begun, is open or is over (`TimePasses`). A
snapshot is the revision of the upstream catalog it shows, so that an older and
a newer one can be told apart. An entry that nothing refers to any more may be
used for a new one, as may a task that has ended. What an evicted entry knew is
forgotten at once: the code does not read it again. `epochs` are the healthy
epochs of the registry, and `forgetting` the auths whose removal the registry
has heard of and the catalog not yet: `reconcileAuths` tells one after the other,
and stops in between if the registry fails.

### StorageFailure and UserStore

A request of `StorageFailure` is a goroutine with a place in the code: it checks
readiness, runs statements, classifies a failure (`databaseError`), reports it
(`once.Do` in its three parts: record, cancel, send), and answers. `mu` is held
only by a response that is between the look at `s.err` and its write (`commit`);
everything else that takes `s.mu` waits for it (`Unlocked`). The main goroutine
is the select of `waitForServer` and the shutdown after it. Which statements a
request runs is left open, and any of them may fail at any time.

`UserStore` says it for the requests on users and keys: each statement or
transaction is a `Query` of `StorageFailure` joined with its change of the
tables, so that other requests, failures and a shutdown come between any two.
`given` is the number of the key that a reset hands out or a proxy request
brings, `floor` a history variable: the keys that resets of the user had
answered with when the request arrived.

### Failover

`request` holds the variables of `executeUpstream` and the place in it
(`phase`): it lists, selects, prepares, sends, repairs a 401 with a refresh,
trusts the repaired credential, sends again, blames, and between two rounds asks
for the nearest cooldown and waits. The health registry is that of `AuthHealth`,
whose actions are used as they are. Each reconcile compares the auth files with
those of the last scan (`ChangeOf`) and hands the changes to the registry in the
same step; a scan by a refresh or by a change of the disabled state
(`ScanOnly`) keeps them to itself. The two rebinds of a selection, the
transactions of a scan and the flights of a refresh are in `AffinitySelection`,
`AuthPool` and `CredentialRefresh`; here a selection takes an eligible auth or,
when others move the session meanwhile, any active one, and a refresh ends with
the tokens of the file, new ones, or a failure. Tokens are numbers, newer ones
greater.

The store's writes succeed in this module: what a failing one does to the
registry is in `AuthHealth`, and to the request it does what `Cancel` does. The
calls of `Blocked` that `finalProxyError` makes one after the other are one step
(`Refuse`): no other caller of the registry comes between them here. A bound on
disturbances limits what others do and how often time passes during an attempt;
time that passes while the request waits is not limited.

History: `ready` are the auths that have been usable ever since the request
began and were not selected, `stolen` says that the session was moved under it,
`excused` are the auths whose verdict no reconcile will drop, because it was
recorded too late or another scan kept the change.

### StopFilter and ResponseStreams

`StopFilter` is `chatStopFilter` as an operator on what it holds back and the
next delta, next to `truncateAtStopSequence` as a definition on a whole text.

`ResponseStreams` keeps two states of `chatCompletionState`, `chat` for the
stream and `whole` for the aggregated answer, and applies every event to both
(`applyResponsesEvent`, with `Ensured`, `TextSnapshot`, `ArgsSnapshot`,
`ToolSnapshot` for its helpers and `Joined` and `Replaced` for the two ways a
terminal output is taken, `Resolved` for the scan by output index that finds its
items); the collector only looks for the terminal event.
`phase` is where `streamChatCompletion` is: it has read the first event and
written nothing, reads, flushes the filter, finishes, tells usage, is done, or
has ended. Upstream tells an answer of `Answers` in any legal order: deltas of
any size, snapshots and done items or none, parallel tool calls, ids, indexes or
both, then a complete or incomplete terminal event; `MaxFaults` irregular events
may come (an error, an event that cannot be parsed, a contradiction, an event
after the terminal one), the body may end at any time and the client may leave.
A letter is a rune; the JSON around it is not modelled.

`Misplaced` is the one case in which `ClientSeesAll` and `StreamMatchesWhole` say
less of the calls. An item that is reported done without an output index is
given the next one (`outputIndexForEvent`). Let upstream label its items by id
only, answer with a reasoning item and the calls `a` and `b`, report the
reasoning item done twice, then `a`, and name all three in the terminal output:
`a` was noted at place 2, which is the place of `b` there, and as `b` was never
announced, `ensureToolCall` finds `a` for it. The call is renamed, and the
client is told of one call where the aggregated answer has two.
Then `ClientSeesAll` still claims that the client has as many calls as the state
and each with its arguments, `StreamMatchesWhole` that text and finish
agree. The fifth answer of the run is this case; an item that upstream places
itself, or reports once, is always noted at its own place.

### UsageAccounting

A bridge (`proxyCodexWebSocket`) dials, then copies with two goroutines,
`inbound` and `outbound`, which share `metadata` and close both connections when
one fails (`Closed`). A message may name a model, another setting, or that nothing
is to be generated, and changes the metadata only if it names something (`Names`),
whether it asks for a response or not. `settings` is what the messages forwarded
so far leave in force: the model
named last, and the mark of the last message that named anything; each request
carries those it was sent under. An event that tells usage is inspected with the metadata of
that moment (`recordWebSocketUsage`): a response that has a name is corrected by
the difference to what was recorded of it. A captured body books what it saw when
it is read to its end or closed (`FinishOnce`): what the last line told that was
not too long (1 MiB), or, when no line told any, what the payload told before it
was cut (2 MiB, `CutPayload`). Which lines are too long and where the payload is
cut is left open. Every record is stamped when it
is made and committed later, or lost when the statement fails; `Pruned` follows
its commit with the time of the record. Reading a message or an event and
noting it are one step: nobody else reads what the step changes before the next.

`Total`, `Points`, `Filled` and `Series` are the reports of `usage.go`. `requests`
is a history of what the bridge forwarded and what upstream told of it,
`booked` all that was ever committed, `excuse` the connections of which a record
was lost or whose client asked again, or named settings, before its response was
over.

## 3. The runs

| Run | Instance | Shows |
|---|---|---|
| `health` | 1 auth, 2 fingerprints, 2 models, 2 deadlines, clock to 3, one exclusion, epochs to 2 | `TableMirrorsMemory`, `ExclusionsBounded`, `KeepsPromise` over every order of reports, repairs, failed writes and restarts |
| `pool` | 2 callers, 2 files, 1 account and the path ids, 2 tokens, one edit | `ChangesStand`, `TokensNeverGoBack`, `GraceServes`, `RemovalsHeard` over every interleaving of scans, changes, refreshes and restarts |
| `refresh` | a prepare or forced refresh of one credential and a repair of it or of another, 2 attempts, 3 tokens, any 2 disturbances, scans at any time, fairness | `OneFlight`, `NoReplay`, `DiskRedeemable`, `LeadersRepair`, `EveryCallReturns` |
| `affinity` | 3 digests, 2 auths, half-second times, expiry 2, renewal 1, cleanup of 1 row, clock to 3 | `ActiveGroupsAgree`, `GroupsRooted`, `CleanupSparesLasting`, `ImplementsPromise` |
| `affinity_fractions` | 2 digests, 2 auths, half-second times | that `CleanupSparesLive` is violated (section 5) |
| `selection` | 2 requests, 2 digests, 2 auths, half-second times, catalogs that name one or all of them, a clock to 2, one disturbance | `SessionsStick`, `MovesOnlyOffUnusable` |
| `catalog` | 2 callers, 2 versions of which 1 is kept, 1 auth, 2 fetches at a time, 1 retry, 2 upstream revisions, 1 healthy epoch | `MarksHaveFetches`, `OneFetch`, `NoneForgotten`, `CallsWillClose`, `SnapshotsOnlyAdvance` |
| `storage` | 3 requests, any statements, fairness | `FirstFailureForAll`, `NoSuccessAfterFatal`, `FatalStopsProcess` |
| `users` | 2 requests of any kind, 2 users, 2 names, 3 keys | `OneActiveKey`, `ResetCutsOff` |
| `failover` | 1 request, replayable or not, 2 auths, 2 tokens, one of the auths may expire; one more round without a limit of credentials, or no more rounds with a limit of one; one disturbance, fairness | `SentWithinBudget`, `NoReadyAuthLeft`, `BlameMatches`, `RetryAfterServes`, `RequestEnds` |
| `streams` | 5 answers of one to three items and up to 5 letters, 2 stop sequences that overlap, deltas of 1 or 2 letters, one irregular event | `ShownIsCut`, `ClientSeesAll`, `StreamMatchesWhole`, `OneAccount` |
| `usage` | one bridge with 2 requests, one that names a model and generates nothing and one that names nothing, messages of both kinds that ask for no response, and 2 usage events, or 2 captured bodies; 2 models, 3 times in three buckets of which 2 are kept, fairness | `UsageBooked`, `ReportsComplete`, `BridgeEnds` |

Type invariants of `AuthHealth`, `AuthPool`, `CredentialRefresh`, `SessionAffinity`,
`StorageFailure`, `UserStore` and `UsageAccounting` are proved, for all constants, and not run
again; the invariants of the other modules apply their functions to all of their
domains, so a value without its type ends the run with an error.

Bounds. One auth is enough for the registry because no method reads the state of
another; a reconcile result that changes several and stops between them is left
to the proofs, which are for any set of auths. The same
holds for the catalog, and `ModelCatalogProofs` covers any set of auths. Two
fingerprints tell "same tokens" from "other tokens", and a third would behave as
the second. Two calls show leader and follower, and with another credential two
leaders that compete for the lock; the follower of a later flight, and other kinds
of calls for it, are left to the proofs. The disturbances happen to the credential both
calls can ask for: the other one matters for the lock only. Two of them are what it takes
to rotate a token and break its file, or to break it and lose the client or the process.
With half seconds a binding has a last second and a time within it that has a fraction; times
of several decimal places are left to the proofs, which are for any. Three digests let a group have a root, a member and a stranger. `MaxRetries` is 0 in the
runs of selections: a further round is the first one again with another list. Two files
give an account a file that was written and one that was not when a write fails;
the rollback of more than one is the same step again. `MaxTime`,
`MaxEpoch`, `MaxIssued`, `MaxRevision`, `MaxDisturbances` and `MaxRetries` bound counters that
only grow; the clock values include one before, at and after each deadline or
expiry. In `failover` a cooldown of 2 is longer than the longest wait of 1 and an
announced delay of 1 is not, so that a request may wait or has to give up; a
search with two disturbances (12.5 million states, safety only) found nothing
the run does not. In `streams` one stop sequence ends in the beginning of the
other, and the longest answer contains parts of both, so that all that the
filter may hold back occurs. In `usage` an amount of 0 and one that is not tell
a response that counts from one that does not, and three times lie in a bucket
that is kept, the next one, and one that drops the first; a window of the current bucket
alone shows nothing that pruning could reach, so the run asks for the longer one and the day. Three requests let one report, one wait for it and one answer; two users
let a reset touch the wrong one's keys, and two names let a creation or update
meet a taken one. Symmetry is used for calls, requests and auths where the definitions
treat them alike and only safety is checked; `MCAuthHealth` and the liveness
runs use none. Runs whose requests or calls are finite in number stop, and say
`CHECK_DEADLOCK FALSE`.

Fairness. `FairRefreshSpec` assumes weak fairness of the steps of each call. The code justifies it: a goroutine that can run is scheduled; the
mutex is handed on (Go's mutex does not starve a waiter); the retry wait is a
timer; an attempt ends by the deadline of the refresh or of the HTTP client. It
assumes nothing about clients, logins, scans, writers of files or the answers of
the endpoint.
`FairFailoverSpec` assumes it of the steps of the request, which include the
answers of upstream, the endpoint and the database (each has a deadline or
fails), and of the clock while the request waits. `FairUsageSpec` assumes it of
a goroutine of a bridge whose connection fails, of the end of the bridge, of the
goroutine that closes it with the server, and of the commit of its record. It assumes
nothing of the peers and nothing of a write to either of them, which has no deadline
(usage_proxy.go:792): a goroutine may stay in one for ever. `BridgeEnds` says what is
left: a bridge ends after the server has; after the client has gone, unless a
message waits for ever for upstream; after upstream has gone, unless an event waits for
ever for the client.
`StorageFairSpec` assumes it of each request that can go on and of the main
goroutine (the wait of the shutdown has a deadline), and nothing of clients,
streams, signals or the listener.

## 4. What is proved

With TLAPS, for all values of the constants that satisfy the named assumptions:

* `FailoverProofs`, the registry (`HealthAssumption`): `TypesHold`,
  `TableMirrorsMemoryHolds`, `KeepsPromiseHolds`, `ExclusionsBoundedHolds`. The
  inductive invariant adds to the types and the mirror
  that memory holds only states some report could have made (`OnlyReported`):
  without it a persisted kind could carry a shape that a row cannot hold. The
  refinement is proved action by action: each maps to an abstract one or a
  stutter. The bound of the exclusions is inductive once their sets are known to
  be finite: a full table gives up one before it takes one.
* `FailoverProofs`, a request (`FailoverAssumption`): `EveryReadyAuthIsTried`,
  `RequestStaysWithinBudget`, `StandingBlameIsExcused`, `RetryAfterIsHonest`. All
  rest on the types of the request and of the memory it reads (`RequestInv`,
  `MemoryTypes`). That no ready auth is left needs that a round which may still
  go on has seen each auth either tried, blocked or excused by a disturbance
  (`ReadyInv`), and that the earliest deadline is attained: the code's minimum
  is a choice from a set of numbers, shown to exist by well-founded
  induction. The budget needs to know where a request stands between counting an
  auth as tried and sending (`BudgetInv`): an attempt is counted before it is
  sent, and the second send of one auth follows a repaired token. `BlameInv`
  follows a verdict from the credential it was formed about to the one it is
  stored against.
* `FailoverProofs`, the two together (with `Deadlines = Nat \ {0}`, the
  deadlines a running clock can set): `RequestsKeepRegistry`,
  `RequestsKeepPromise`. Every step of a request is a report to the registry, its
  maintenance, or leaves it alone, so what was proved of the registry by itself
  holds of it under the requests the server makes, and the requests implement
  `DurableVerdicts` through it.
* `AuthPoolProofs` (the assumption of `AuthPool`): `RemovalsAreHeard`, `PoolTypes`,
  `GraceKeepsServing`, `NewerTokensStay`, `AccountsStand`. A caller holds
  `mutationMu` exactly in the phases of its critical section, and what it has
  read there is what the files still say unless somebody outside wrote
  one (`SourcesInv`). `RemovalsHeard` is inductive with these: an auth leaves
  the map only into the news of the caller whose scan saw it go, or as one of
  those nobody is told of. That a file which is being written keeps serving needs the
  same of a scan under way (`GraceInv`). That the accounts a change was
  acknowledged for stay as asked needs `SettledInv`: each file of an account that nobody
  outside touched holds what was asked last, or what the change under way asks,
  according to how far that change has come.
* `CredentialRefreshProofs` (`RefreshAssumption`): `RefreshTypesHold`,
  `OneFlightHolds`, `NoReplayHolds`, `DiskRedeemableHolds`, `LeadersRepairHolds`.
  The invariant says who may hold the lock (exactly the call inside the critical
  section), that the refresh token in a file is not retired, nor that of a candidate
  unless its leader is blind and has not exchanged it (`UnretiredInv`), and that tokens
  are never numbered ahead of what was issued. What a scan serves may be retired, but
  then the endpoint does not honour it any more (`SeenInv`): so an exchange that
  succeeds cannot bring a retired token back into the file, not even a blind one. While a
  leader works nobody scans, and what it sends is what the last scan found (`HoldSeen`).
* `SessionAffinityProofs` (`AffinityAssumption`: any resolution of the clock):
  `AffinityTypesHold`, `ActiveGroupsAgreeHolds`, `GroupsRootedHolds`,
  `CleanupSparesLastingHolds`, `ImplementsPromiseHolds`. A time cut to fewer places
  stays in its second, so the order of text errs within one second only. Agreement and rootedness need each other: a
  transaction loads whole groups, so the row it may miss would have to be a live
  row of a group with no live root. Once a cleanup has torn a live group neither is
  claimed. `RequestsOfASessionAgree` (`SessionsStick`)
  and `SessionsMoveForCause` (`MovesOnlyOffUnusable`) are of `AffinitySelection`:
  each step of a selection is a transaction of the table or leaves it alone, so
  the invariant of the table carries over, and the requests of a session that
  nothing unsettled hold in their local variables what the table says (`StickInv`).
* `UserStoreProofs`, storage (`StorageAssumption`): `StorageTypesHold`,
  `FirstFailureForAllHolds`, `NoSuccessAfterFatalHolds`. The invariant ties
  `s.err`, `s.once` and the place of the one reporter together, and says that a
  response between look and write holds `s.mu` and saw what is still so.
* `UserStoreProofs`, users (`UserAssumption`, `StorageAssumption`): `UserRefinesStorage`,
  `OneActiveKeyHolds`, `ResetCutsOffHolds`, `UserTypesHold`. The requests on users
  are shown to run their statements within what `StorageFailure` allows, so its
  invariant holds of them; with it, a statement runs only at the line the request
  is at. A reset is one transaction and keeps one active key; that it cuts off
  older keys needs that every key handed out is active or was replaced by a newer
  one, and that a new key is newer than all others.
* `StreamProofs`, the filter (`StopAssumption`): `ShownIsCutHolds`, `StreamCutsAsWholeHolds`.
  For any stop sequences and any deltas the client sees the cut of what had been
  said when the filter stopped, and, unless one stop sequence lies inside
  another, of the whole text. What is held back is shorter than the longest stop
  sequence and long enough that a cut of the whole begins in it or later.
* `StreamProofs`, the stream (`StreamAssumption`, `StopAssumption`): `StreamAccountsOnce`
  (`OneAccount`): what a client sees
  on the wire is at most one role, one finish, one usage and one end, in that
  order, and an error instead of them; the invariant relates the parts written to
  the phase of the handler and to how the upstream ended (`AccountInv`).
  `StreamSeesAll` (`ClientSeesAll`), `StreamShowsCut` (`ShownIsCut`) and
  `StreamEndsCut` (`StreamCutsAsWhole`): for every answer, every labelling, order
  and split of its events, every fault and wherever the client leaves. The
  invariant (`StreamInv`) holds four things together: the calls and the maps that
  lead to them (`ChatInv`: each name and each place leads to a call that bears
  it), what upstream has sent of each item (`SentOK`), the filter (`StopInv`),
  and that the deltas written so far, put together, are the calls as the state
  holds them (`SeenAll`). What makes it inductive is one
  fact about each helper of `applyResponsesEvent` (`EventOK`): the text and the
  deltas of its update are exactly what its state gains (`Sound`), and the names
  are those the client was told (`Orderly`) while nothing is out of place
  (`Placed`). Where upstream labels its items by name only, the place that
  `outputIndexForEvent` counts out is compared with how many items upstream has
  finished (`Counting`): this is the part that failed at first and brought the
  case of `Misplaced` to light. What a fold over a terminal output or over
  deltas returns is reached through the sequence of its partial results,
  whose existence is shown once for each fold.
  `StreamMatches` (`StreamMatchesWhole`): the stream and the aggregated answer read
  the same events, one as they arrive, the other for the terminal event, and say
  the same in the end. While the response is open (`Reading`) they have noted the
  same items at the same places, which is not obvious: where items have names
  only, the answer, which does not look at the items that are done, must place each
  call where the stream does (`Following`). Until an item that has something to say is
  done they are even equal; from then on the terminal event resolves an
  item (`Partial`, `Tellable`), so that neither keeps what the other drops. At the
  terminal event the stream adds to its calls what is missing of each (`Joined`) and
  the answer builds its calls anew (`Replaced`), through a table that it fills in
  another order: both are shown to hold exactly the calls that the output lists
  (`Lists`), as many of them (by their cardinality), each with its arguments; and
  the stream fails where a call of its own is not listed. That last step
  needs every item in place, and fails without it: it is where `Misplaced` counts.
* `ModelCatalogProofs` (`CatalogAssumption`, `StateAssumption`): `MarksHaveFetchesHolds`,
  `OneFetchHolds`, `NoneForgottenHolds`, `CallsWillCloseHolds`, `SnapshotsOnlyAdvanceHolds`.
  That a mark has its fetch is inductive on its own, but one fetch at a time is
  not: it needs the converse, that each fetch of an auth that was never removed
  holds the mark it set, and that the answer it carries is no older than the
  snapshot it will replace. After a removal only the first half is left, and it
  is enough for `MarksHaveFetches` and `NoneForgotten`.
  `LruAgreesHolds`, which no run checks: the map of versions and the list hold the same
  entries, each once, one per version and no more than the limit. It rests on what
  a move to the front (`MovedIs`) and an eviction (`KeptIs`) make of a list, and on
  callers that wait for an entry, never for none (`WaitersTyped`): `aggregate`
  touches the entry long after `Catalog` looked it up, when it may be evicted.
* `UsageProofs` (`UsageAssumption`): `UsageTypesHold`, `ReportsAreComplete`,
  `UsageIsBooked`. A report is a sum over buckets (`AddAll`, a fold). That such a
  fold takes its elements in any order, splits over disjoint sets and over the
  classes of a step is shown by induction over a set of subsets
  (`BySubsets`): what the induction is about is a set, not an operator. Reports
  are complete because what was pruned is older than any window may reach:
  wherever buckets and bookings differ, the bucket lies before the retention
  window of the clock (`Kept`), and the clock does not go back. Bookings need
  more (`BookInv`): a record that waits counts as booked, so that only the step
  that tells of usage changes a sum; while a client waits for one response at a
  time the metadata is the settings in force, between the goroutine that reads
  the next message and the one that forwards it too, whatever either names; what is remembered of a
  response is what was told of it last, and nothing if it is skipped or unnamed;
  an event adds to the sum of its request the difference that is recorded. The
  clock may show any finite set of times.

That every caller of the catalog gets an answer is said as a safety property:
it waits only for fetches that run, and a fetch has a deadline.

Only model-checked:

* Liveness (`EveryCallReturns`, `FatalStopsProcess`, `RequestEnds`, `BridgeEnds`):
  fairness and `ENABLED` are out of the prover's reach, as is induction whose
  hypothesis is an operator (what a recursive definition computes for every input).

## 5. Where code and documentation part

* A follower of a refresh takes the result of a flight that was asked about an
  older token, and may get back the very token that was refused (server.go:149-160):
  its request fails once more with a 401 and marks the credential unauthorized,
  where docs/architecture.md:100-102 speaks of a newer access token.
* A refresh whose retry wait is cut short is taken for a definitive failure of
  the credential: when a 429 announces a `Retry-After` beyond the deadline
  (`WaitCut` in `CredentialRefresh`), callers that are still there mark the
  credential invalid. docs/architecture.md:118-122 lists what is terminal, and
  this is not in the list.
* In the grace of a file that does not parse a refresh works on what the scan
  before found (auth.go:331-350, server.go:190). `Save` does not tell `s.files`: let a
  refresh rotate the token and save it, and another program begin to write the file
  before anybody scans. The next scan serves the tokens from before the
  refresh, although docs/architecture.md:112-114 says that the grace retains the last
  good representation; the next leader sends the retired refresh token, the endpoint
  answers `invalid_grant`, and its caller marks the credential. A repair may take an
  older access token the same way. Without `\ blind` TLC finds `NoReplay` violated so.
* Expiry times are compared as text of varying length (session_affinity.go:1151,
  user_store.go:829), so cleanup may remove a binding up to a second before its hour
  of inactivity (docs/architecture.md:311-313) is over: run `affinity_fractions`. A
  batch that ends inside a live group takes some of its aliases and leaves others,
  whose name another session may then take.
* The second rebind of a selection may return an auth that this round has tried
  already, or a blocked one (server.go:859 looks it up among the active auths),
  while docs/architecture.md:185 speaks of distinct eligible auths. It takes two
  requests that move the session between the two rebinds of a third.
* A request that listed the auths before a removal binds its session to the
  removed auth after its bindings were deleted (server.go:729, 832).
* A removal that a change of the disabled state or a refresh sees first is told
  to nobody (auth.go:412, 460 and server.go:190 discard the changes of their
  scans), nor is one whose request ends between scan and deletion. The verdicts,
  bindings and catalogs of that auth stay until a restart, or until it is added
  and removed again, although docs/architecture.md:214-215 says that removed
  identities are pruned from every cached version. `RemovalsHeard` says that
  these ways, and the use of an old list, are the only ones.
* A change of the disabled state, and a refresh, write a whole file back as it
  was read: what an operator wrote to it in between is lost.
* An auth that is removed and comes back while a fetch of it runs gets a second
  fetch beside the first. The first one, when it ends, writes into the state of
  the returned auth: it may replace a newer snapshot by its own or clear the
  mark of the new background task, so that a third is started. `OneFetch` and
  `SnapshotsOnlyAdvance` are therefore said of auths that were never removed;
  `MarksHaveFetches` and `NoneForgotten` hold regardless.
* A reconcile that stops between registry and catalog leaves an exhausted state
  with a generation above the epoch, which has started over: successes do not
  reopen the cycle until they outnumber the old ones or the period ends.
* A caller whose version is evicted while it waits is answered with the embedded
  catalog, although its fetches have succeeded (models.go:284, 374).
* A PATCH of one field of a user writes the other one back as it was read
  (user_store.go:552-572): a rename undoes a disable that came between.
* With `max-retry-credentials` a round ends before all auths were tried, and the
  final error is put together from all of them: a request may be told that all
  available auths are rate limited (docs/api-reference.md:145-147) while one that
  was never tried is healthy. `NoReadyAuthLeft` is said of requests without that
  limit.
* A verdict about a credential that is recorded after its tokens were replaced or
  removed, or whose change another scan kept to itself (server.go:190,
  auth.go:412, 460), keeps blocking the new tokens, although
  docs/architecture.md:199-201 says that the fingerprint invalidates it.
  `BlameMatches` says that these are the only ways.
* A credential whose preparation fails is passed over even by a request that may
  not be sent again: nothing of it was sent yet.
* When one stop sequence lies strictly inside another, the stream ends at the
  inner one and shows the beginning of the outer one, which the aggregated answer
  cuts off.
* After a stop sequence the stream tells no more tool calls, the aggregated
  answer names them (docs/api-reference.md:653-655 says that tool deltas after it are suppressed).
* Two message items, or two text parts, fail a stream whose events are told by
  snapshots with `output_conflict` (chat_completions.go:1137 and below), where
  docs/api-reference.md:650-653 says that a stream emits the missing suffix. The same
  error ends a stream whose incomplete response names no output while an item
  was reported done and a tool call is open. Arguments of a call that was never
  announced fail the aggregated answer and not the stream.
* An item that is reported done twice without an output index moves the places of
  those that follow, and a terminal output may then take one call for another in
  a stream (`Misplaced` in section 2); the aggregated answer tells both.
* A response whose first usage event over a WebSocket tells zeros only is never
  counted as a request (usage_proxy.go:632-660).
* responses.go:109 defers the close of the body that responses.go:137 replaces by
  the capturing one: a Responses stream that is cut short is closed below the
  capture and leaves no usage (docs/usage-and-observability.md:10, 41-46).
* A WebSocket client that asks again, or names settings, before its response is over
  has the first one booked under the later settings.
* A request over a WebSocket that names no model, effort, tier or `generate` does not
  touch the metadata (usage_proxy.go:336, 704): after one with `generate: false` it is
  skipped too and never booked, although it generates a response
  (docs/usage-and-observability.md:44-46 speaks of all that upstream reports).
* Usage on a line of a body longer than 1 MiB, or spread over several lines, is found
  only if no other line told any and it lies in the first 2 MiB
  (usage_proxy.go:85, 124, 173).
* A client that leaves a WebSocket bridge while its message waits for an upstream that
  does not read is not noticed, nor is an upstream that leaves while an event waits for
  a client that does not read (usage_proxy.go:792): the bridge then lasts until the
  server stops or the connection fails.

## 6. What is not modelled

* Configuration, the command line's flags and the catalog updater are read or run
  once; routing and header rewriting keep no state.
* The edit predictions convert one request and one response without state of
  their own and go through the same proxy path.
* The extraction of session signals and their hashing (a digest is a number), the
  spooling of a body for replay (a request may be sent again or not), the copying
  of bytes, the JSON of requests and answers, and the extraction of counters from
  an event: data that no property tells apart.
* The counts of active connections are changed under one lock by one increment
  and one decrement each; the lists of identities and dimensions in a usage
  report are reads of the same table by other keys.
* Migrations of the database run once, before the server does.

What a next step would bring: a composition of `Failover` with two requests, which
is beyond the size TLC can search in minutes.
