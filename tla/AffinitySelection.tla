-------------------------- MODULE AffinitySelection --------------------------
(***************************************************************************)
(* How a proxied request finds its Codex auth: selectProxyAuthCandidate     *)
(* (server.go) called in the credential loop of executeUpstream             *)
(* (failover.go), over the session affinity table.  Requests interleave     *)
(* between any two calls that touch shared state: the file reconcile, the   *)
(* deletion of the bindings of removed auths, the health check, the two     *)
(* queries of a lookup, and each transaction.                               *)
(*                                                                          *)
(* All requests ask for the same model; condition[a] says what the auth     *)
(* files and the health registry make of a for that model.  The upstream's  *)
(* answer to an attempt is good or bad at will.                             *)
(***************************************************************************)
EXTENDS SessionAffinity

CONSTANTS
    Requests,
    Catalogs,      \* sets of auths a known model catalog may name for the model
    MaxRetries,    \* cfg.RequestRetry: further rounds after the first
    MaxDisturbances,  \* bound: changes of auth files and operator clears
    NoAuth, NoBinding

ASSUME SelectionAssumption ==
    /\ Catalogs \subseteq SUBSET Auths
    /\ MaxRetries \in Nat /\ MaxDisturbances \in Nat
    /\ NoAuth \notin Auths

VARIABLES
    condition,     \* auth -> "absent" | "disabled" | "blocked" | "ready"
    known,         \* the ids in FileAuthStore's last scan
    disturbances,  \* disturbances so far
    requests,      \* request -> its place in the code and its variables
    steady         \* history: requests whose session has not changed hands
                   \* since they learnt its auth

selectionVars == <<affinityVars, condition, known, disturbances, requests, steady>>

Conditions == {"absent", "disabled", "blocked", "ready"}

Phases == {"idle", "arrived", "invalidateFirst", "reconcile", "invalidate",
           "clean", "lookup", "groups", "refresh", "bind", "rebind",
           "rebindAgain", "attempt", "answered", "failed"}

Over == {"idle", "answered", "failed"}

Binding == [digests : SUBSET Digests, group : Digests, auth : Auths]

\* phase       the next call of the request
\* digests     the digests of its signals
\* allowed     the auths of executeUpstream's own reconcile, or those of them
\*             that the model catalog names
\* active      AuthReconcileResult.Active of this selection
\* eligible    the auths of active neither tried nor blocked
\* removed     the ids its reconcile found removed, until it deletes them
\* tried       the auths of this round
\* binding     selection.Binding or the local binding
\* read        the rows of the lookup's first query; asked is its clock
\* auth        selection.Auth
\* round       the retry round
Request ==
    [phase : Phases, digests : SUBSET Digests, allowed : SUBSET Auths,
     active : SUBSET Auths, eligible : SUBSET Auths, removed : SUBSET Auths, tried : SUBSET Auths,
     binding : Binding \cup {NoBinding},
     read : UNION {[S -> Row] : S \in SUBSET Digests}, asked : 0..MaxTime,
     auth : Auths \cup {NoAuth}, round : 0..MaxRetries]

NoRows == [d \in {} |-> 0]

Idle == [phase |-> "idle", digests |-> {}, allowed |-> {}, active |-> {},
         eligible |-> {}, removed |-> {}, tried |-> {}, binding |-> NoBinding,
         read |-> NoRows, asked |-> 0, auth |-> NoAuth, round |-> 0]

SelectionInit ==
    /\ Init
    /\ condition = [a \in Auths |-> "ready"]
    /\ known = Auths
    /\ disturbances = 0
    /\ requests = [r \in Requests |-> Idle]
    /\ steady = {}

At(r, phase) == requests[r].phase = phase

Goto(r, phase) == requests' = [requests EXCEPT ![r].phase = phase]

\* The request is over without an answer.
Abandon(r) == requests' = [requests EXCEPT ![r] = [Idle EXCEPT !.phase = "failed"]]

\* A selection ends well with auth a, which counts as tried in this round.
Settle(req, binding, a) ==
    [req EXCEPT !.phase = "attempt", !.binding = binding, !.auth = a,
                !.tried = @ \cup {a}]

\* A binding is used when its auth is eligible and moved otherwise.
UseOrMove(req, binding) ==
    IF binding.auth \in req.eligible
    THEN Settle(req, binding, binding.auth)
    ELSE [req EXCEPT !.phase = "rebind", !.binding = binding]

\* The outcome of the first write is used unless another request's winner is
\* one that this request cannot use; then it rebinds once more.
UseOrRetry(req, binding) ==
    IF binding.auth \in req.eligible
    THEN Settle(req, binding, binding.auth)
    ELSE [req EXCEPT !.phase = "rebindAgain", !.binding = binding]

\* The outcome of the second write is used if its auth is active at all.
UseOrFail(req, binding) ==
    IF binding.auth \in req.active
    THEN Settle(req, binding, binding.auth)
    ELSE [Idle EXCEPT !.phase = "failed"]

BindingOf(aliases, row) == [digests |-> aliases, group |-> row.group, auth |-> row.auth]

-----------------------------------------------------------------------------
\* A request with the signals of a session arrives.
Arrive(r, digests) ==
    /\ At(r, "idle")
    /\ requests' = [requests EXCEPT ![r] = [Idle EXCEPT !.phase = "arrived",
                                                         !.digests = digests]]
    /\ UNCHANGED <<affinityVars, condition, known, disturbances>>

\* reconcileAuths: FileAuthStore.Reconcile scans the files and reports what
\* left since the last scan; the caller deletes the bindings of those.
Present == {a \in Auths : condition[a] # "absent"}
Enabled == {a \in Auths : condition[a] \notin {"absent", "disabled"}}

ScanFiles(r, invalidate, next, allowed) ==
    /\ known' = Present
    /\ requests' = [requests EXCEPT
         ![r].allowed = allowed,
         ![r].active = Enabled,
         ![r].removed = known \ Present,
         ![r].phase = IF known \subseteq Present THEN next ELSE invalidate]
    /\ UNCHANGED <<affinityVars, condition, disturbances>>

\* executeUpstream's own reconcile fixes the auths the request may ever use:
\* every auth with a file, or the enabled ones that the known catalogs name for
\* the model.  With none of these the request fails, as it does here when it
\* comes to filter.  The cap on credentials per round is off (its default).
ReconcileFirst(r) ==
    /\ At(r, "arrived")
    /\ \E allowed \in {Present} \cup {supporting \cap Enabled : supporting \in Catalogs} :
          ScanFiles(r, "invalidateFirst", "reconcile", allowed)

\* The reconcile of each selection.
ReconcileFiles(r) ==
    /\ At(r, "reconcile")
    /\ ScanFiles(r, "invalidate", "clean", requests[r].allowed)

InvalidateRemoved(r) ==
    /\ At(r, "invalidateFirst") \/ At(r, "invalidate")
    /\ DeleteByAuthIDs(requests[r].removed)
    /\ requests' = [requests EXCEPT
         ![r].removed = {},
         ![r].phase = IF At(r, "invalidate") THEN "clean" ELSE "reconcile"]
    /\ UNCHANGED <<condition, known, disturbances>>

\* The due cleanup, then the filter on tried and blocked auths.  Without an
\* eligible auth the round is over; with a binding from an earlier attempt the
\* table is not asked again.
CleanAndFilter(r) ==
    LET req == requests[r]
        eligible == {a \in (req.active \cap req.allowed) \ req.tried :
                       condition[a] # "blocked"}
        next == [req EXCEPT !.eligible = eligible]
    IN  /\ At(r, "clean")
        /\ \/ CleanupExpired
           \/ now < nextCleanup /\ UNCHANGED affinityVars
        /\ requests' = [requests EXCEPT ![r] =
             CASE eligible = {} /\ req.round < MaxRetries ->
                    [next EXCEPT !.phase = "reconcile", !.tried = {}, !.round = @ + 1]
               [] eligible = {} /\ req.round = MaxRetries -> [Idle EXCEPT !.phase = "failed"]
               [] eligible # {} /\ req.binding = NoBinding -> [next EXCEPT !.phase = "lookup"]
               [] eligible # {} /\ req.binding # NoBinding -> UseOrMove(next, req.binding)]
        /\ UNCHANGED <<condition, known, disturbances>>

\* lookupSessionAffinity, first query: the rows of the digests.
LookupDigests(r) ==
    /\ At(r, "lookup")
    /\ requests' = [requests EXCEPT
         ![r].read = [d \in requests[r].digests \cap DOMAIN table |-> table[d]],
         ![r].asked = now, ![r].phase = "groups"]
    /\ UNCHANGED <<affinityVars, condition, known, disturbances>>

\* Mutant: a lookup writes only to renew.
Mutant_NeedsWriteWhenDue(rows, digests, winner, t) == winner.updated + Renewal <= t

\* sessionAffinityNeedsWrite: the winner is due for renewal, or some digest of
\* the request is not a live alias of the winner's group.
NeedsWrite(rows, digests, winner, t) ==
    \/ winner.updated + Renewal <= t
    \/ \E d \in digests :
          \/ d \notin DOMAIN rows
          \/ Expires(rows[d]) <= t
          \/ rows[d].auth # winner.auth
          \/ rows[d].group # winner.group

\* lookupSessionAffinity, second query: the rows of the groups found, which
\* replace what the first query read of them; then the verdict on both.
LookupGroups(r) ==
    LET req == requests[r]
        groups == {req.read[d].group : d \in DOMAIN req.read}
        inGroups == {d \in DOMAIN table : table[d].group \in groups}
        rows == [d \in inGroups \cup DOMAIN req.read |->
                   IF d \in inGroups THEN table[d] ELSE req.read[d]]
        live == {d \in DOMAIN rows : Expires(rows[d]) > req.asked}
        winners == {d \in live : \A e \in live :
                      \/ rows[d].created < rows[e].created
                      \/ rows[d].created = rows[e].created /\ d <= e}
        done == [req EXCEPT !.read = NoRows, !.asked = 0]
    IN  /\ At(r, "groups")
        /\ \/ /\ live = {}
              /\ requests' = [requests EXCEPT ![r] = [done EXCEPT !.phase = "bind"]]
           \/ \E w \in winners :
                 requests' = [requests EXCEPT ![r] =
                   IF NeedsWrite(rows, req.digests, rows[w], req.asked)
                   THEN [done EXCEPT !.phase = "refresh"]
                   ELSE UseOrMove(done, BindingOf(req.digests \cup DOMAIN rows, rows[w]))]
        /\ UNCHANGED <<affinityVars, condition, known, disturbances>>

\* lookupSessionAffinity, the write: every alias gets the winner, renewed if
\* due.  It may find that the session is gone.
RefreshBinding(r) ==
    LET req == requests[r]
        aliases == req.digests \cup Loaded(req.digests, {})
    IN  /\ At(r, "refresh")
        /\ \/ /\ RefreshRows(req.digests) = {}
              /\ Goto(r, "bind")
              /\ UNCHANGED affinityVars
           \/ \E row \in RefreshRows(req.digests) :
                 /\ RefreshSessionAffinity(req.digests)
                 /\ requests' = [requests EXCEPT ![r] =
                                   UseOrMove(req, BindingOf(aliases, row))]
        /\ UNCHANGED <<condition, known, disturbances>>

\* nextAuth takes the eligible auths in turn with a cursor shared by every
\* request, so the candidate may be any of them.
OfferBinding(r) ==
    LET req == requests[r]
        aliases == req.digests \cup Loaded(req.digests, {})
    IN  /\ At(r, "bind")
        /\ \E a \in req.eligible : \E row \in BindRows(req.digests, a) :
              /\ BindSessionAffinity(req.digests, a)
              /\ requests' = [requests EXCEPT ![r] =
                                UseOrRetry(req, BindingOf(aliases, row))]
        /\ UNCHANGED <<condition, known, disturbances>>

Rebind(r, outcome(_, _)) ==
    LET req == requests[r]
        old == req.binding
        aliases == old.digests \cup Loaded(old.digests, {old.group})
    IN  /\ \E a \in req.eligible :
              \E row \in RebindRows(old.digests, old.group, old.auth, a) :
                 /\ RebindSessionAffinity(old.digests, old.group, old.auth, a)
                 /\ requests' = [requests EXCEPT ![r] =
                                   outcome(req, BindingOf(aliases, row))]
        /\ UNCHANGED <<condition, known, disturbances>>

MoveBinding(r) == At(r, "rebind") /\ Rebind(r, UseOrRetry)

MoveBindingAgain(r) == At(r, "rebindAgain") /\ Rebind(r, UseOrFail)

\* The upstream answers: MarkHealthy, and the request is done.
Succeed(r) ==
    LET a == requests[r].auth
    IN  /\ At(r, "attempt")
        /\ condition' = [condition EXCEPT ![a] = IF @ = "blocked" THEN "ready" ELSE @]
        /\ requests' = [requests EXCEPT ![r] = [Idle EXCEPT !.phase = "answered",
                           !.digests = requests[r].digests, !.auth = a]]
        /\ UNCHANGED <<affinityVars, known, disturbances>>

\* The attempt fails: markAuthFailure, and the loop selects again unless the
\* request cannot be replayed.
Fail(r) ==
    LET a == requests[r].auth
    IN  /\ At(r, "attempt")
        /\ condition' = [condition EXCEPT ![a] = IF @ = "ready" THEN "blocked" ELSE @]
        /\ Goto(r, "reconcile") \/ Abandon(r)
        /\ UNCHANGED <<affinityVars, known, disturbances>>

\* The client goes away: the next call fails on the request's context, also
\* the deletion of the bindings that its reconcile found removed.
Cancel(r) ==
    /\ requests[r].phase \notin Over
    /\ Abandon(r)
    /\ UNCHANGED <<affinityVars, condition, known, disturbances>>

\* An auth's file is removed, restored, disabled or enabled, or its failure
\* expires.
AuthChanges(a, c) ==
    /\ disturbances < MaxDisturbances /\ condition[a] # c
    /\ condition' = [condition EXCEPT ![a] = c]
    /\ disturbances' = disturbances + 1
    /\ UNCHANGED <<affinityVars, known, requests>>

\* An operator clears the bindings of a session key or of an account.
OperatorClears ==
    /\ disturbances < MaxDisturbances
    /\ \/ \E d \in Digests : DeleteByTenantSession({d})
       \/ \E a \in Auths : DeleteByAuthIDs({a})
    /\ disturbances' = disturbances + 1
    /\ UNCHANGED <<condition, known, requests>>

TimePasses == Tick /\ UNCHANGED <<condition, known, disturbances, requests>>

-----------------------------------------------------------------------------
LiveAuth(d) == IF d \in Active THEN table[d].auth ELSE NoAuth

\* A request learns its session's auth when it starts to read the rows that
\* tell it, or in the transaction that does.
Learns(r) ==
    \/ ~At(r, "groups") /\ requests'[r].phase = "groups"
    \/ requests[r].phase \in {"refresh", "bind", "rebind", "rebindAgain"}

\* A session changes hands for r when some digest of r gets another live auth.
Undisturbed(r) == \A d \in requests[r].digests : LiveAuth(d)' = LiveAuth(d)

RecordSteady ==
    steady' = {r \in Requests :
                 \/ requests'[r] # requests[r] /\ Learns(r)
                 \/ r \in steady /\ Undisturbed(r)}

Step(r) ==
    \/ \E digests \in (SUBSET Digests) \ {{}} : Arrive(r, digests)
    \/ ReconcileFirst(r)
    \/ ReconcileFiles(r)
    \/ InvalidateRemoved(r)
    \/ CleanAndFilter(r)
    \/ LookupDigests(r)
    \/ LookupGroups(r)
    \/ RefreshBinding(r)
    \/ OfferBinding(r)
    \/ MoveBinding(r)
    \/ MoveBindingAgain(r)
    \/ Succeed(r)
    \/ Fail(r)
    \/ Cancel(r)

Disturb ==
    \/ \E a \in Auths, c \in Conditions : AuthChanges(a, c)
    \/ OperatorClears
    \/ TimePasses

SelectionNext == ((\E r \in Requests : Step(r)) \/ Disturb) /\ RecordSteady

SelectionSpec == SelectionInit /\ [][SelectionNext]_selectionVars

-----------------------------------------------------------------------------
\* Requests of one session use one auth: as long as the session has not
\* changed hands since a request learnt its auth, the auth it selected is the
\* one its digests are bound to, so all such requests agree.  Concurrent first
\* requests follow the database winner, and concurrent failovers converge.
SessionsStick ==
    \A r \in steady : requests[r].phase \in {"attempt", "answered"} =>
        \A d \in requests[r].digests : LiveAuth(d) = requests[r].auth

\* A live session moves to another auth only by a request that had seen the
\* auth it leaves and found it unusable, or by joining a session bound before
\* it (the compare-and-swap of rebindSessionAffinity).
MovesOnlyOffUnusable ==
    [][\A d \in Active :
          (d \in DOMAIN table' /\ table'[d].auth # table[d].auth) =>
             \/ \E e \in Active : Earlier(e, d) /\ table[e] # table[d]
             \/ \E r \in Requests :
                   /\ At(r, "rebind") \/ At(r, "rebindAgain")
                   /\ requests[r].binding.auth = table[d].auth
                   /\ table[d].auth \notin requests[r].eligible]_selectionVars
=============================================================================
