----------------------------- MODULE AuthHealth -----------------------------
(***************************************************************************)
(* The auth health registry of internal/codexonly/auth_health.go: the      *)
(* in-memory health of every logical credential, the auth_health_states    *)
(* table that keeps its authoritative part, and the process that holds the *)
(* one and reopens the other.                                              *)
(*                                                                         *)
(* Every method of authHealthRegistry that changes state takes r.mu and    *)
(* writes the table while it holds it, so each is one action here.  The    *)
(* last parameter of an action, ok, says whether the table write it makes, *)
(* if it makes one, succeeds: the code returns the error between the write *)
(* and the assignment to memory.  The caller of a method is any request;   *)
(* the credential it passes is the one it read from the auth file, maybe   *)
(* long ago.                                                               *)
(*                                                                         *)
(* A credential fingerprint (authCredentialFingerprint, a hash of the      *)
(* three tokens) is an element of Creds: two credentials have one          *)
(* fingerprint exactly when they have the same tokens.                     *)
(***************************************************************************)
EXTENDS Naturals, FiniteSets

CONSTANTS
  Auths,               \* stable IDs of logical credentials
  Creds,               \* credential fingerprints
  NoCred,              \* the empty fingerprint
  Models,              \* normalized model identifiers
  NoModel,             \* a request whose model is empty or not normalizable
  MaxTime,             \* bound: the clock stops here
  Deadlines,           \* the retry deadlines upstream may announce
  MaxModelExclusions,  \* maxModelExclusionsPerAuth
  MaxEpoch             \* bound on the healthy epoch of one credential

ASSUME HealthAssumption ==
  /\ Creds # {} /\ NoCred \notin Creds
  /\ NoModel \notin Models
  /\ MaxTime \in Nat
  /\ Deadlines \subseteq Nat \ {0}
  /\ MaxModelExclusions \in Nat \ {0}
  /\ MaxEpoch \in Nat

VARIABLES
  now,         \* the wall clock; 0 is Go's zero time, before any reading of it
  up,          \* the server process runs
  states,      \* r.states: auth |-> health state, NoState when there is none
  exclusions,  \* r.modelExclusions: auth |-> model |-> exclusion
  epochs,      \* r.healthyEpochs
  rows         \* the auth_health_states table: auth |-> row, NoRow when none

healthVars == <<now, up, states, exclusions, epochs, rows>>

-----------------------------------------------------------------------------
(* Health states, rows and exclusions.                                     *)

PersistedKinds  == {"quota", "invalid_grant", "unauthorized"}
CredentialKinds == {"invalid_grant", "unauthorized", "credential_invalid"}
HealthKinds     == PersistedKinds \cup CredentialKinds \cup {"transient"}

HealthStates ==
  [kind : HealthKinds \cup {"none"}, retryAt : Nat, authoritative : BOOLEAN,
   cred : Creds \cup {NoCred}]

NoState ==
  [kind |-> "none", retryAt |-> 0, authoritative |-> FALSE, cred |-> NoCred]

Rows  == [kind : PersistedKinds \cup {"none"}, retryAt : Nat,
          cred : Creds \cup {NoCred}]
NoRow == [kind |-> "none", retryAt |-> 0, cred |-> NoCred]

Exclusions  == [cred : Creds \cup {NoCred}, since : Nat]
NoExclusion == [cred |-> NoCred, since |-> 0]

IsZero(t)  == t = 0
Expired(s) == ~IsZero(s.retryAt) /\ s.retryAt <= now

AuthoritativeQuota(s) == s.kind = "quota" /\ s.authoritative

(* The states MarkUnavailable keeps in the table.                          *)
MustPersist(s) ==
  \/ AuthoritativeQuota(s) /\ ~IsZero(s.retryAt)
  \/ s.kind \in {"invalid_grant", "unauthorized"}

(* What SaveAuthHealthState writes of a state, and what Restore makes of a *)
(* row: authoritative is not a column.                                     *)
RowOf(s) == [kind |-> s.kind, retryAt |-> s.retryAt, cred |-> s.cred]

StateOf(row) ==
  IF row = NoRow THEN NoState
  ELSE [kind |-> row.kind, retryAt |-> row.retryAt,
        authoritative |-> row.kind = "quota", cred |-> row.cred]

(* The states markAuthFailure reports for a request that holds credential  *)
(* c: a quota or transient failure always carries a deadline, the others   *)
(* never do, and only credential kinds are stamped with the fingerprint.   *)
QuotaReports ==
  [kind : {"quota"}, retryAt : Deadlines, authoritative : BOOLEAN, cred : {NoCred}]

TransientReports ==
  [kind : {"transient"}, retryAt : Deadlines, authoritative : {FALSE}, cred : {NoCred}]

CredentialReports(c) ==
  [kind : CredentialKinds, retryAt : {0}, authoritative : {FALSE}, cred : {c}]

ReportedStates(c) == QuotaReports \cup TransientReports \cup CredentialReports(c)

(* preserveExistingHealthState.  The mutant takes an estimated quota       *)
(* deadline for as strong as an announced one.                             *)
Mutant_PreservesExistingFromSoft(old, new) ==
  /\ ~Expired(old)
  /\ new.kind \in {"transient", "credential_invalid"}
  /\ old.kind \in CredentialKinds \/ AuthoritativeQuota(old)

PreservesExisting(old, new) ==
  /\ ~Expired(old)
  /\ \/ new.kind \in {"transient", "credential_invalid"}
     \/ new.kind = "quota" /\ ~new.authoritative
  /\ old.kind \in CredentialKinds \/ AuthoritativeQuota(old)

(* markHealthyLocked: the state a success leaves, whether the delete it    *)
(* needs fails, and the row it leaves.  The mutant deletes quota rows only.*)
PreservesQuota(s)  == AuthoritativeQuota(s) /\ s.retryAt > now
Lifted(s)          == IF PreservesQuota(s) THEN s ELSE NoState
LiftFails(s, ok)   == ~ok /\ s.kind \in PersistedKinds /\ ~PreservesQuota(s)

Mutant_RowAfterLiftQuota(s, r) ==
  IF s.kind = "quota" /\ ~PreservesQuota(s) THEN NoRow ELSE r

RowAfterLift(s, r) ==
  IF s.kind \in PersistedKinds /\ ~PreservesQuota(s) THEN NoRow ELSE r

Excluded(a) == {m \in Models : exclusions[a][m] # NoExclusion}

(* A new model finds no room.  The mutant leaves room for one too many.    *)
Mutant_ExclusionsFullLate(a, m) ==
  m \notin Excluded(a) /\ Cardinality(Excluded(a)) > MaxModelExclusions

ExclusionsFull(a, m) ==
  m \notin Excluded(a) /\ Cardinality(Excluded(a)) >= MaxModelExclusions

OldestExclusions(a) ==
  {m \in Excluded(a) :
     \A n \in Excluded(a) : exclusions[a][m].since <= exclusions[a][n].since}

-----------------------------------------------------------------------------
(* Reports of requests.                                                    *)

(* The store deletes the row of a failure it does not keep before memory   *)
(* changes, or saves the one it keeps.                                     *)
MarkUnavailable(a, s, ok) ==
  /\ up
  /\ IF ~ok \/ PreservesExisting(states[a], s)
     THEN UNCHANGED <<states, rows>>
     ELSE /\ rows' = [rows EXCEPT ![a] = IF MustPersist(s) THEN RowOf(s) ELSE NoRow]
          /\ states' = [states EXCEPT ![a] = s]
  /\ UNCHANGED <<now, up, exclusions, epochs>>

MarkHealthy(a, m, ok) ==
  /\ up
  /\ epochs[a] < MaxEpoch
  /\ IF LiftFails(states[a], ok)
     THEN UNCHANGED <<states, rows, exclusions, epochs>>
     ELSE /\ states' = [states EXCEPT ![a] = Lifted(@)]
          /\ rows' = [rows EXCEPT ![a] = RowAfterLift(states[a], @)]
          /\ exclusions' = [exclusions EXCEPT ![a] =
               [n \in Models |-> IF n = m THEN NoExclusion ELSE @[n]]]
          /\ epochs' = [epochs EXCEPT ![a] = @ + 1]
  /\ UNCHANGED <<now, up>>

MarkCredentialHealthy(a, ok) ==
  /\ up
  /\ states[a].kind \in CredentialKinds
  /\ epochs[a] < MaxEpoch
  /\ IF ~ok /\ states[a].kind \in PersistedKinds
     THEN UNCHANGED <<states, rows, epochs>>
     ELSE /\ rows' = [rows EXCEPT ![a] =
               IF states[a].kind \in PersistedKinds THEN NoRow ELSE @]
          /\ states' = [states EXCEPT ![a] = NoState]
          /\ epochs' = [epochs EXCEPT ![a] = @ + 1]
  /\ UNCHANGED <<now, up, exclusions>>

(* A model exclusion means the credential itself works.  A full table      *)
(* loses the oldest of its entries; the code breaks ties by name.          *)
MarkModelUnsupported(a, m, c, ok) ==
  /\ up
  /\ IF LiftFails(states[a], ok)
     THEN UNCHANGED <<states, rows, exclusions>>
     ELSE /\ states' = [states EXCEPT ![a] = Lifted(@)]
          /\ rows' = [rows EXCEPT ![a] = RowAfterLift(states[a], @)]
          /\ \E victims \in IF ExclusionsFull(a, m)
                            THEN {{v} : v \in OldestExclusions(a)} ELSE {{}} :
               exclusions' = [exclusions EXCEPT ![a] =
                 [n \in Models |-> IF n = m THEN [cred |-> c, since |-> now]
                                   ELSE IF n \in victims THEN NoExclusion
                                   ELSE @[n]]]
  /\ UNCHANGED <<now, up, epochs>>

-----------------------------------------------------------------------------
(* The administrator, the store reconcile and the clock.                   *)

ClearCooldown(a, ok) ==
  /\ up
  /\ states[a].kind \in {"quota", "transient"}
  /\ ~IsZero(states[a].retryAt)
  /\ epochs[a] < MaxEpoch
  /\ IF ~ok /\ states[a].kind \in PersistedKinds
     THEN UNCHANGED <<states, rows, epochs>>
     ELSE /\ rows' = [rows EXCEPT ![a] =
               IF states[a].kind \in PersistedKinds THEN NoRow ELSE @]
          /\ states' = [states EXCEPT ![a] = NoState]
          /\ epochs' = [epochs EXCEPT ![a] = @ + 1]
  /\ UNCHANGED <<now, up, exclusions>>

(* pruneExpiredLocked over the states s and rows r: the entries in pruned  *)
(* go.  The loop stops at the first delete that fails.                     *)
ExpiredIn(s) == {a \in Auths : s[a].kind # "none" /\ Expired(s[a])}

PruneResult(s, r, pruned) ==
  /\ pruned \subseteq ExpiredIn(s)
  /\ pruned # ExpiredIn(s) =>
       \E a \in ExpiredIn(s) \ pruned : s[a].kind \in PersistedKinds
  /\ states' = [a \in Auths |-> IF a \in pruned THEN NoState ELSE s[a]]
  /\ rows' = [a \in Auths |->
       IF a \in pruned /\ s[a].kind \in PersistedKinds THEN NoRow ELSE r[a]]

PruneExpired(pruned) ==
  /\ up
  /\ PruneResult(states, rows, pruned)
  /\ UNCHANGED <<now, up, exclusions, epochs>>

(* A change of one credential that a store reconcile reports: it was       *)
(* removed, its file changed otherwise, or its tokens or expiry changed.   *)
(* An added credential is reported too and handled by no code here.        *)
ChangeKinds == {"none", "removed", "updated", "rotated"}

(* Whether the change drops the state s, given the tokens in the result.   *)
DropsState(change, cred, s) ==
  \/ change = "removed"
  \/ change \in {"updated", "rotated"} /\ s.kind \in CredentialKinds /\ s.cred # cred

DropsExclusion(change, cred, e) ==
  \/ change = "removed"
  \/ change \in {"updated", "rotated"} /\ e.cred # cred

(* Reconcile applies the changes of a result in order, and stops at the    *)
(* first whose delete fails: only those in done are applied, and nothing   *)
(* is pruned unless all are.  creds is the result's Auths.                 *)
Reconcile(change, creds, done, pruned) ==
  LET changed == {a \in Auths : change[a] # "none"}
      drops   == {a \in done : DropsState(change[a], creds[a], states[a])}
      s1 == [a \in Auths |-> IF a \in drops THEN NoState ELSE states[a]]
      r1 == [a \in Auths |-> IF a \in drops /\ states[a].kind \in PersistedKinds
                             THEN NoRow ELSE rows[a]]
  IN
  /\ up
  /\ done \subseteq changed
  /\ done # changed =>
       /\ \E a \in changed \ done : /\ DropsState(change[a], creds[a], states[a])
                                    /\ states[a].kind \in PersistedKinds
       /\ pruned = {}
  /\ \A a \in done : change[a] = "rotated" => epochs[a] < MaxEpoch
  /\ IF done = changed
     THEN PruneResult(s1, r1, pruned)
     ELSE states' = s1 /\ rows' = r1
  /\ exclusions' = [a \in Auths |-> [m \in Models |->
       IF a \in done /\ DropsExclusion(change[a], creds[a], exclusions[a][m])
       THEN NoExclusion ELSE exclusions[a][m]]]
  /\ epochs' = [a \in Auths |->
       IF a \notin done THEN epochs[a]
       ELSE IF change[a] = "removed" THEN 0
       ELSE IF change[a] = "rotated" THEN epochs[a] + 1
       ELSE epochs[a]]
  /\ UNCHANGED <<now, up>>

Tick ==
  /\ now < MaxTime
  /\ now' = now + 1
  /\ UNCHANGED <<up, states, exclusions, epochs, rows>>

-----------------------------------------------------------------------------
(* The process: it loses its memory in a crash; NewHandler rebuilds the    *)
(* registry from the table and the auth files it finds, creds.             *)

Crash ==
  /\ up
  /\ up' = FALSE
  /\ states' = [a \in Auths |-> NoState]
  /\ exclusions' = [a \in Auths |-> [m \in Models |-> NoExclusion]]
  /\ epochs' = [a \in Auths |-> 0]
  /\ UNCHANGED <<now, rows>>

(* DeleteAuthHealthExceptAuthIDs, then the rows Restore itself deletes.    *)
RestoreDrops(a, creds) ==
  /\ rows[a] # NoRow
  /\ \/ creds[a] = NoCred
     \/ Expired(rows[a])
     \/ rows[a].kind \in CredentialKinds /\ rows[a].cred # creds[a]

Restore(creds) ==
  /\ ~up
  /\ up' = TRUE
  /\ rows' = [a \in Auths |-> IF RestoreDrops(a, creds) THEN NoRow ELSE rows[a]]
  /\ states' = [a \in Auths |->
       IF RestoreDrops(a, creds) THEN NoState ELSE StateOf(rows[a])]
  /\ UNCHANGED <<now, exclusions, epochs>>

(* A delete fails: the process exits with some of the rows gone.           *)
RestoreFails(creds, dropped) ==
  /\ ~up
  /\ dropped \subseteq {a \in Auths : RestoreDrops(a, creds)}
  /\ rows' = [a \in Auths |-> IF a \in dropped THEN NoRow ELSE rows[a]]
  /\ UNCHANGED <<now, up, states, exclusions, epochs>>

-----------------------------------------------------------------------------
(* Blocked, as selection asks it: the registry does not compare the        *)
(* fingerprint of a state with the tokens of the credential asked about.   *)
Blocked(a, m) ==
  \/ m \in Models /\ exclusions[a][m] # NoExclusion
  \/ states[a].kind # "none" /\ ~Expired(states[a])

HealthInit ==
  /\ now = 1
  /\ up = FALSE
  /\ states = [a \in Auths |-> NoState]
  /\ exclusions = [a \in Auths |-> [m \in Models |-> NoExclusion]]
  /\ epochs = [a \in Auths |-> 0]
  /\ rows = [a \in Auths |-> NoRow]

Report ==
  \E a \in Auths, ok \in BOOLEAN :
    \/ \E c \in Creds : \E s \in ReportedStates(c) : MarkUnavailable(a, s, ok)
    \/ \E m \in Models \cup {NoModel} : MarkHealthy(a, m, ok)
    \/ MarkCredentialHealthy(a, ok)
    \/ \E m \in Models, c \in Creds : MarkModelUnsupported(a, m, c, ok)
    \/ ClearCooldown(a, ok)

Maintain ==
  \/ \E pruned \in SUBSET Auths : PruneExpired(pruned)
  \/ \E change \in [Auths -> ChangeKinds], creds \in [Auths -> Creds],
        done \in SUBSET Auths, pruned \in SUBSET Auths :
       Reconcile(change, creds, done, pruned)
  \/ Tick

Lifecycle ==
  \/ Crash
  \/ \E creds \in [Auths -> Creds \cup {NoCred}] : Restore(creds)
  \/ \E creds \in [Auths -> Creds \cup {NoCred}], dropped \in SUBSET Auths :
       RestoreFails(creds, dropped)

HealthNext == Report \/ Maintain \/ Lifecycle

HealthSpec == HealthInit /\ [][HealthNext]_healthVars

-----------------------------------------------------------------------------
(* The registry's variables have their types.                              *)
TypeOK ==
  /\ now \in Nat
  /\ up \in BOOLEAN
  /\ states \in [Auths -> HealthStates]
  /\ exclusions \in [Auths -> [Models -> Exclusions]]
  /\ epochs \in [Auths -> Nat]
  /\ rows \in [Auths -> Rows]

(* auth_health_states holds exactly the part of memory that must survive a *)
(* restart, whatever reports, prunes, reconciles and failed writes came    *)
(* before: a row too many would block a credential again after a restart,  *)
(* a row too few would forget an authoritative block.                      *)
TableMirrorsMemory ==
  up => \A a \in Auths :
          rows[a] = IF MustPersist(states[a]) THEN RowOf(states[a]) ELSE NoRow

(* One credential never accumulates more than maxModelExclusionsPerAuth    *)
(* model exclusions.                                                       *)
ExclusionsBounded ==
  \A a \in Auths : Cardinality(Excluded(a)) <= MaxModelExclusions

(* The verdict routing acts on: the part of memory that must survive, or,  *)
(* while the process is down, what its table says.                         *)
Durable(s)     == IF MustPersist(s) THEN s ELSE NoState
DurableVerdict ==
  [a \in Auths |-> IF up THEN Durable(states[a]) ELSE StateOf(rows[a])]

(* The registry keeps what DurableVerdicts promises about that part, over  *)
(* crashes, restarts and failed writes: a standing verdict ends only with  *)
(* a healthy epoch (a success, a repair, the administrator), at a moment   *)
(* when upstream has answered that the credential lacks a model, with a    *)
(* reason to refute it, or with a newer authoritative verdict.  A weaker   *)
(* failure never replaces it.                                              *)
Promise == INSTANCE DurableVerdicts
             WITH serving <- up, verdict <- DurableVerdict, healthy <- epochs,
                  excludedAt <- [a \in Auths |->
                                   {exclusions[a][m].since : m \in Excluded(a)}]

KeepsPromise == Promise!Spec
=============================================================================
