---------------------------- MODULE FailoverProofs ----------------------------
(* Proofs about the health registry and the requests that fail over on it,    *)
(* for any sets of auths, models and settings: first the registry by itself,  *)
(* its types, that the table mirrors memory, that it implements               *)
(* DurableVerdicts and bounds its exclusions; then one request in             *)
(* executeUpstream; last that its steps are steps of the registry.            *)
EXTENDS Failover, FiniteSetTheorems, WellFoundedInduction, TLAPS

(* Every health state a request can report, and every state the registry   *)
(* can hold.                                                               *)
Reported  == UNION {ReportedStates(c) : c \in Creds}
HeldState == {NoState} \cup Reported

(* Memory holds reported states only, and the table rows of such states:   *)
(* this is what makes Restore, which has no authoritative column to read,  *)
(* rebuild the very state that was saved.                                  *)
OnlyReported ==
  /\ \A a \in Auths : states[a] \in HeldState
  /\ \A a \in Auths : rows[a] = NoRow \/ \E s \in Reported :
                         MustPersist(s) /\ rows[a] = RowOf(s)

HealthInv == TypeOK /\ OnlyReported /\ TableMirrorsMemory

-----------------------------------------------------------------------------

LEMMA ReportedTyped == HeldState \subseteq HealthStates
  <1> SUFFICES ASSUME NEW s \in HeldState
               PROVE  s \in HealthStates
    OBVIOUS
  <1>1. CASE s = NoState
    BY <1>1 DEF NoState, HealthStates, HealthKinds
  <1>2. CASE s \in Reported
    <2>1. PICK c \in Creds : s \in ReportedStates(c)
      BY <1>2 DEF Reported
    <2>2. Deadlines \subseteq Nat
      BY HealthAssumption
    <2>3. CASE s \in QuotaReports
      BY <2>2, <2>3 DEF QuotaReports, HealthStates, HealthKinds, PersistedKinds
    <2>4. CASE s \in TransientReports
      BY <2>2, <2>4 DEF TransientReports, HealthStates, HealthKinds
    <2>5. CASE s \in CredentialReports(c)
      <3>1. {0} \subseteq Nat /\ {FALSE} \subseteq BOOLEAN
        OBVIOUS
      <3>2. QED
        BY <2>5, <3>1 DEF CredentialReports, HealthStates, HealthKinds
    <2>6. QED
      BY <2>1, <2>3, <2>4, <2>5 DEF ReportedStates
  <1>3. QED
    BY <1>1, <1>2 DEF HeldState

(* Reading back the row of a state the table keeps gives that state.       *)
LEMMA RowRoundTrip ==
  ASSUME NEW s \in Reported, MustPersist(s)
  PROVE  /\ StateOf(RowOf(s)) = s
         /\ RowOf(s) # NoRow
         /\ RowOf(s) \in Rows
         /\ s.kind \in PersistedKinds
  <1>1. PICK c \in Creds : s \in ReportedStates(c)
    BY DEF Reported
  <1>2. s.kind \in {"quota", "invalid_grant", "unauthorized"}
    BY DEF MustPersist, AuthoritativeQuota
  <1>3. CASE s \in QuotaReports
    <2>1. s.kind = "quota" /\ s.authoritative = TRUE /\ s.retryAt \in Nat
      BY <1>3, HealthAssumption DEF QuotaReports, MustPersist, AuthoritativeQuota
    <2>2. s = [kind |-> "quota", retryAt |-> s.retryAt, authoritative |-> TRUE,
               cred |-> NoCred]
      BY <1>3, <2>1 DEF QuotaReports
    <2>3. RowOf(s) = [kind |-> "quota", retryAt |-> s.retryAt, cred |-> NoCred]
      BY <2>2 DEF RowOf
    <2>4. RowOf(s) # NoRow /\ RowOf(s).kind = "quota"
      BY <2>3 DEF NoRow
    <2>5. (RowOf(s).kind = "quota") = TRUE
      BY <2>4
    <2>6. StateOf(RowOf(s)) = [kind |-> "quota", retryAt |-> s.retryAt,
                               authoritative |-> TRUE, cred |-> NoCred]
      <3>1. RowOf(s).retryAt = s.retryAt /\ RowOf(s).cred = NoCred
        BY <2>3
      <3>2. QED
        BY <3>1, <2>4, <2>5, Zenon DEF StateOf
    <2>7. RowOf(s) \in Rows
      BY <2>1, <2>3 DEF Rows, PersistedKinds
    <2>8. QED
      BY <2>1, <2>2, <2>4, <2>6, <2>7 DEF PersistedKinds
  <1>4. CASE s \in CredentialReports(c)
    <2>1. s = [kind |-> s.kind, retryAt |-> 0, authoritative |-> FALSE, cred |-> c]
      BY <1>4 DEF CredentialReports
    <2>2. s.kind \in {"invalid_grant", "unauthorized"}
      BY <1>2, <1>4 DEF CredentialReports, CredentialKinds
    <2>3. RowOf(s) = [kind |-> s.kind, retryAt |-> 0, cred |-> c]
      BY <2>1 DEF RowOf
    <2>4. RowOf(s) # NoRow /\ RowOf(s).kind = s.kind /\ s.kind # "quota"
      BY <2>2, <2>3 DEF NoRow
    <2>5. (RowOf(s).kind = "quota") = FALSE
      BY <2>4
    <2>6. StateOf(RowOf(s)) = [kind |-> s.kind, retryAt |-> 0,
                               authoritative |-> FALSE, cred |-> c]
      <3>1. RowOf(s).retryAt = 0 /\ RowOf(s).cred = c
        BY <2>3
      <3>2. QED
        BY <3>1, <2>4, <2>5, Zenon DEF StateOf
    <2>7. RowOf(s) \in Rows
      BY <2>2, <2>3 DEF Rows, PersistedKinds
    <2>8. QED
      BY <2>1, <2>2, <2>4, <2>6, <2>7 DEF PersistedKinds
  <1>5. CASE s \in TransientReports
    BY <1>2, <1>5 DEF TransientReports
  <1>6. QED
    BY <1>1, <1>3, <1>4, <1>5 DEF ReportedStates

LEMMA NoStateFacts ==
  /\ NoState \in HealthStates
  /\ NoState \in HeldState
  /\ ~MustPersist(NoState)
  /\ NoRow \in Rows
  /\ NoExclusion \in Exclusions
  /\ NoState.kind \notin PersistedKinds
  BY DEF NoState, HealthStates, HeldState, MustPersist, AuthoritativeQuota, NoRow,
         Rows, NoExclusion, Exclusions, PersistedKinds, HealthKinds, CredentialKinds

(* A state and the row kept for it.                                        *)
Mirrors(s, r) == s \in HeldState /\ r = IF MustPersist(s) THEN RowOf(s) ELSE NoRow

LEMMA MirrorsFacts ==
  /\ Mirrors(NoState, NoRow)
  /\ \A s \in Reported : Mirrors(s, IF MustPersist(s) THEN RowOf(s) ELSE NoRow)
  /\ \A s, r : Mirrors(s, r) /\ s.kind \notin PersistedKinds => r = NoRow
  <1>1. \A s : MustPersist(s) => s.kind \in PersistedKinds
    BY DEF MustPersist, AuthoritativeQuota, PersistedKinds
  <1>2. QED
    BY <1>1, NoStateFacts DEF Mirrors, HeldState

(* While the process runs, the invariant is that every pair is mirrored.   *)
AllMirrored ==
  /\ up = TRUE
  /\ states = [a \in Auths |-> states[a]]
  /\ rows = [a \in Auths |-> rows[a]]
  /\ \A a \in Auths : Mirrors(states[a], rows[a])

MemoryInv ==
  /\ states \in [Auths -> HealthStates]
  /\ rows \in [Auths -> Rows]
  /\ OnlyReported
  /\ TableMirrorsMemory

LEMMA MirroredMemory == AllMirrored => MemoryInv
  <1> SUFFICES ASSUME AllMirrored PROVE MemoryInv
    OBVIOUS
  <1> USE DEF AllMirrored
  <1>1. \A a \in Auths : states[a] \in HealthStates
    BY ReportedTyped DEF Mirrors
  <1>2. ASSUME NEW a \in Auths
        PROVE  /\ rows[a] \in Rows
               /\ rows[a] = NoRow \/ \E s \in Reported :
                                       MustPersist(s) /\ rows[a] = RowOf(s)
    <2>1. CASE MustPersist(states[a])
      <3>1. states[a] \in Reported
        BY <2>1, NoStateFacts DEF Mirrors, HeldState
      <3>2. QED
        BY <2>1, <3>1, RowRoundTrip DEF Mirrors
    <2>2. CASE ~MustPersist(states[a])
      BY <2>2, NoStateFacts DEF Mirrors
    <2>3. QED
      BY <2>1, <2>2
  <1>3. states \in [Auths -> HealthStates] /\ rows \in [Auths -> Rows]
    BY <1>1, <1>2
  <1>4. QED
    BY <1>2, <1>3 DEF MemoryInv, OnlyReported, TableMirrorsMemory, Mirrors

LEMMA MirroredPair ==
  ASSUME HealthInv, up = TRUE
  PROVE  \A a \in Auths : Mirrors(states[a], rows[a])
  BY DEF HealthInv, OnlyReported, TableMirrorsMemory, Mirrors

(* A step of the running process keeps the invariant if it leaves every    *)
(* credential mirrored and touches nothing else ill-typed.                 *)
LEMMA RunningStep ==
  ASSUME HealthInv, AllMirrored', now' = now,
         exclusions' \in [Auths -> [Models -> Exclusions]],
         epochs' \in [Auths -> Nat]
  PROVE  HealthInv'
  <1>1. MemoryInv'
    BY MirroredMemory, PTL
  <1>2. QED
    BY <1>1 DEF HealthInv, TypeOK, MemoryInv, AllMirrored

LEMMA OneChanges ==
  ASSUME HealthInv, up = TRUE, up' = up,
         NEW a \in Auths, NEW s, NEW r, Mirrors(s, r),
         states' = [states EXCEPT ![a] = s],
         rows' = [rows EXCEPT ![a] = r]
  PROVE  AllMirrored'
  <1>1. /\ states' = [b \in Auths |-> IF b = a THEN s ELSE states[b]]
        /\ rows' = [b \in Auths |-> IF b = a THEN r ELSE rows[b]]
    BY DEF HealthInv, TypeOK
  <1>2. \A b \in Auths : Mirrors(states'[b], rows'[b])
    BY <1>1, MirroredPair
  <1>3. QED
    BY <1>1, <1>2 DEF AllMirrored, Mirrors

LEMMA NoneChanges ==
  ASSUME HealthInv, up = TRUE, UNCHANGED <<up, states, rows>>
  PROVE  AllMirrored'
  BY MirroredPair DEF AllMirrored, HealthInv, TypeOK, Mirrors

(* A success leaves the credential mirrored.                               *)
LEMMA LiftMirrored ==
  ASSUME NEW s, NEW r, Mirrors(s, r)
  PROVE  Mirrors(Lifted(s), RowAfterLift(s, r))
  BY MirrorsFacts DEF Lifted, RowAfterLift

-----------------------------------------------------------------------------
(* Every step preserves the invariant.                                     *)

LEMMA MarkUnavailableInv ==
  ASSUME HealthInv, NEW a \in Auths, NEW c \in Creds, NEW s \in ReportedStates(c),
         NEW ok \in BOOLEAN, MarkUnavailable(a, s, ok)
  PROVE  HealthInv'
  <1>1. s \in Reported
    BY DEF Reported
  <1>2. Mirrors(s, IF MustPersist(s) THEN RowOf(s) ELSE NoRow)
    BY <1>1, MirrorsFacts
  <1>3. AllMirrored'
    <2>1. CASE ~ok \/ PreservesExisting(states[a], s)
      BY <2>1, NoneChanges DEF MarkUnavailable, HealthInv, TypeOK
    <2>2. CASE ~(~ok \/ PreservesExisting(states[a], s))
      BY <2>2, <1>2, OneChanges DEF MarkUnavailable, HealthInv, TypeOK
    <2>3. QED
      BY <2>1, <2>2
  <1>4. QED
    BY <1>3, RunningStep DEF MarkUnavailable, HealthInv, TypeOK

LEMMA MarkHealthyInv ==
  ASSUME HealthInv, NEW a \in Auths, NEW m \in Models \cup {NoModel},
         NEW ok \in BOOLEAN, MarkHealthy(a, m, ok)
  PROVE  HealthInv'
  <1>1. Mirrors(states[a], rows[a])
    BY MirroredPair DEF MarkHealthy, HealthInv, TypeOK
  <1>2. CASE LiftFails(states[a], ok)
    BY <1>2, NoneChanges, RunningStep DEF MarkHealthy, HealthInv, TypeOK
  <1>3. CASE ~LiftFails(states[a], ok)
    <2>1. /\ up = TRUE /\ up' = up /\ now' = now
          /\ states' = [states EXCEPT ![a] = Lifted(states[a])]
          /\ rows' = [rows EXCEPT ![a] = RowAfterLift(states[a], rows[a])]
      BY <1>3 DEF MarkHealthy, HealthInv, TypeOK
    <2>2. AllMirrored'
      BY <1>1, <2>1, LiftMirrored, OneChanges
    <2>3. exclusions' \in [Auths -> [Models -> Exclusions]]
      BY <1>3, NoStateFacts, SMTT(30) DEF MarkHealthy, HealthInv, TypeOK
    <2>4. epochs' \in [Auths -> Nat]
      BY <1>3 DEF MarkHealthy, HealthInv, TypeOK
    <2>5. QED
      BY <2>1, <2>2, <2>3, <2>4, RunningStep
  <1>4. QED
    BY <1>2, <1>3

LEMMA DropOneInv ==
  ASSUME HealthInv, NEW a \in Auths, up = TRUE, UNCHANGED <<now, up, exclusions>>,
         \/ UNCHANGED <<states, rows, epochs>>
         \/ /\ rows' = [rows EXCEPT ![a] =
                 IF states[a].kind \in PersistedKinds THEN NoRow ELSE @]
            /\ states' = [states EXCEPT ![a] = NoState]
            /\ epochs' = [epochs EXCEPT ![a] = @ + 1]
  PROVE  HealthInv'
  <1>1. Mirrors(states[a], rows[a])
    BY MirroredPair
  <1>2. (IF states[a].kind \in PersistedKinds THEN NoRow ELSE rows[a]) = NoRow
    BY <1>1, MirrorsFacts
  <1>3. CASE UNCHANGED <<states, rows, epochs>>
    BY <1>3, NoneChanges, RunningStep DEF HealthInv, TypeOK
  <1>4. CASE /\ rows' = [rows EXCEPT ![a] =
                 IF states[a].kind \in PersistedKinds THEN NoRow ELSE @]
             /\ states' = [states EXCEPT ![a] = NoState]
             /\ epochs' = [epochs EXCEPT ![a] = @ + 1]
    <2>1. AllMirrored'
      BY <1>2, <1>4, MirrorsFacts, OneChanges
    <2>2. epochs' \in [Auths -> Nat]
      BY <1>4 DEF HealthInv, TypeOK
    <2>3. QED
      BY <2>1, <2>2, RunningStep DEF HealthInv, TypeOK
  <1>5. QED
    BY <1>3, <1>4

LEMMA MarkModelUnsupportedInv ==
  ASSUME HealthInv, NEW a \in Auths, NEW m \in Models, NEW c \in Creds,
         NEW ok \in BOOLEAN, MarkModelUnsupported(a, m, c, ok)
  PROVE  HealthInv'
  <1>1. Mirrors(states[a], rows[a])
    BY MirroredPair DEF MarkModelUnsupported, HealthInv, TypeOK
  <1>2. CASE LiftFails(states[a], ok)
    BY <1>2, NoneChanges, RunningStep DEF MarkModelUnsupported, HealthInv, TypeOK
  <1>3. CASE ~LiftFails(states[a], ok)
    <2>1. /\ up = TRUE /\ up' = up /\ now' = now /\ epochs' = epochs
          /\ states' = [states EXCEPT ![a] = Lifted(states[a])]
          /\ rows' = [rows EXCEPT ![a] = RowAfterLift(states[a], rows[a])]
      BY <1>3 DEF MarkModelUnsupported, HealthInv, TypeOK
    <2>2. AllMirrored'
      BY <1>1, <2>1, LiftMirrored, OneChanges
    <2>3. PICK victims : exclusions' = [exclusions EXCEPT ![a] =
            [n \in Models |-> IF n = m THEN [cred |-> c, since |-> now]
                              ELSE IF n \in victims THEN NoExclusion
                              ELSE @[n]]]
      BY <1>3 DEF MarkModelUnsupported
    <2>4. [cred |-> c, since |-> now] \in Exclusions
      BY DEF Exclusions, HealthInv, TypeOK
    <2>5. exclusions' \in [Auths -> [Models -> Exclusions]]
      BY <2>3, <2>4, NoStateFacts DEF HealthInv, TypeOK
    <2>6. QED
      BY <2>1, <2>2, <2>5, RunningStep DEF HealthInv, TypeOK
  <1>4. QED
    BY <1>2, <1>3

LEMMA RepairInv ==
  ASSUME HealthInv, NEW a \in Auths, NEW ok \in BOOLEAN,
         MarkCredentialHealthy(a, ok) \/ ClearCooldown(a, ok)
  PROVE  HealthInv'
  <1>1. /\ up = TRUE
        /\ UNCHANGED <<now, up, exclusions>>
        /\ \/ UNCHANGED <<states, rows, epochs>>
           \/ /\ rows' = [rows EXCEPT ![a] =
                   IF states[a].kind \in PersistedKinds THEN NoRow ELSE @]
              /\ states' = [states EXCEPT ![a] = NoState]
              /\ epochs' = [epochs EXCEPT ![a] = @ + 1]
    BY DEF MarkCredentialHealthy, ClearCooldown, HealthInv, TypeOK
  <1>2. QED
    BY <1>1, DropOneInv

(* Dropping a state, and its row when it is of a kind that has one, leaves *)
(* the credential mirrored.                                                *)
LEMMA DropMirrored ==
  ASSUME NEW s, NEW r, Mirrors(s, r)
  PROVE  Mirrors(NoState, IF s.kind \in PersistedKinds THEN NoRow ELSE r)
  BY MirrorsFacts

LEMMA PruneResultMirrored ==
  ASSUME NEW s, NEW r, NEW pruned,
         \A a \in Auths : Mirrors(s[a], r[a]),
         PruneResult(s, r, pruned), up = TRUE, up' = up
  PROVE  AllMirrored'
  <1>1. /\ states' = [a \in Auths |-> IF a \in pruned THEN NoState ELSE s[a]]
        /\ rows' = [a \in Auths |-> IF a \in pruned /\ s[a].kind \in PersistedKinds
                                    THEN NoRow ELSE r[a]]
    BY DEF PruneResult
  <1>2. \A a \in Auths : Mirrors(states'[a], rows'[a])
    <2> SUFFICES ASSUME NEW a \in Auths PROVE Mirrors(states'[a], rows'[a])
      OBVIOUS
    <2>1. CASE a \in pruned
      BY <1>1, <2>1, DropMirrored
    <2>2. CASE a \notin pruned
      BY <1>1, <2>2
    <2>3. QED
      BY <2>1, <2>2
  <1>3. QED
    BY <1>1, <1>2 DEF AllMirrored, Mirrors

LEMMA PruneExpiredInv ==
  ASSUME HealthInv, NEW pruned \in SUBSET Auths, PruneExpired(pruned)
  PROVE  HealthInv'
  <1>1. up = TRUE /\ up' = up /\ PruneResult(states, rows, pruned)
    BY DEF PruneExpired, HealthInv, TypeOK
  <1>2. AllMirrored'
    BY <1>1, MirroredPair, PruneResultMirrored
  <1>3. QED
    BY <1>2, RunningStep DEF PruneExpired, HealthInv, TypeOK

LEMMA ReconcileInv ==
  ASSUME HealthInv, NEW change \in [Auths -> ChangeKinds], NEW creds \in [Auths -> Creds],
         NEW done \in SUBSET Auths, NEW pruned \in SUBSET Auths,
         Reconcile(change, creds, done, pruned)
  PROVE  HealthInv'
  <1> DEFINE changed == {a \in Auths : change[a] # "none"}
             drops   == {a \in done : DropsState(change[a], creds[a], states[a])}
             s1 == [a \in Auths |-> IF a \in drops THEN NoState ELSE states[a]]
             r1 == [a \in Auths |-> IF a \in drops /\ states[a].kind \in PersistedKinds
                                    THEN NoRow ELSE rows[a]]
  <1>1. up = TRUE /\ up' = up /\ now' = now
    BY DEF Reconcile, HealthInv, TypeOK
  <1>2. \A a \in Auths : Mirrors(s1[a], r1[a])
    <2> SUFFICES ASSUME NEW a \in Auths PROVE Mirrors(s1[a], r1[a])
      OBVIOUS
    <2>1. Mirrors(states[a], rows[a])
      BY <1>1, MirroredPair
    <2>2. CASE a \in drops
      <3>1. /\ s1[a] = NoState
            /\ r1[a] = IF states[a].kind \in PersistedKinds THEN NoRow ELSE rows[a]
        BY <2>2
      <3> HIDE DEF s1, r1
      <3>2. QED
        BY <3>1, <2>1, DropMirrored
    <2>3. CASE a \notin drops
      BY <2>1, <2>3
    <2>4. QED
      BY <2>2, <2>3
  <1>3. IF done = changed THEN PruneResult(s1, r1, pruned)
                          ELSE states' = s1 /\ rows' = r1
    BY DEF Reconcile
  <1>4. AllMirrored'
    <2>1. CASE done = changed
      <3>1. PruneResult(s1, r1, pruned)
        BY <2>1, <1>3
      <3> HIDE DEF s1, r1
      <3>2. QED
        BY <3>1, <1>1, <1>2, PruneResultMirrored
    <2>2. CASE done # changed
      <3>1. states' = s1 /\ rows' = r1
        BY <2>2, <1>3
      <3>2. states' = [a \in Auths |-> states'[a]] /\ rows' = [a \in Auths |-> rows'[a]]
        BY <3>1
      <3> HIDE DEF s1, r1
      <3>3. QED
        BY <3>1, <3>2, <1>1, <1>2 DEF AllMirrored, Mirrors
    <2>3. QED
      BY <2>1, <2>2
  <1>5. exclusions' \in [Auths -> [Models -> Exclusions]]
    <2>1. exclusions' = [a \in Auths |-> [m \in Models |->
            IF a \in done /\ DropsExclusion(change[a], creds[a], exclusions[a][m])
            THEN NoExclusion ELSE exclusions[a][m]]]
      BY DEF Reconcile
    <2>2. \A a \in Auths, m \in Models : exclusions[a][m] \in Exclusions
      BY DEF HealthInv, TypeOK
    <2>3. QED
      BY <2>1, <2>2, NoStateFacts
  <1>6. epochs' \in [Auths -> Nat]
    <2>1. epochs' = [a \in Auths |->
            IF a \notin done THEN epochs[a]
            ELSE IF change[a] = "removed" THEN 0
            ELSE IF change[a] = "rotated" THEN epochs[a] + 1
            ELSE epochs[a]]
      BY DEF Reconcile
    <2>2. QED
      BY <2>1 DEF HealthInv, TypeOK
  <1>7. QED
    BY <1>1, <1>4, <1>5, <1>6, RunningStep

(* The process.                                                            *)
LEMMA TickInv == HealthInv /\ Tick => HealthInv'
  BY DEF HealthInv, TypeOK, OnlyReported, TableMirrorsMemory, Tick

LEMMA CrashInv == HealthInv /\ Crash => HealthInv'
  <1> SUFFICES ASSUME HealthInv, Crash PROVE HealthInv'
    OBVIOUS
  <1>1. TypeOK'
    BY NoStateFacts DEF HealthInv, TypeOK, Crash
  <1>2. OnlyReported'
    BY NoStateFacts DEF HealthInv, OnlyReported, Crash
  <1>3. TableMirrorsMemory'
    BY DEF TableMirrorsMemory, Crash
  <1>4. QED
    BY <1>1, <1>2, <1>3 DEF HealthInv

LEMMA RestoreInv ==
  ASSUME HealthInv, NEW creds, Restore(creds)
  PROVE  HealthInv'
  <1>1. \A a \in Auths : Mirrors(states'[a], rows'[a])
    <2> SUFFICES ASSUME NEW a \in Auths
                 PROVE  Mirrors(states'[a], rows'[a])
      OBVIOUS
    <2>1. /\ states'[a] = IF RestoreDrops(a, creds) THEN NoState ELSE StateOf(rows[a])
          /\ rows'[a] = IF RestoreDrops(a, creds) THEN NoRow ELSE rows[a]
      BY DEF Restore
    <2>2. CASE RestoreDrops(a, creds)
      BY <2>1, <2>2, MirrorsFacts
    <2>3. CASE ~RestoreDrops(a, creds) /\ rows[a] = NoRow
      BY <2>1, <2>3, MirrorsFacts DEF StateOf
    <2>4. CASE ~RestoreDrops(a, creds) /\ rows[a] # NoRow
      <3>1. PICK s \in Reported : MustPersist(s) /\ rows[a] = RowOf(s)
        BY <2>4 DEF HealthInv, OnlyReported
      <3>2. states'[a] = s /\ rows'[a] = RowOf(s)
        BY <2>1, <2>4, <3>1, RowRoundTrip
      <3>3. QED
        BY <3>1, <3>2, MirrorsFacts
    <2>5. QED
      BY <2>2, <2>3, <2>4
  <1>2. AllMirrored'
    BY <1>1 DEF AllMirrored, Restore, Mirrors
  <1>3. MemoryInv'
    BY <1>2, MirroredMemory, PTL
  <1>4. QED
    BY <1>3 DEF HealthInv, TypeOK, MemoryInv, Restore

LEMMA RestoreFailsInv ==
  ASSUME HealthInv, NEW creds, NEW dropped, RestoreFails(creds, dropped)
  PROVE  HealthInv'
  BY NoStateFacts
     DEF HealthInv, TypeOK, OnlyReported, TableMirrorsMemory, RestoreFails

LEMMA HealthInitInv == HealthInit => HealthInv
  <1> SUFFICES ASSUME HealthInit PROVE HealthInv
    OBVIOUS
  <1>1. TypeOK
    BY NoStateFacts DEF TypeOK, HealthInit
  <1>2. OnlyReported
    BY NoStateFacts DEF OnlyReported, HealthInit
  <1>3. TableMirrorsMemory
    BY DEF TableMirrorsMemory, HealthInit
  <1>4. QED
    BY <1>1, <1>2, <1>3 DEF HealthInv

LEMMA HealthNextInv == HealthInv /\ [HealthNext]_healthVars => HealthInv'
  <1> SUFFICES ASSUME HealthInv, [HealthNext]_healthVars
               PROVE  HealthInv'
    OBVIOUS
  <1>1. CASE Report
    BY <1>1, MarkUnavailableInv, MarkHealthyInv, RepairInv, MarkModelUnsupportedInv
       DEF Report
  <1>2. CASE Maintain
    BY <1>2, PruneExpiredInv, ReconcileInv, TickInv DEF Maintain
  <1>3. CASE Lifecycle
    BY <1>3, CrashInv, RestoreInv, RestoreFailsInv DEF Lifecycle
  <1>4. CASE UNCHANGED healthVars
    BY <1>4 DEF healthVars, HealthInv, TypeOK, OnlyReported, TableMirrorsMemory
  <1>5. QED
    BY <1>1, <1>2, <1>3, <1>4 DEF HealthNext

LEMMA HealthInvariant == HealthSpec => []HealthInv
  BY HealthInitInv, HealthNextInv, PTL DEF HealthSpec

-----------------------------------------------------------------------------

(* The variables of the registry always have their types, whatever the     *)
(* credentials, the deadlines and the bounds.                              *)
THEOREM TypesHold == HealthSpec => []TypeOK
  BY HealthInvariant, PTL DEF HealthInv

(* auth_health_states is always the authoritative part of memory while the *)
(* process runs, over failed writes, partial reconciles and restarts.      *)
THEOREM TableMirrorsMemoryHolds == HealthSpec => []TableMirrorsMemory
  BY HealthInvariant, PTL DEF HealthInv

-----------------------------------------------------------------------------
(* The registry implements DurableVerdicts.                                *)

LEMMA DurableFacts ==
  /\ Durable(NoState) = Promise!None
  /\ NoState = Promise!None
  /\ \A s \in Reported : MustPersist(s) =>
        s \in Promise!QuotaVerdicts \cup Promise!CredentialVerdicts
  <1>1. NoState = Promise!None
    BY DEF NoState, Promise!None
  <1>2. Durable(NoState) = NoState
    BY NoStateFacts DEF Durable
  <1>3. ASSUME NEW s \in Reported, MustPersist(s)
        PROVE  s \in Promise!QuotaVerdicts \cup Promise!CredentialVerdicts
    <2>1. PICK c \in Creds : s \in ReportedStates(c)
      BY DEF Reported
    <2>2. s.kind \in {"quota", "invalid_grant", "unauthorized"}
      BY <1>3 DEF MustPersist, AuthoritativeQuota
    <2>3. CASE s \in QuotaReports
      <3>1. s.authoritative = TRUE
        BY <1>3, <2>3 DEF QuotaReports, MustPersist, AuthoritativeQuota
      <3>2. QED
        BY <2>3, <3>1, Zenon DEF QuotaReports, Promise!QuotaVerdicts
    <2>4. CASE s \in CredentialReports(c)
      <3>1. s.kind \in {"invalid_grant", "unauthorized"}
        BY <2>2, <2>4 DEF CredentialReports, CredentialKinds
      <3>2. QED
        BY <2>4, <3>1, Zenon DEF CredentialReports, Promise!CredentialVerdicts
    <2>5. s \notin TransientReports
      BY <2>2 DEF TransientReports
    <2>6. QED
      BY <2>1, <2>3, <2>4, <2>5 DEF ReportedStates
  <1>4. QED
    BY <1>1, <1>2, <1>3

LEMMA OneVerdict ==
  ASSUME HealthInv, up = TRUE, up' = up, NEW a \in Auths, NEW s,
         states' = [states EXCEPT ![a] = s]
  PROVE  /\ DurableVerdict' = [DurableVerdict EXCEPT ![a] = Durable(s)]
         /\ DurableVerdict[a] = Durable(states[a])
  BY DEF HealthInv, TypeOK, DurableVerdict

LEMMA SameVerdict ==
  ASSUME UNCHANGED <<up, states, rows>>
  PROVE  DurableVerdict' = DurableVerdict
  BY DEF DurableVerdict

LEMMA MarkUnavailableRefines ==
  ASSUME HealthInv, NEW a \in Auths, NEW c \in Creds, NEW s \in ReportedStates(c),
         NEW ok \in BOOLEAN, MarkUnavailable(a, s, ok)
  PROVE  [Promise!Next]_(Promise!vars)
  <1>1. up = TRUE /\ up' = up /\ now' = now /\ epochs' = epochs
    BY DEF MarkUnavailable, HealthInv, TypeOK
  <1>2. CASE ~ok \/ PreservesExisting(states[a], s)
    BY <1>2, <1>1, SameVerdict DEF MarkUnavailable, Promise!vars
  <1>3. CASE ~(~ok \/ PreservesExisting(states[a], s))
    <2>1. states' = [states EXCEPT ![a] = s]
      BY <1>3 DEF MarkUnavailable
    <2>2. /\ DurableVerdict' = [DurableVerdict EXCEPT ![a] = Durable(s)]
          /\ DurableVerdict[a] = Durable(states[a])
      BY <1>1, <2>1, OneVerdict
    <2>3. s \in Reported
      BY DEF Reported
    <2>4. CASE MustPersist(s)
      <3>1. Promise!Learn(a, s)
        BY <1>1, <2>2, <2>4 DEF Promise!Learn, Durable
      <3>2. QED
        BY <3>1, <2>3, <2>4, DurableFacts DEF Promise!Next
    <2>5. CASE ~MustPersist(s)
      <3>1. ~Promise!Standing(DurableVerdict[a])
        <4>1. CASE MustPersist(states[a])
          <5>1. states[a].kind \in CredentialKinds \/ AuthoritativeQuota(states[a])
            BY <4>1 DEF MustPersist, CredentialKinds
          <5>2. \/ s.kind \in {"transient", "credential_invalid"}
                \/ s.kind = "quota" /\ ~s.authoritative
            <6>1. s \in QuotaReports => s.kind = "quota" /\ s.retryAt # 0
              BY HealthAssumption DEF QuotaReports
            <6>2. s \in TransientReports => s.kind = "transient"
              BY DEF TransientReports
            <6>3. s \in CredentialReports(c) => s.kind \in CredentialKinds
              BY DEF CredentialReports
            <6>4. QED
              BY <2>5, <6>1, <6>2, <6>3
                 DEF ReportedStates, MustPersist, AuthoritativeQuota, CredentialKinds, IsZero
          <5>3. Expired(states[a])
            BY <1>3, <5>1, <5>2 DEF PreservesExisting
          <5>4. QED
            BY <2>2, <4>1, <5>3 DEF Durable, Promise!Standing, Promise!Passed, Expired, IsZero
        <4>2. CASE ~MustPersist(states[a])
          BY <2>2, <4>2, DurableFacts DEF Durable, Promise!Standing
        <4>3. QED
          BY <4>1, <4>2
      <3>2. Promise!HearWeaker(a)
        BY <1>1, <2>2, <2>5, <3>1, DurableFacts DEF Promise!HearWeaker, Promise!Forget, Durable
      <3>3. QED
        BY <3>2 DEF Promise!Next
    <2>6. QED
      BY <2>4, <2>5
  <1>4. QED
    BY <1>2, <1>3

(* A success, or the part of one an unsupported model proves.              *)
LEMMA LiftRefines ==
  ASSUME HealthInv, NEW a \in Auths, up = TRUE, up' = up, now' = now,
         states' = [states EXCEPT ![a] = Lifted(@)],
         \/ Promise!Healthy(a)
         \/ epochs' = epochs /\ \E m \in Excluded(a)' : exclusions'[a][m].since = now
  PROVE  [Promise!Next]_(Promise!vars)
  <1>0. ASSUME Promise!Lift(a)
        PROVE  Promise!Next
    <2>1. CASE Promise!Healthy(a)
      <3>1. Promise!HearSuccess(a)
        BY <1>0, <2>1 DEF Promise!HearSuccess
      <3>2. QED
        BY <3>1 DEF Promise!Next
    <2>2. CASE epochs' = epochs /\ \E m \in Excluded(a)' : exclusions'[a][m].since = now
      <3>1. now \in [b \in Auths |->
                       {exclusions'[b][m].since : m \in Excluded(b)'}][a]
        BY <2>2
      <3>2. Promise!HearUnsupported(a)
        BY <1>0, <2>2, <3>1 DEF Promise!HearUnsupported
      <3>3. QED
        BY <3>2 DEF Promise!Next
    <2>3. QED
      BY <2>1, <2>2
  <1>1. /\ DurableVerdict' = [DurableVerdict EXCEPT ![a] = Durable(Lifted(states[a]))]
        /\ DurableVerdict[a] = Durable(states[a])
    BY OneVerdict
  <1>2. CASE PreservesQuota(states[a])
    <2>1. states' = states
      BY <1>2 DEF Lifted, HealthInv, TypeOK
    <2>2. DurableVerdict' = DurableVerdict
      BY <2>1 DEF DurableVerdict
    <2>3. DurableVerdict[a].kind = "quota" /\ Promise!Standing(DurableVerdict[a])
      <3>1. /\ states[a].retryAt \in Nat /\ now \in Nat
            /\ AuthoritativeQuota(states[a]) /\ states[a].retryAt > now
        BY <1>2 DEF HealthInv, TypeOK, HealthStates, PreservesQuota
      <3>2. Durable(states[a]) = states[a]
        BY <3>1 DEF Durable, MustPersist, IsZero
      <3>3. states[a].kind = "quota" /\ states[a] # Promise!None
        BY <3>1 DEF AuthoritativeQuota, Promise!None
      <3>4. QED
        BY <1>1, <3>1, <3>2, <3>3 DEF Promise!Standing, Promise!Passed
    <2>4. Promise!Lift(a)
      BY <2>2, <2>3 DEF Promise!Lift
    <2>5. QED
      BY <1>0, <2>4
  <1>3. CASE ~PreservesQuota(states[a])
    <2>1. DurableVerdict' = [DurableVerdict EXCEPT ![a] = Promise!None]
      BY <1>1, <1>3, DurableFacts DEF Lifted
    <2>2. ~(DurableVerdict[a].kind = "quota" /\ Promise!Standing(DurableVerdict[a]))
      <3>1. CASE MustPersist(states[a]) /\ states[a].kind = "quota"
        <4>1. /\ states[a].retryAt \in Nat /\ now \in Nat
              /\ AuthoritativeQuota(states[a]) /\ states[a].retryAt # 0
          BY <3>1 DEF HealthInv, TypeOK, HealthStates, MustPersist, IsZero
        <4>2. states[a].retryAt <= now
          BY <1>3, <4>1 DEF PreservesQuota
        <4>3. QED
          BY <1>1, <3>1, <4>1, <4>2 DEF Durable, Promise!Standing, Promise!Passed
      <3>2. CASE MustPersist(states[a]) /\ states[a].kind # "quota"
        BY <1>1, <3>2 DEF Durable
      <3>3. CASE ~MustPersist(states[a])
        BY <1>1, <3>3, DurableFacts DEF Durable, Promise!Standing
      <3>4. QED
        BY <3>1, <3>2, <3>3
    <2>3. Promise!Lift(a)
      BY <2>1, <2>2 DEF Promise!Lift, Promise!Forget
    <2>4. QED
      BY <1>0, <2>3
  <1>4. QED
    BY <1>2, <1>3

LEMMA RepairRefines ==
  ASSUME HealthInv, NEW a \in Auths, NEW ok \in BOOLEAN,
         MarkCredentialHealthy(a, ok) \/ ClearCooldown(a, ok)
  PROVE  [Promise!Next]_(Promise!vars)
  <1>1. up = TRUE /\ up' = up /\ now' = now
    BY DEF MarkCredentialHealthy, ClearCooldown, HealthInv, TypeOK
  <1>2. CASE UNCHANGED <<states, rows, epochs>>
    BY <1>1, <1>2, SameVerdict DEF Promise!vars
  <1>3. CASE states' = [states EXCEPT ![a] = NoState] /\ Promise!Healthy(a)
    <2>1. /\ DurableVerdict' = [DurableVerdict EXCEPT ![a] = Promise!None]
          /\ DurableVerdict[a] = Durable(states[a])
      BY <1>1, <1>3, OneVerdict, DurableFacts
    <2>2. CASE MustPersist(states[a])
      <3>1. DurableVerdict[a].kind \in {"quota", "invalid_grant", "unauthorized"}
        BY <2>1, <2>2 DEF Durable, MustPersist, AuthoritativeQuota
      <3>2. Promise!Clear(a) \/ Promise!Repair(a)
        BY <1>1, <1>3, <2>1, <3>1 DEF Promise!Clear, Promise!Repair, Promise!Forget
      <3>3. QED
        BY <3>2 DEF Promise!Next
    <2>3. CASE ~MustPersist(states[a])
      <3>1. DurableVerdict[a] = Promise!None
        BY <2>1, <2>3, DurableFacts DEF Durable
      <3>2. Promise!HearSuccess(a)
        BY <1>1, <1>3, <2>1, <3>1
           DEF Promise!HearSuccess, Promise!Lift, Promise!Standing, Promise!Forget
      <3>3. QED
        BY <3>2 DEF Promise!Next
    <2>4. QED
      BY <2>2, <2>3
  <1>4. QED
    BY <1>2, <1>3 DEF MarkCredentialHealthy, ClearCooldown, Promise!Healthy

(* A step that only forgets verdicts, each of them refuted, is a Drop of   *)
(* the promise.                                                            *)
LEMMA DropsRefine ==
  ASSUME NEW gone \in SUBSET Auths, NEW creds \in [Auths -> Creds \cup {NoCred}],
         \A a \in Auths :
           \/ DurableVerdict'[a] = DurableVerdict[a]
           \/ DurableVerdict'[a] = Promise!None /\ Promise!Refuted(a, gone, creds)
  PROVE  Promise!Drop(gone, creds)
  <1> DEFINE dropped == {a \in Auths : DurableVerdict'[a] # DurableVerdict[a]}
  <1>1. dropped \in SUBSET {a \in Auths : Promise!Refuted(a, gone, creds)}
    OBVIOUS
  <1>2. DurableVerdict' = [a \in Auths |-> DurableVerdict'[a]]
    BY DEF DurableVerdict
  <1>3. \A a \in Auths : DurableVerdict'[a] =
          IF a \in dropped THEN Promise!None ELSE DurableVerdict[a]
    OBVIOUS
  <1>4. DurableVerdict' =
          [a \in Auths |-> IF a \in dropped THEN Promise!None ELSE DurableVerdict[a]]
    BY <1>2, <1>3
  <1>5. QED
    BY <1>1, <1>4 DEF Promise!Drop

(* An expired state, if it has a verdict, has one whose time has passed.   *)
LEMMA ExpiredPassed ==
  ASSUME NEW a \in Auths, up = TRUE, Expired(states[a])
  PROVE  \/ DurableVerdict[a] = Promise!None
         \/ Promise!Passed(DurableVerdict[a])
  BY DurableFacts DEF DurableVerdict, Durable, Expired, IsZero, Promise!Passed

LEMMA PruneExpiredRefines ==
  ASSUME HealthInv, NEW pruned \in SUBSET Auths, PruneExpired(pruned),
         NEW creds \in [Auths -> Creds]
  PROVE  [Promise!Next]_(Promise!vars)
  <1>1. up = TRUE /\ up' = up /\ now' = now /\ epochs' = epochs
    BY DEF PruneExpired, HealthInv, TypeOK
  <1>2. ASSUME NEW a \in Auths
        PROVE  \/ DurableVerdict'[a] = DurableVerdict[a]
               \/ DurableVerdict'[a] = Promise!None /\ Promise!Refuted(a, {}, creds)
    <2>1. /\ DurableVerdict[a] = Durable(states[a])
          /\ DurableVerdict'[a] = Durable(states'[a])
      BY <1>1 DEF DurableVerdict, Durable, MustPersist, AuthoritativeQuota
    <2>2. CASE a \in pruned
      <3>1. Expired(states[a]) /\ states'[a] = NoState
        BY <2>2 DEF PruneExpired, PruneResult, ExpiredIn
      <3>2. DurableVerdict'[a] = Promise!None
        BY <2>1, <3>1, DurableFacts
      <3>3. QED
        BY <1>1, <3>1, <3>2, ExpiredPassed DEF Promise!Refuted
    <2>3. CASE a \notin pruned
      BY <2>1, <2>3 DEF PruneExpired, PruneResult
    <2>4. QED
      BY <2>2, <2>3
  <1>3. creds \in [Auths -> Creds \cup {NoCred}]
    OBVIOUS
  <1>4. Promise!Drop({}, creds)
    BY <1>2, <1>3, DropsRefine
  <1>5. epochs' = [a \in Auths |-> IF a \in {} THEN 0
                                  ELSE IF a \in {} THEN epochs[a] + 1 ELSE epochs[a]]
    BY <1>1 DEF HealthInv, TypeOK
  <1>6. PICK gone \in SUBSET Auths : gone = {}
    OBVIOUS
  <1>7. Promise!Reconcile(gone, creds)
    BY <1>1, <1>4, <1>5, <1>6 DEF Promise!Reconcile
  <1>8. QED
    BY <1>3, <1>7 DEF Promise!Next

LEMMA ReconcileRefines ==
  ASSUME HealthInv, NEW change \in [Auths -> ChangeKinds], NEW creds \in [Auths -> Creds],
         NEW done \in SUBSET Auths, NEW pruned \in SUBSET Auths,
         Reconcile(change, creds, done, pruned)
  PROVE  [Promise!Next]_(Promise!vars)
  <1> DEFINE changed == {a \in Auths : change[a] # "none"}
             gone    == {a \in done : change[a] = "removed"}
             rotated == {a \in done : change[a] = "rotated"}
             drops   == {a \in done : DropsState(change[a], creds[a], states[a])}
             s1 == [a \in Auths |-> IF a \in drops THEN NoState ELSE states[a]]
             r1 == [a \in Auths |-> IF a \in drops /\ states[a].kind \in PersistedKinds
                                    THEN NoRow ELSE rows[a]]
  <1>1. up = TRUE /\ up' = up /\ now' = now
    BY DEF Reconcile, HealthInv, TypeOK
  <1>2. IF done = changed THEN PruneResult(s1, r1, pruned)
                          ELSE states' = s1 /\ rows' = r1
    BY DEF Reconcile
  <1>3. ASSUME NEW a \in Auths
        PROVE  \/ states'[a] = states[a]
               \/ states'[a] = NoState /\ (a \in drops \/ Expired(states[a]))
    <2>1. CASE done = changed
      <3>1. PruneResult(s1, r1, pruned)
        BY <1>2, <2>1
      <3>2. s1[a] = IF a \in drops THEN NoState ELSE states[a]
        OBVIOUS
      <3> HIDE DEF s1, r1, drops
      <3>3. CASE a \in pruned
        <4>1. states'[a] = NoState /\ Expired(s1[a])
          BY <3>1, <3>3 DEF PruneResult, ExpiredIn
        <4>2. QED
          BY <3>2, <4>1
      <3>4. CASE a \notin pruned
        <4>1. states'[a] = s1[a]
          BY <3>1, <3>4 DEF PruneResult
        <4>2. QED
          BY <3>2, <4>1
      <3>5. QED
        BY <3>3, <3>4
    <2>2. CASE done # changed
      BY <1>2, <2>2
    <2>3. QED
      BY <2>1, <2>2
  <1>4. ASSUME NEW a \in Auths
        PROVE  \/ DurableVerdict'[a] = DurableVerdict[a]
               \/ DurableVerdict'[a] = Promise!None /\ Promise!Refuted(a, gone, creds)
    <2>1. /\ DurableVerdict[a] = Durable(states[a])
          /\ DurableVerdict'[a] = Durable(states'[a])
      BY <1>1 DEF DurableVerdict, Durable, MustPersist, AuthoritativeQuota
    <2>2. CASE states'[a] = states[a]
      BY <2>1, <2>2
    <2>3. CASE states'[a] = NoState /\ Expired(states[a])
      BY <1>1, <2>1, <2>3, ExpiredPassed, DurableFacts DEF Promise!Refuted
    <2>4. CASE states'[a] = NoState /\ a \in drops
      <3>1. DurableVerdict'[a] = Promise!None
        BY <2>1, <2>4, DurableFacts
      <3>2. CASE MustPersist(states[a])
        <4>1. DurableVerdict[a] = states[a]
          BY <2>1, <3>2 DEF Durable
        <4>2. states[a].kind \in {"quota", "invalid_grant", "unauthorized"}
          BY <3>2 DEF MustPersist, AuthoritativeQuota
        <4>3. \/ change[a] = "removed"
              \/ states[a].kind \in CredentialKinds /\ states[a].cred # creds[a]
          BY <2>4 DEF DropsState
        <4>4. change[a] = "removed" => a \in gone
          BY <2>4
        <4> HIDE DEF gone
        <4>5. QED
          BY <3>1, <4>1, <4>2, <4>3, <4>4 DEF Promise!Refuted, CredentialKinds
      <3>3. CASE ~MustPersist(states[a])
        BY <2>1, <3>1, <3>3, DurableFacts DEF Durable
      <3>4. QED
        BY <3>2, <3>3
    <2>5. QED
      BY <1>3, <2>2, <2>3, <2>4
  <1>5. gone \in SUBSET Auths /\ creds \in [Auths -> Creds \cup {NoCred}]
    OBVIOUS
  <1>6. epochs' = [a \in Auths |-> IF a \in gone THEN 0
                                  ELSE IF a \in rotated THEN epochs[a] + 1
                                  ELSE epochs[a]]
    BY DEF Reconcile
  <1>7. rotated \in SUBSET Auths
    OBVIOUS
  <1> HIDE DEF gone, rotated
  <1>8. Promise!Drop(gone, creds)
    BY <1>4, <1>5, DropsRefine
  <1>9. Promise!Reconcile(gone, creds)
    BY <1>1, <1>6, <1>7, <1>8 DEF Promise!Reconcile
  <1>10. QED
    BY <1>5, <1>9 DEF Promise!Next

(* What the table of a stopped process stands for.                         *)
LEMMA RowVerdict ==
  ASSUME HealthInv, NEW a \in Auths
  PROVE  /\ rows[a] = NoRow => StateOf(rows[a]) = Promise!None
         /\ rows[a] # NoRow =>
              /\ StateOf(rows[a]).kind = rows[a].kind
              /\ StateOf(rows[a]).retryAt = rows[a].retryAt
              /\ StateOf(rows[a]).cred = rows[a].cred
              /\ rows[a].kind \in PersistedKinds
              /\ MustPersist(StateOf(rows[a]))
  <1>1. CASE rows[a] = NoRow
    BY <1>1, DurableFacts DEF StateOf
  <1>2. CASE rows[a] # NoRow
    <2>1. PICK s \in Reported : MustPersist(s) /\ rows[a] = RowOf(s)
      BY <1>2 DEF HealthInv, OnlyReported
    <2>2. StateOf(rows[a]) = s /\ s.kind \in PersistedKinds
      BY <2>1, RowRoundTrip
    <2>3. rows[a].kind = s.kind /\ rows[a].retryAt = s.retryAt /\ rows[a].cred = s.cred
      BY <2>1 DEF RowOf
    <2>4. QED
      BY <1>2, <2>1, <2>2, <2>3
  <1>3. QED
    BY <1>1, <1>2

LEMMA CrashRefines == HealthInv /\ Crash => Promise!Crash
  <1> SUFFICES ASSUME HealthInv, Crash PROVE Promise!Crash
    OBVIOUS
  <1>1. \A a \in Auths : StateOf(rows[a]) = Durable(states[a])
    <2> SUFFICES ASSUME NEW a \in Auths PROVE StateOf(rows[a]) = Durable(states[a])
      OBVIOUS
    <2>1. CASE MustPersist(states[a])
      <3>1. states[a] \in Reported
        BY <2>1, NoStateFacts DEF HealthInv, OnlyReported, HeldState
      <3>2. rows[a] = RowOf(states[a])
        BY <2>1 DEF HealthInv, TableMirrorsMemory, Crash
      <3>3. QED
        BY <2>1, <3>1, <3>2, RowRoundTrip DEF Durable
    <2>2. CASE ~MustPersist(states[a])
      <3>1. rows[a] = NoRow
        BY <2>2 DEF HealthInv, TableMirrorsMemory, Crash
      <3>2. QED
        BY <2>2, <3>1 DEF Durable, StateOf
    <2>3. QED
      BY <2>1, <2>2
  <1>2. DurableVerdict' = [a \in Auths |-> StateOf(rows[a])]
    BY DEF DurableVerdict, Crash
  <1>3. DurableVerdict = [a \in Auths |-> Durable(states[a])]
    BY DEF DurableVerdict, Crash
  <1>4. DurableVerdict' = DurableVerdict
    BY <1>1, <1>2, <1>3
  <1>5. QED
    BY <1>4 DEF Crash, Promise!Crash

(* Restoring drops exactly the verdicts that the auth files and the clock  *)
(* refute.                                                                 *)
LEMMA RestoreDropsRefuted ==
  ASSUME HealthInv, up = FALSE, NEW creds, NEW a \in Auths, rows[a] # NoRow
  PROVE  RestoreDrops(a, creds)
           <=> Promise!Refuted(a, {b \in Auths : creds[b] = NoCred}, creds)
  <1>1. DurableVerdict[a] = StateOf(rows[a])
    BY DEF DurableVerdict
  <1>2. rows[a].kind \in CredentialKinds <=> rows[a].kind \in {"invalid_grant", "unauthorized"}
    BY RowVerdict DEF PersistedKinds, CredentialKinds
  <1>3. QED
    BY <1>1, <1>2, RowVerdict
       DEF RestoreDrops, Promise!Refuted, Promise!Passed, Expired, IsZero

LEMMA RestoreRefines ==
  ASSUME HealthInv, NEW creds \in [Auths -> Creds \cup {NoCred}], Restore(creds)
  PROVE  [Promise!Next]_(Promise!vars)
  <1> DEFINE gone == {b \in Auths : creds[b] = NoCred}
  <1>1. up = FALSE /\ up' = TRUE /\ now' = now
    BY DEF Restore, HealthInv, TypeOK
  <1>2. ASSUME NEW a \in Auths
        PROVE  DurableVerdict'[a] = IF Promise!Refuted(a, gone, creds) THEN Promise!None
                                    ELSE DurableVerdict[a]
    <2>1. /\ DurableVerdict[a] = StateOf(rows[a])
          /\ DurableVerdict'[a] = Durable(states'[a])
          /\ states'[a] = IF RestoreDrops(a, creds) THEN NoState ELSE StateOf(rows[a])
      BY <1>1 DEF DurableVerdict, Restore, Durable, MustPersist, AuthoritativeQuota
    <2>2. CASE rows[a] = NoRow
      BY <2>1, <2>2, RowVerdict, DurableFacts DEF RestoreDrops
    <2>3. CASE rows[a] # NoRow
      <3>1. RestoreDrops(a, creds) <=> Promise!Refuted(a, gone, creds)
        BY <1>1, <2>3, RestoreDropsRefuted
      <3>2. Durable(StateOf(rows[a])) = StateOf(rows[a])
        BY <2>3, RowVerdict DEF Durable
      <3> HIDE DEF gone
      <3>3. QED
        BY <2>1, <3>1, <3>2, DurableFacts
    <2>4. QED
      BY <2>2, <2>3
  <1>3. DurableVerdict' = [a \in Auths |-> DurableVerdict'[a]]
    BY DEF DurableVerdict
  <1>4. gone \in SUBSET Auths /\ epochs' = epochs
    BY DEF Restore
  <1> HIDE DEF gone
  <1>5. Promise!Restart(gone, creds)
    BY <1>1, <1>2, <1>3, <1>4 DEF Promise!Restart
  <1>6. QED
    BY <1>4, <1>5 DEF Promise!Next

LEMMA RestoreFailsRefines ==
  ASSUME HealthInv, NEW creds \in [Auths -> Creds \cup {NoCred}],
         NEW dropped \in SUBSET Auths, RestoreFails(creds, dropped)
  PROVE  [Promise!Next]_(Promise!vars)
  <1> DEFINE gone == {b \in Auths : creds[b] = NoCred}
  <1>1. up = FALSE /\ up' = up /\ now' = now /\ epochs' = epochs
    BY DEF RestoreFails, HealthInv, TypeOK
  <1>2. ASSUME NEW a \in Auths
        PROVE  \/ DurableVerdict'[a] = DurableVerdict[a]
               \/ DurableVerdict'[a] = Promise!None /\ Promise!Refuted(a, gone, creds)
    <2>1. /\ DurableVerdict[a] = StateOf(rows[a])
          /\ DurableVerdict'[a] = StateOf(rows'[a])
      BY <1>1 DEF DurableVerdict, StateOf
    <2>2. CASE a \in dropped
      <3>1. rows'[a] = NoRow /\ rows[a] # NoRow /\ RestoreDrops(a, creds)
        BY <2>2 DEF RestoreFails, RestoreDrops
      <3>2. DurableVerdict'[a] = Promise!None
        BY <2>1, <3>1, DurableFacts DEF StateOf
      <3>3. QED
        BY <1>1, <3>1, <3>2, RestoreDropsRefuted
    <2>3. CASE a \notin dropped
      BY <2>1, <2>3 DEF RestoreFails
    <2>4. QED
      BY <2>2, <2>3
  <1> HIDE DEF gone
  <1>3. gone \in SUBSET Auths
    BY DEF gone
  <1>4. Promise!Drop(gone, creds)
    BY <1>2, <1>3, DropsRefine
  <1>5. Promise!RestartFails(gone, creds)
    BY <1>1, <1>4 DEF Promise!RestartFails
  <1>6. QED
    BY <1>3, <1>5 DEF Promise!Next

LEMMA HealthNextRefines ==
  HealthInv /\ [HealthNext]_healthVars => [Promise!Next]_(Promise!vars)
  <1> SUFFICES ASSUME HealthInv, [HealthNext]_healthVars
               PROVE  [Promise!Next]_(Promise!vars)
    OBVIOUS
  <1>1. CASE Report
    <2>1. ASSUME NEW a \in Auths, NEW ok \in BOOLEAN, NEW m \in Models \cup {NoModel},
                 MarkHealthy(a, m, ok)
          PROVE  [Promise!Next]_(Promise!vars)
      <3>1. up = TRUE /\ up' = up /\ now' = now
        BY <2>1 DEF MarkHealthy, HealthInv, TypeOK
      <3>2. CASE LiftFails(states[a], ok)
        BY <2>1, <3>1, <3>2, SameVerdict DEF MarkHealthy, Promise!vars
      <3>3. CASE ~LiftFails(states[a], ok)
        BY <2>1, <3>1, <3>3, LiftRefines DEF MarkHealthy, Promise!Healthy
      <3>4. QED
        BY <3>2, <3>3
    <2>2. ASSUME NEW a \in Auths, NEW ok \in BOOLEAN, NEW m \in Models, NEW c \in Creds,
                 MarkModelUnsupported(a, m, c, ok)
          PROVE  [Promise!Next]_(Promise!vars)
      <3>1. up = TRUE /\ up' = up /\ now' = now
        BY <2>2 DEF MarkModelUnsupported, HealthInv, TypeOK
      <3>2. CASE LiftFails(states[a], ok)
        BY <2>2, <3>1, <3>2, SameVerdict DEF MarkModelUnsupported, Promise!vars
      <3>3. CASE ~LiftFails(states[a], ok)
        <4>1. exclusions'[a][m] = [cred |-> c, since |-> now]
          BY <2>2, <3>3 DEF MarkModelUnsupported, HealthInv, TypeOK
        <4>2. m \in Excluded(a)' /\ exclusions'[a][m].since = now
          BY <4>1, HealthAssumption DEF Excluded, NoExclusion
        <4>3. QED
          BY <2>2, <3>1, <3>3, <4>2, LiftRefines DEF MarkModelUnsupported
      <3>4. QED
        BY <3>2, <3>3
    <2>3. QED
      BY <1>1, <2>1, <2>2, MarkUnavailableRefines, RepairRefines DEF Report
  <1>2. CASE Maintain
    <2>1. ASSUME NEW pruned \in SUBSET Auths, PruneExpired(pruned)
          PROVE  [Promise!Next]_(Promise!vars)
      <3>1. PICK c \in Creds : TRUE
        BY HealthAssumption
      <3>2. [a \in Auths |-> c] \in [Auths -> Creds]
        BY <3>1
      <3>3. QED
        BY <2>1, <3>2, PruneExpiredRefines
    <2>2. CASE Tick
      <3>1. DurableVerdict' = DurableVerdict
        BY <2>2, SameVerdict DEF Tick
      <3>2. Promise!Tick
        BY <2>2, <3>1 DEF Tick, Promise!Tick
      <3>3. QED
        BY <3>2 DEF Promise!Next
    <2>3. QED
      BY <1>2, <2>1, <2>2, ReconcileRefines DEF Maintain
  <1>3. CASE Lifecycle
    <2>1. CASE Crash
      BY <2>1, CrashRefines DEF Promise!Next
    <2>2. ASSUME NEW creds \in [Auths -> Creds \cup {NoCred}], Restore(creds)
          PROVE  [Promise!Next]_(Promise!vars)
      BY <2>2, RestoreRefines
    <2>3. QED
      BY <1>3, <2>1, <2>2, RestoreFailsRefines DEF Lifecycle
  <1>4. CASE UNCHANGED healthVars
    BY <1>4, SameVerdict DEF healthVars, Promise!vars
  <1>5. QED
    BY <1>1, <1>2, <1>3, <1>4 DEF HealthNext

LEMMA HealthInitRefines == HealthInit => Promise!Init
  <1> SUFFICES ASSUME HealthInit PROVE Promise!Init
    OBVIOUS
  <1>1. StateOf(NoRow) = Promise!None
    BY DurableFacts DEF StateOf
  <1>2. DurableVerdict = [a \in Auths |-> Promise!None]
    BY <1>1 DEF DurableVerdict, HealthInit
  <1>3. QED
    BY <1>2 DEF HealthInit, Promise!Init

(* The registry, its table and its restarts implement the verdicts of      *)
(* DurableVerdicts, for any credentials, models, deadlines and bounds.     *)
THEOREM KeepsPromiseHolds == HealthSpec => KeepsPromise
  BY HealthInvariant, HealthInitRefines, HealthNextRefines, PTL
     DEF HealthSpec, KeepsPromise, Promise!Spec

-----------------------------------------------------------------------------
(* Model exclusions.  Only MarkModelUnsupported adds one, and in a full    *)
(* table it takes another out first, so the count never passes the limit.  *)
RoomKept ==
  \A a \in Auths : /\ IsFiniteSet(Excluded(a))
                    /\ Cardinality(Excluded(a)) <= MaxModelExclusions

(* A step that only takes exclusions away keeps the limit.                 *)
LEMMA FewerExclusions ==
  ASSUME RoomKept, \A a \in Auths : Excluded(a)' \subseteq Excluded(a)
  PROVE  RoomKept'
  <1> SUFFICES ASSUME NEW a \in Auths
               PROVE  /\ IsFiniteSet(Excluded(a)')
                      /\ Cardinality(Excluded(a)') <= MaxModelExclusions
    BY DEF RoomKept
  <1>1. IsFiniteSet(Excluded(a)) /\ Cardinality(Excluded(a)) <= MaxModelExclusions
    BY DEF RoomKept
  <1>2. Excluded(a)' \in SUBSET Excluded(a)
    OBVIOUS
  <1>3. /\ IsFiniteSet(Excluded(a)')
        /\ Cardinality(Excluded(a)') <= Cardinality(Excluded(a))
    BY <1>1, <1>2, FS_Subset
  <1>4. Cardinality(Excluded(a)) \in Nat /\ Cardinality(Excluded(a)') \in Nat
    BY <1>1, <1>3, FS_CardinalityType
  <1>5. MaxModelExclusions \in Nat
    BY HealthAssumption
  <1>6. QED
    BY <1>1, <1>3, <1>4, <1>5

LEMMA SameExclusions ==
  ASSUME RoomKept, UNCHANGED exclusions
  PROVE  RoomKept'
  BY FewerExclusions DEF Excluded

LEMMA MarkModelUnsupportedRoom ==
  ASSUME TypeOK, RoomKept, NEW a \in Auths, NEW m \in Models, NEW c \in Creds,
         NEW ok \in BOOLEAN, MarkModelUnsupported(a, m, c, ok)
  PROVE  RoomKept'
  <1>1. CASE LiftFails(states[a], ok)
    BY <1>1, SameExclusions DEF MarkModelUnsupported
  <1>2. CASE ~LiftFails(states[a], ok)
    <2>1. PICK victims \in IF ExclusionsFull(a, m)
                           THEN {{v} : v \in OldestExclusions(a)} ELSE {{}} :
            exclusions' = [exclusions EXCEPT ![a] =
              [n \in Models |-> IF n = m THEN [cred |-> c, since |-> now]
                                ELSE IF n \in victims THEN NoExclusion
                                ELSE @[n]]]
      BY <1>2 DEF MarkModelUnsupported
    <2>2. exclusions \in [Auths -> [Models -> Exclusions]]
      BY DEF TypeOK
    <2>3. \A b \in Auths \ {a} : Excluded(b)' = Excluded(b)
      BY <2>1, <2>2 DEF Excluded
    <2>4. Excluded(a)' \subseteq (Excluded(a) \ victims) \cup {m}
      BY <2>1, <2>2 DEF Excluded
    <2>5. IsFiniteSet(Excluded(a)) /\ Cardinality(Excluded(a)) <= MaxModelExclusions
      BY DEF RoomKept
    <2>6. /\ IsFiniteSet((Excluded(a) \ victims) \cup {m})
          /\ Cardinality((Excluded(a) \ victims) \cup {m}) <= MaxModelExclusions
      <3>1. MaxModelExclusions \in Nat /\ Cardinality(Excluded(a)) \in Nat
        BY <2>5, FS_CardinalityType, HealthAssumption
      <3>2. CASE ExclusionsFull(a, m)
        <4>1. PICK v \in OldestExclusions(a) : victims = {v}
          BY <2>1, <3>2
        <4>2. v \in Excluded(a) /\ m \notin Excluded(a)
          BY <3>2 DEF OldestExclusions, ExclusionsFull
        <4>3. /\ IsFiniteSet(Excluded(a) \ {v})
              /\ Cardinality(Excluded(a) \ {v}) = Cardinality(Excluded(a)) - 1
          BY <2>5, <4>2, FS_RemoveElement
        <4>4. /\ IsFiniteSet((Excluded(a) \ {v}) \cup {m})
              /\ Cardinality((Excluded(a) \ {v}) \cup {m})
                   = Cardinality(Excluded(a) \ {v}) + 1
          BY <4>2, <4>3, FS_AddElement
        <4>5. QED
          BY <2>5, <3>1, <4>1, <4>3, <4>4
      <3>3. CASE ~ExclusionsFull(a, m)
        <4>1. Excluded(a) \ victims = Excluded(a)
          BY <2>1, <3>3
        <4>2. /\ IsFiniteSet(Excluded(a) \cup {m})
              /\ Cardinality(Excluded(a) \cup {m}) =
                   IF m \in Excluded(a) THEN Cardinality(Excluded(a))
                   ELSE Cardinality(Excluded(a)) + 1
          BY <2>5, FS_AddElement
        <4>3. m \in Excluded(a) \/ ~(Cardinality(Excluded(a)) >= MaxModelExclusions)
          BY <3>3 DEF ExclusionsFull
        <4>4. Cardinality(Excluded(a) \cup {m}) <= MaxModelExclusions
          BY <2>5, <3>1, <4>2, <4>3
        <4>5. (Excluded(a) \ victims) \cup {m} = Excluded(a) \cup {m}
          BY <4>1
        <4>6. QED
          BY <4>2, <4>4, <4>5
      <3>4. QED
        BY <3>2, <3>3
    <2>7. /\ IsFiniteSet(Excluded(a)')
          /\ Cardinality(Excluded(a)') <= MaxModelExclusions
      <3>1. Excluded(a)' \in SUBSET ((Excluded(a) \ victims) \cup {m})
        BY <2>4
      <3>2. /\ IsFiniteSet(Excluded(a)')
            /\ Cardinality(Excluded(a)') <= Cardinality((Excluded(a) \ victims) \cup {m})
        BY <2>6, <3>1, FS_Subset
      <3>3. Cardinality(Excluded(a)') \in Nat
        BY <3>2, FS_CardinalityType
      <3>4. Cardinality((Excluded(a) \ victims) \cup {m}) \in Nat
        BY <2>6, FS_CardinalityType
      <3>5. MaxModelExclusions \in Nat
        BY HealthAssumption
      <3>6. QED
        BY <2>6, <3>2, <3>3, <3>4, <3>5
    <2>8. QED
      BY <2>3, <2>7 DEF RoomKept
  <1>3. QED
    BY <1>1, <1>2

LEMMA NextRoom == TypeOK /\ RoomKept /\ [HealthNext]_healthVars => RoomKept'
  <1> SUFFICES ASSUME TypeOK, RoomKept, [HealthNext]_healthVars
               PROVE  RoomKept'
    OBVIOUS
  <1>t. exclusions \in [Auths -> [Models -> Exclusions]]
    BY DEF TypeOK
  <1>1. CASE Report
    <2>1. ASSUME NEW a \in Auths, NEW ok \in BOOLEAN, NEW m \in Models \cup {NoModel},
                 MarkHealthy(a, m, ok)
          PROVE  RoomKept'
      <3>1. CASE LiftFails(states[a], ok)
        BY <2>1, <3>1, SameExclusions DEF MarkHealthy
      <3>2. CASE ~LiftFails(states[a], ok)
        <4>1. exclusions' = [exclusions EXCEPT ![a] =
                [n \in Models |-> IF n = m THEN NoExclusion ELSE @[n]]]
          BY <2>1, <3>2 DEF MarkHealthy
        <4>2. \A b \in Auths : Excluded(b)' \subseteq Excluded(b)
          BY <1>t, <4>1 DEF Excluded
        <4>3. QED
          BY <4>2, FewerExclusions
      <3>3. QED
        BY <3>1, <3>2
    <2>2. ASSUME NEW a \in Auths, NEW ok \in BOOLEAN,
                 \/ \E c \in Creds : \E s \in ReportedStates(c) : MarkUnavailable(a, s, ok)
                 \/ MarkCredentialHealthy(a, ok)
                 \/ ClearCooldown(a, ok)
          PROVE  RoomKept'
      <3>1. UNCHANGED exclusions
        BY <2>2 DEF MarkUnavailable, MarkCredentialHealthy, ClearCooldown
      <3>2. QED
        BY <3>1, SameExclusions
    <2>3. QED
      BY <1>1, <2>1, <2>2, MarkModelUnsupportedRoom DEF Report
  <1>2. CASE Maintain
    <2>1. ASSUME NEW change \in [Auths -> ChangeKinds], NEW creds \in [Auths -> Creds],
                 NEW done \in SUBSET Auths, NEW pruned \in SUBSET Auths,
                 Reconcile(change, creds, done, pruned)
          PROVE  RoomKept'
      <3>1. exclusions' = [a \in Auths |-> [m \in Models |->
              IF a \in done /\ DropsExclusion(change[a], creds[a], exclusions[a][m])
              THEN NoExclusion ELSE exclusions[a][m]]]
        BY <2>1 DEF Reconcile
      <3>2. \A b \in Auths : Excluded(b)' \subseteq Excluded(b)
        BY <3>1 DEF Excluded
      <3>3. QED
        BY <3>2, FewerExclusions
    <2>2. ASSUME (\E pruned \in SUBSET Auths : PruneExpired(pruned)) \/ Tick
          PROVE  RoomKept'
      <3>1. UNCHANGED exclusions
        BY <2>2 DEF PruneExpired, Tick
      <3>2. QED
        BY <3>1, SameExclusions
    <2>3. QED
      BY <1>2, <2>1, <2>2 DEF Maintain
  <1>3. CASE Lifecycle
    <2>1. CASE Crash
      <3>1. \A b \in Auths : Excluded(b)' \subseteq Excluded(b)
        BY <2>1 DEF Crash, Excluded
      <3>2. QED
        BY <3>1, FewerExclusions
    <2>2. CASE ~Crash
      <3>1. UNCHANGED exclusions
        BY <1>3, <2>2 DEF Lifecycle, Restore, RestoreFails
      <3>2. QED
        BY <3>1, SameExclusions
    <2>3. QED
      BY <2>1, <2>2
  <1>4. CASE UNCHANGED healthVars
    <2>1. UNCHANGED exclusions
      BY <1>4 DEF healthVars
    <2>2. QED
      BY <2>1, SameExclusions
  <1>5. QED
    BY <1>1, <1>2, <1>3, <1>4 DEF HealthNext

LEMMA InitRoom == HealthInit => RoomKept
  <1> SUFFICES ASSUME HealthInit, NEW a \in Auths
               PROVE  /\ IsFiniteSet(Excluded(a))
                      /\ Cardinality(Excluded(a)) <= MaxModelExclusions
    BY DEF RoomKept
  <1>1. Excluded(a) = {}
    BY DEF HealthInit, Excluded
  <1>2. QED
    BY <1>1, FS_EmptySet, HealthAssumption

(* However many models upstream refuses, whatever the table writes do and  *)
(* however the process restarts, the registry keeps at most                *)
(* maxModelExclusionsPerAuth of them for a credential.                     *)
THEOREM ExclusionsBoundedHolds == HealthSpec => []ExclusionsBounded
  <1>1. RoomKept => ExclusionsBounded
    BY DEF RoomKept, ExclusionsBounded
  <1>2. QED
    BY <1>1, InitRoom, NextRoom, TypesHold, PTL DEF HealthSpec

-----------------------------------------------------------------------------
(* A request that fails over (Failover).                                      *)
Phases ==
  {"start", "select", "filter", "prepare", "send", "repair", "trust", "resend", "blame",
   "over", "cool", "wait", "refuse", "judge", "done"}

FailureKinds == CredentialKinds \cup {"none", "transient", "quota", "model"}

Failures  == [kind : FailureKinds, retryAt : Nat, explicit : BOOLEAN]
AuthFiles == [here : BOOLEAN, cred : Nat, disabled : BOOLEAN]
Codes     == {"answered", "model_not_found", "session_lost", "canceled", "auth_unavailable",
              "rate_limited", "upstream_unavailable"}
Outcomes  == [code : Codes \cup {"none"}, retryAt : Nat]

Requests ==
  [phase : Phases, round : Nat, attempted : Nat, tried : SUBSET Auths, allowed : SUBSET Auths,
   list : [Auths -> AuthFiles], auth : Auths \cup {NoAuth}, cred : Nat,
   failures : [Auths -> Failures], pending : Failures, next : {"", "select", "done", "refuse"},
   until : Nat, outcome : Outcomes]

(* The states of the registry carry tokens, which are numbers here.           *)
Memory ==
  [kind : HealthKinds \cup {"none"}, retryAt : Nat, authoritative : BOOLEAN, cred : Nat]

(* The phases in which an auth is selected.                                   *)
WithAuth == {"prepare", "send", "repair", "trust", "resend", "blame"}

(* The variables have their types, and what the request has in hand is what   *)
(* its phase needs.                                                           *)
RequestInv ==
  /\ request \in Requests
  /\ request.phase \in WithAuth <=> request.auth # NoAuth
  /\ At("blame") <=> request.next # ""
  /\ At("start") => request.tried = {}
  /\ ~Over => request.outcome.code = "none"
  /\ limits \in [retries : Nat, cap : Nat, wait : Nat, replayable : BOOLEAN]
  /\ file \in [Auths -> AuthFiles] /\ seen \in [Auths -> AuthFiles]
  /\ now \in Nat

MemoryTypes ==
  /\ states \in [Auths -> Memory]
  /\ exclusions \in [Auths -> [Models -> [cred : Nat, since : Nat]]]

-----------------------------------------------------------------------------
(* What each constructor makes of a request.                                  *)

LEMMA FailoverNumbers ==
  /\ NoAuth \notin Auths /\ NoCred = 0 /\ Creds \subseteq Nat /\ Cooldown \in Nat /\ Hints \subseteq Nat
  BY FailoverAssumption

LEMMA FreshFields ==
  /\ Fresh \in Requests /\ Fresh.phase = "start" /\ Fresh.tried = {} /\ Fresh.auth = NoAuth
  /\ Fresh.next = "" /\ Fresh.outcome.code = "none" /\ Fresh.round = 0 /\ Fresh.attempted = 0
  /\ NoFailure \in Failures /\ NoList \in [Auths -> AuthFiles]
  <1>1. NoFailure \in Failures
    BY DEF NoFailure, Failures, FailureKinds
  <1>2. NoList \in [Auths -> AuthFiles]
    BY FailoverNumbers DEF NoList, AuthFiles
  <1>3. [code |-> "none", retryAt |-> 0] \in Outcomes
    BY DEF Outcomes
  <1>4. Fresh \in Requests
    BY <1>1, <1>2, <1>3, FailoverNumbers DEF Fresh, Requests, Phases
  <1>5. QED
    BY <1>1, <1>2, <1>4 DEF Fresh

LEMMA RequestFields ==
  ASSUME NEW r \in Requests
  PROVE  /\ r.phase \in Phases /\ r.round \in Nat /\ r.attempted \in Nat
         /\ r.tried \subseteq Auths /\ r.allowed \subseteq Auths
         /\ r.list \in [Auths -> AuthFiles] /\ r.auth \in Auths \cup {NoAuth} /\ r.cred \in Nat
         /\ r.failures \in [Auths -> Failures] /\ r.pending \in Failures
         /\ r.next \in {"", "select", "done", "refuse"} /\ r.until \in Nat /\ r.outcome \in Outcomes
  BY DEF Requests

LEMMA BlamingFields ==
  ASSUME NEW r \in Requests, NEW f \in Failures, NEW next \in {"select", "done", "refuse"}
  PROVE  LET b == Blaming(r, f, next) IN
         /\ b \in Requests /\ b.phase = "blame" /\ b.next = next /\ b.pending = f
         /\ b.allowed = r.allowed /\ b.tried = r.tried /\ b.attempted = r.attempted
         /\ b.round = r.round /\ b.auth = r.auth /\ b.cred = r.cred /\ b.outcome = r.outcome
  <1>1. "blame" \in Phases
    BY DEF Phases
  <1>2. QED
    BY <1>1 DEF Blaming, Requests

(* The failures an attempt or a refresh meets.                                *)
LEMMA FailureTypes ==
  ASSUME now \in Nat
  PROVE  /\ Network \in Failures /\ RefreshFailures \subseteq Failures /\ Refusals \subseteq Failures
         /\ Fault("credential_invalid", 0) \in Failures /\ Fault("unauthorized", 0) \in Failures
  <1>1. ASSUME NEW kind \in FailureKinds, NEW t \in Nat
        PROVE  Fault(kind, t) \in Failures
    BY <1>1 DEF Fault, NoFailure, Failures
  <1>2. /\ "transient" \in FailureKinds /\ "invalid_grant" \in FailureKinds
        /\ "credential_invalid" \in FailureKinds /\ "unauthorized" \in FailureKinds
        /\ "quota" \in FailureKinds /\ "model" \in FailureKinds
    BY DEF FailureKinds, CredentialKinds
  <1>3. now + Cooldown \in Nat /\ Announced \subseteq Nat
    BY FailoverNumbers DEF Announced
  <1>4. \A t \in Announced : [kind |-> "quota", retryAt |-> t, explicit |-> TRUE] \in Failures
    BY <1>2, <1>3 DEF Failures
  <1>5. QED
    BY <1>1, <1>2, <1>3, <1>4 DEF Network, RefreshFailures, Refusals

-----------------------------------------------------------------------------
(* What the steps make of the request.                                        *)

(* It goes on to a phase with what it has tried and may use.                  *)
GoesTo(phase) ==
  /\ request' \in Requests /\ request'.phase = phase
  /\ request'.round = request.round /\ request'.attempted = request.attempted
  /\ request'.tried = request.tried /\ request'.allowed = request.allowed
  /\ request'.outcome = request.outcome
  /\ request'.auth = IF phase \in WithAuth THEN request.auth ELSE NoAuth
  /\ phase # "blame" => request'.next = ""

EndsWith(code) ==
  /\ request' \in Requests /\ request'.phase = "done"
  /\ request'.round = 0 /\ request'.attempted = 0 /\ request'.tried = {}
  /\ request'.allowed = request.allowed /\ request'.outcome.code = code
  /\ request'.auth = NoAuth /\ request'.next = ""

Takes(a) ==
  /\ request' \in Requests /\ request'.phase = "prepare" /\ a \in Auths /\ request'.auth = a
  /\ request'.tried = request.tried \cup {a} /\ request'.attempted = request.attempted + 1
  /\ request'.round = request.round /\ request'.allowed = request.allowed
  /\ request'.outcome = request.outcome /\ request'.next = ""

(* A credential is blamed, and the request goes on after that.                *)
Blames(next) == GoesTo("blame") /\ request'.next = next

LEMMA EndsByOutcome ==
  ASSUME NEW r \in Requests, r.allowed = request.allowed, NEW t \in Nat, NEW code \in Codes,
         request' = Outcome(r, code, t)
  PROVE  EndsWith(code)
  <1>1. [code |-> code, retryAt |-> t] \in Outcomes
    BY DEF Outcomes
  <1>2. r.allowed \subseteq Auths
    BY RequestFields
  <1>3. request' = [Fresh EXCEPT !.phase = "done", !.allowed = r.allowed,
                                 !.outcome = [code |-> code, retryAt |-> t]]
    BY DEF Outcome
  <1>4. Fresh \in Requests /\ "done" \in Phases
    BY FreshFields DEF Phases
  <1>5. request' \in Requests
    BY <1>1, <1>2, <1>3, <1>4, ZenonT(30) DEF Requests
  <1>6. /\ request'.phase = "done" /\ request'.allowed = request.allowed
        /\ request'.tried = {} /\ request'.attempted = 0 /\ request'.round = 0
        /\ request'.auth = NoAuth /\ request'.next = ""
    BY DEF Outcome, Fresh
  <1>7. request'.outcome.code = code
    BY DEF Outcome, Fresh
  <1>8. QED
    BY <1>5, <1>6, <1>7 DEF EndsWith

LEMMA BlamesByFailure ==
  ASSUME RequestInv, request.phase \in WithAuth, NEW f \in Failures,
         NEW next \in {"select", "done", "refuse"}, request' = Blaming(request, f, next)
  PROVE  Blames(next)
  <1>1. request \in Requests
    BY DEF RequestInv
  <1>2. LET b == Blaming(request, f, next) IN
        /\ b \in Requests /\ b.phase = "blame" /\ b.next = next
        /\ b.allowed = request.allowed /\ b.tried = request.tried
        /\ b.attempted = request.attempted /\ b.round = request.round
        /\ b.auth = request.auth /\ b.outcome = request.outcome
    BY <1>1, BlamingFields, SMTT(30)
  <1>3. QED
    BY <1>2 DEF Blames, GoesTo, WithAuth

LEMMA StartOp ==
  ASSUME RequestInv, Start
  PROVE  /\ request.phase = "start" /\ UNCHANGED <<limits, file>> /\ seen' = file
         /\ \/ EndsWith("model_not_found")
            \/ /\ request' \in Requests /\ request'.phase = "select"
               /\ request'.round = request.round /\ request'.attempted = request.attempted
               /\ request'.tried = request.tried /\ request'.outcome = request.outcome
               /\ request'.auth = NoAuth /\ request'.next = ""
  <1>1. request.phase = "start" /\ UNCHANGED <<limits, file>> /\ seen' = file
    BY DEF Start, At, ReconcileAuths
  <1>2. request.auth = NoAuth /\ request.next = ""
    BY <1>1 DEF RequestInv, WithAuth, At
  <1>3. ASSUME NEW allowed \in SUBSET Auths,
               request' = [request EXCEPT !.phase = "select", !.allowed = allowed]
        PROVE  /\ request' \in Requests /\ request'.phase = "select"
               /\ request'.round = request.round /\ request'.attempted = request.attempted
               /\ request'.tried = request.tried /\ request'.outcome = request.outcome
               /\ request'.auth = NoAuth /\ request'.next = ""
    BY <1>2, <1>3 DEF RequestInv, Requests, Phases
  <1>4. ASSUME request' = Outcome(request, "model_not_found", 0)
        PROVE  EndsWith("model_not_found")
    BY <1>4, EndsByOutcome DEF Codes, RequestInv
  <1>5. Present \subseteq Auths /\ Active \subseteq Auths
    BY DEF Present, Active
  <1>6. QED
    BY <1>1, <1>3, <1>4, <1>5 DEF Start, Become

LEMMA ListOp ==
  ASSUME RequestInv, NEW phase \in Phases, NEW next \in Phases, phase # "blame", next # "blame",
         phase \notin WithAuth, next \notin WithAuth, List(phase, next)
  PROVE  /\ request.phase = phase /\ GoesTo(next) /\ request'.list = file
         /\ UNCHANGED <<limits, file, sent, resent, stolen>> /\ seen' = file
  <1>1. request' = [request EXCEPT !.phase = next, !.list = file] /\ request.phase = phase
    BY DEF List, Become, At
  <1>2. request.auth = NoAuth /\ request.next = ""
    BY <1>1 DEF RequestInv, At
  <1>3. GoesTo(next) /\ request'.list = file
    BY <1>1, <1>2 DEF RequestInv, Requests, GoesTo
  <1>4. QED
    BY <1>1, <1>3 DEF List, counts, ReconcileAuths

LEMMA SelectOp ==
  ASSUME RequestInv, Select
  PROVE  /\ request.phase = "filter"
         /\ UNCHANGED <<healthVars, file, seen, limits, sent, resent>>
         /\ \/ Eligible = {} /\ GoesTo("over") /\ stolen' = stolen
            \/ \E a \in Eligible : Takes(a) /\ stolen' = stolen
            \/ stolen' = TRUE /\ ((\E a \in Serving : Takes(a)) \/ EndsWith("session_lost"))
  <1>1. /\ request.phase = "filter"
        /\ UNCHANGED <<healthVars, file, seen, limits, sent, resent>>
    BY DEF Select, At
  <1>2. request.auth = NoAuth /\ request.next = ""
    BY <1>1 DEF RequestInv, WithAuth, At
  <1>3. ASSUME request' = [request EXCEPT !.phase = "over", !.list = NoList]
        PROVE  GoesTo("over")
    BY <1>2, <1>3, FreshFields DEF RequestInv, Requests, Phases, GoesTo, WithAuth
  <1>4. ASSUME NEW a \in Auths, request' = Selected(a)
        PROVE  Takes(a)
    <2>1. request.list[a].cred \in Nat
      BY DEF RequestInv, Requests, AuthFiles
    <2>2. Selected(a) \in Requests
      <3>1. "prepare" \in Phases /\ request.attempted + 1 \in Nat /\ request \in Requests
        <4>1. request \in Requests
          BY DEF RequestInv
        <4>2. request.attempted \in Nat
          BY <4>1, RequestFields
        <4>3. QED
          BY <4>1, <4>2 DEF Phases
      <3>2. request.tried \cup {a} \subseteq Auths
        BY <3>1 DEF Requests
      <3>3. QED
        BY <2>1, <3>1, <3>2, FreshFields DEF Selected, Requests
    <2>3. QED
      BY <1>2, <1>4, <2>2 DEF Selected, RequestInv, Requests, Takes
  <1>5. Serving \subseteq Auths /\ Eligible \subseteq Auths
    BY DEF Serving, Eligible, Listed
  <1>6. ASSUME request' = Outcome(request, "session_lost", 0)
        PROVE  EndsWith("session_lost")
    BY <1>6, EndsByOutcome DEF Codes, RequestInv
  <1>7. \/ Eligible = {} /\ GoesTo("over") /\ stolen' = stolen
        \/ \E a \in Eligible : Takes(a) /\ stolen' = stolen
        \/ stolen' = TRUE /\ ((\E a \in Serving : Takes(a)) \/ EndsWith("session_lost"))
    BY <1>3, <1>4, <1>5, <1>6 DEF Select, Become
  <1>8. QED
    BY <1>1, <1>7

LEMMA RefreshOp ==
  ASSUME RequestInv, request.phase \in {"prepare", "repair"},
         NEW next \in {"send", "trust"}, Refresh(next)
  PROVE  /\ GoesTo(next) \/ Blames("select")
         /\ UNCHANGED <<healthVars, limits, sent, resent, stolen>>
         /\ file' \in [Auths -> AuthFiles] /\ seen' = file
         /\ \A a \in Auths : file'[a].here = file[a].here /\ file'[a].disabled = file[a].disabled
         /\ request'.auth = request.auth
  <1>1. request \in Requests /\ request.auth \in Auths /\ request.phase \in WithAuth /\ request.next = ""
    BY DEF RequestInv, Requests, WithAuth, At
  <1>2. /\ file \in [Auths -> AuthFiles] /\ file[request.auth].cred \in Nat /\ now \in Nat
    BY <1>1 DEF RequestInv, AuthFiles
  <1>3. ASSUME NEW cred \in Nat, request' = [request EXCEPT !.phase = next, !.cred = cred]
        PROVE  GoesTo(next)
    BY <1>1, <1>3 DEF Requests, Phases, GoesTo, WithAuth
  <1>4. ASSUME NEW f \in RefreshFailures \cup {Fault("credential_invalid", 0)},
               request' = Blaming(request, f, "select")
        PROVE  Blames("select")
    BY <1>1, <1>2, <1>4, FailureTypes, BlamesByFailure
  <1>5. GoesTo(next) \/ Blames("select")
    <2>1. \/ request' = [request EXCEPT !.phase = next, !.cred = file[request.auth].cred]
          \/ request' = [request EXCEPT !.phase = next, !.cred = file[request.auth].cred + 1]
          \/ \E f \in RefreshFailures \cup {Fault("credential_invalid", 0)} :
               request' = Blaming(request, f, "select")
      BY DEF Refresh, Become
    <2>2. file[request.auth].cred + 1 \in Nat
      BY <1>2
    <2>3. QED
      BY <1>2, <1>3, <1>4, <2>1, <2>2
  <1>6. file' = file \/ (file' = [file EXCEPT ![request.auth].cred = file[request.auth].cred + 1])
    BY DEF Refresh
  <1>7. /\ file' \in [Auths -> AuthFiles]
        /\ \A a \in Auths : file'[a].here = file[a].here /\ file'[a].disabled = file[a].disabled
    <2>1. file[request.auth] \in AuthFiles
      BY <1>1, <1>2
    <2>0. file[request.auth].cred + 1 \in Nat
      BY <1>2
    <2>2. [file[request.auth] EXCEPT !.cred = file[request.auth].cred + 1] \in AuthFiles
      BY <2>1, <2>0 DEF AuthFiles
    <2>3. file' = file
          \/ file' = [file EXCEPT ![request.auth] =
                        [file[request.auth] EXCEPT !.cred = file[request.auth].cred + 1]]
      BY <1>1, <1>2, <1>6
    <2>4. QED
      BY <1>1, <1>2, <2>1, <2>2, <2>3, ZenonT(90) DEF AuthFiles
  <1>8. request'.auth = request.auth
    BY <1>1, <1>5 DEF GoesTo, Blames, WithAuth
  <1>9. QED
    BY <1>5, <1>7, <1>8 DEF Refresh, counts, ScanOnly

LEMMA PrepareOp ==
  ASSUME RequestInv, Prepare
  PROVE  /\ request.phase = "prepare"
         /\ GoesTo("send") \/ Blames("select")
         /\ UNCHANGED <<healthVars, limits, sent, resent, stolen>>
         /\ file' \in [Auths -> AuthFiles] /\ seen' \in [Auths -> AuthFiles]
         /\ \A a \in Auths : file'[a].here = file[a].here /\ file'[a].disabled = file[a].disabled
         /\ request'.auth = request.auth
  <1>1. request.phase = "prepare" /\ request \in Requests /\ request.next = ""
        /\ file \in [Auths -> AuthFiles] /\ seen \in [Auths -> AuthFiles]
    BY DEF Prepare, RequestInv, At
  <1>2. CASE Refresh("send")
    BY <1>1, <1>2, RefreshOp
  <1>3. CASE request' = [request EXCEPT !.phase = "send"]
             /\ UNCHANGED <<healthVars, file, seen, limits, left, counts>>
    <2>1. GoesTo("send") /\ request'.auth = request.auth
      BY <1>1, <1>3 DEF Requests, Phases, GoesTo, WithAuth
    <2>2. QED
      BY <1>1, <1>3, <2>1 DEF counts
  <1>4. QED
    BY <1>2, <1>3 DEF Prepare, Become

LEMMA RepairOp ==
  ASSUME RequestInv, Repair
  PROVE  /\ request.phase = "repair"
         /\ GoesTo("trust") \/ Blames("select")
         /\ UNCHANGED <<healthVars, limits, sent, resent, stolen>>
         /\ file' \in [Auths -> AuthFiles] /\ seen' \in [Auths -> AuthFiles]
         /\ \A a \in Auths : file'[a].here = file[a].here /\ file'[a].disabled = file[a].disabled
         /\ request'.auth = request.auth
  <1>1. request.phase = "repair" /\ Refresh("trust") /\ file \in [Auths -> AuthFiles]
    BY DEF Repair, At, RequestInv
  <1>2. QED
    BY <1>1, RefreshOp

LEMMA AttemptOp ==
  ASSUME RequestInv, Attempt
  PROVE  /\ request.phase \in {"send", "resend"} /\ request.auth \in Auths
         /\ UNCHANGED <<file, seen, limits, stolen>>
         /\ Counted
         /\ \/ EndsWith("answered")
            \/ request.phase = "send" /\ limits.replayable /\ GoesTo("repair")
            \/ \E next \in {"select", "done", "refuse"} :
                 /\ Blames(next)
                 /\ ~limits.replayable => next # "select" \/ request.phase = "resend"
                 /\ limits.replayable => next = "select"
         /\ \/ MarkHealthy(request.auth, Model, TRUE) /\ EndsWith("answered")
            \/ UNCHANGED healthVars
  <1>1. /\ request.phase \in {"send", "resend"} /\ Counted /\ UNCHANGED <<file, seen, limits, stolen>>
    BY DEF Attempt, At, Counted
  <1>2. /\ request \in Requests /\ request.auth \in Auths /\ request.phase \in WithAuth
        /\ request.next = "" /\ now \in Nat
    BY <1>1 DEF RequestInv, Requests, WithAuth, At
  <1>3. ASSUME request' = [request EXCEPT !.phase = "repair"]
        PROVE  GoesTo("repair")
    BY <1>2, <1>3 DEF Requests, Phases, GoesTo, WithAuth
  <1>4. ASSUME request' = Outcome(request, "answered", 0)
        PROVE  EndsWith("answered")
    BY <1>2, <1>4, EndsByOutcome DEF Codes
  <1>5. ASSUME NEW f \in Refusals \cup {Network, Fault("credential_invalid", 0), Fault("unauthorized", 0)},
               NEW next \in {"select", "done", "refuse"}, request' = Blaming(request, f, next)
        PROVE  Blames(next)
    BY <1>2, <1>5, FailureTypes, BlamesByFailure
  <1>6. \/ EndsWith("answered")
        \/ request.phase = "send" /\ limits.replayable /\ GoesTo("repair")
        \/ \E next \in {"select", "done", "refuse"} :
             /\ Blames(next)
             /\ ~limits.replayable => next # "select" \/ request.phase = "resend"
             /\ limits.replayable => next = "select"
    <2>1. CASE request' = Outcome(request, "answered", 0)
      BY <1>4, <2>1
    <2>2. CASE At("send") /\ limits.replayable /\ request' = [request EXCEPT !.phase = "repair"]
      BY <1>3, <2>2 DEF At
    <2>3. CASE ~limits.replayable /\ request' = Blaming(request, Fault("credential_invalid", 0), "done")
      BY <1>5, <2>3
    <2>4. CASE At("resend") /\ request' = Blaming(request, Fault("unauthorized", 0), "select")
      BY <1>5, <2>4 DEF At
    <2>5. CASE \E f \in Refusals :
                 request' = Blaming(request, f, IF limits.replayable THEN "select" ELSE "done")
      BY <1>5, <2>5
    <2>6. CASE request' = Blaming(request, Network, IF limits.replayable THEN "select" ELSE "refuse")
      BY <1>5, <2>6
    <2>7. QED
      BY <2>1, <2>2, <2>3, <2>4, <2>5, <2>6 DEF Attempt, Become
  <1>7. \/ MarkHealthy(request.auth, Model, TRUE) /\ EndsWith("answered")
        \/ UNCHANGED healthVars
    BY <1>4 DEF Attempt, Become
  <1>8. QED
    BY <1>1, <1>2, <1>6, <1>7

LEMMA TrustOp ==
  ASSUME RequestInv, Trust
  PROVE  /\ request.phase = "trust" /\ GoesTo("resend") /\ request'.auth = request.auth
         /\ UNCHANGED <<file, seen, limits, sent, resent, stolen>>
  <1>1. request.phase = "trust" /\ request' = [request EXCEPT !.phase = "resend"]
        /\ UNCHANGED <<file, seen, limits, sent, resent, stolen>>
    BY DEF Trust, At, Become, counts
  <1>2. request \in Requests /\ request.next = ""
    BY <1>1 DEF RequestInv, At
  <1>3. QED
    BY <1>1, <1>2 DEF Requests, Phases, GoesTo, WithAuth

LEMMA BlameOp ==
  ASSUME RequestInv, Blame
  PROVE  /\ request.phase = "blame" /\ request.auth \in Auths
         /\ request.next \in {"select", "done", "refuse"}
         /\ UNCHANGED <<file, seen, limits, sent, resent, stolen>>
         /\ MarkFailure(request.auth, request.cred, request.pending)
         /\ IF request.next = "done" THEN EndsWith("answered") ELSE GoesTo(request.next)
  <1> DEFINE r == [request EXCEPT !.failures[request.auth] = request.pending, !.pending = NoFailure,
                                  !.next = "", !.auth = NoAuth, !.cred = NoCred]
  <1>1. /\ request.phase = "blame" /\ request \in Requests /\ request.auth \in Auths
        /\ request.next \in {"select", "done", "refuse"}
    BY DEF Blame, At, RequestInv, Requests, WithAuth
  <1>2. /\ UNCHANGED <<file, seen, limits, sent, resent, stolen>>
        /\ MarkFailure(request.auth, request.cred, request.pending)
        /\ request' = IF request.next = "done" THEN Outcome(r, "answered", 0)
                      ELSE [r EXCEPT !.phase = request.next]
    BY DEF Blame, counts, Become
  <1>3. /\ r \in Requests /\ r.round = request.round /\ r.attempted = request.attempted
        /\ r.tried = request.tried /\ r.allowed = request.allowed /\ r.outcome = request.outcome
        /\ r.auth = NoAuth /\ r.next = ""
    <2>1. [request.failures EXCEPT ![request.auth] = request.pending] \in [Auths -> Failures]
      BY <1>1 DEF Requests
    <2>2. r = [request EXCEPT !.failures = [request.failures EXCEPT ![request.auth] = request.pending],
                              !.pending = NoFailure, !.next = "", !.auth = NoAuth, !.cred = NoCred]
      BY <1>1 DEF Requests
    <2>3. QED
      BY <1>1, <2>1, <2>2, FreshFields, FailoverNumbers DEF Requests
  <1>4. CASE request.next = "done"
    BY <1>1, <1>2, <1>3, <1>4, EndsByOutcome DEF Codes
  <1>5. CASE request.next # "done"
    <2>1. request.next \in Phases /\ request.next \notin WithAuth /\ request.next # "blame"
      BY <1>1, <1>5 DEF Phases, WithAuth
    <2>2. request' = [r EXCEPT !.phase = request.next]
      BY <1>2, <1>5
    <2>3. GoesTo(request.next)
      BY <1>3, <2>1, <2>2 DEF Requests, GoesTo
    <2>4. QED
      BY <1>1, <1>2, <1>5, <2>3
  <1>6. QED
    BY <1>4, <1>5, <1>1, <1>2

-----------------------------------------------------------------------------
(* Every set of deadlines has an earliest one.                                *)
LEMMA EarliestIsIn ==
  ASSUME NEW S \in SUBSET Nat, S # {}
  PROVE  /\ Earliest(S) \in S /\ Earliest(S) \in Nat
         /\ \A t \in S : Earliest(S) <= t
  <1>1. PICK x \in S : \A y \in S : ~(<<y, x>> \in OpToRel(<, Nat))
    BY NatLessThanWellFounded, WFMin
  <1>2. \A y \in S : ~(y < x)
    BY <1>1 DEF OpToRel
  <1>3. \A y \in S : x <= y
    BY <1>2
  <1>4. QED
    BY <1>3 DEF Earliest

LEMMA DeadlinesAreNumbers ==
  ASSUME RequestInv, MemoryTypes
  PROVE  Deadline \subseteq Nat /\ Recoveries \subseteq Nat
  <1>1. /\ request.failures \in [Auths -> Failures] /\ now \in Nat /\ states \in [Auths -> Memory]
    BY RequestFields DEF RequestInv, MemoryTypes
  <1>2. \A a \in Auths : request.failures[a].retryAt \in Nat /\ states[a].retryAt \in Nat
    BY <1>1 DEF Failures, Memory
  <1>3. Serving \subseteq Auths /\ Listed \subseteq Auths
    BY DEF Serving, Listed
  <1>4. Deadline \subseteq Nat
    BY <1>1, <1>2, <1>3 DEF Deadline, Later
  <1>5. \A a \in OfKind({"quota"}) : a \in Auths
    BY <1>3 DEF OfKind, Candidates
  <1>6. Recoveries \subseteq Nat
    BY <1>2, <1>5 DEF Recoveries, BackAt
  <1>7. QED
    BY <1>4, <1>6

(* The steps between two rounds and to the end.                               *)
LEMMA AwaitCooldownOp ==
  ASSUME RequestInv, MemoryTypes, AwaitCooldown
  PROVE  /\ request.phase = "cool"
         /\ GoesTo("wait") \/ GoesTo("refuse")
         /\ UNCHANGED <<healthVars, file, seen, limits, sent, resent, stolen>>
  <1> DEFINE r == [request EXCEPT !.list = NoList]
  <1>1. /\ request.phase = "cool" /\ UNCHANGED <<healthVars, file, seen, limits, sent, resent, stolen>>
        /\ \/ Deadline # {} /\ request' = [r EXCEPT !.phase = "wait", !.until = Earliest(Deadline)]
           \/ request' = [r EXCEPT !.phase = "refuse"]
    BY DEF AwaitCooldown, At, Become, counts
  <1>2. request \in Requests /\ request.next = "" /\ request.auth = NoAuth
    BY <1>1 DEF RequestInv, At, WithAuth
  <1>3. /\ r \in Requests /\ r.round = request.round /\ r.attempted = request.attempted
        /\ r.tried = request.tried /\ r.allowed = request.allowed /\ r.outcome = request.outcome
        /\ r.auth = NoAuth /\ r.next = ""
    BY <1>2, FreshFields DEF Requests
  <1>4. ASSUME Deadline # {}, request' = [r EXCEPT !.phase = "wait", !.until = Earliest(Deadline)]
        PROVE  GoesTo("wait")
    <2>1. Earliest(Deadline) \in Nat
      BY <1>4, DeadlinesAreNumbers, EarliestIsIn
    <2>2. QED
      BY <1>3, <1>4, <2>1, ZenonT(30) DEF Requests, Phases, GoesTo, WithAuth
  <1>5. ASSUME request' = [r EXCEPT !.phase = "refuse"]
        PROVE  GoesTo("refuse")
    BY <1>3, <1>5, ZenonT(30) DEF Requests, Phases, GoesTo, WithAuth
  <1>6. QED
    BY <1>1, <1>4, <1>5

LEMMA RefuseOp ==
  ASSUME RequestInv, MemoryTypes, Refuse
  PROVE  /\ request.phase = "judge" /\ \E code \in Codes : EndsWith(code)
         /\ UNCHANGED <<healthVars, file, seen, limits, sent, resent, stolen>>
  <1>1. /\ request.phase = "judge" /\ request' = FinalError
        /\ UNCHANGED <<healthVars, file, seen, limits, sent, resent, stolen>>
    BY DEF Refuse, At, Become, counts
  <1>2. Recoveries # {} => Earliest(Recoveries) \in Nat
    BY DeadlinesAreNumbers, EarliestIsIn
  <1>3. \E code \in Codes, t \in Nat : FinalError = Outcome(request, code, t)
    BY <1>2 DEF FinalError, Codes
  <1>4. request \in Requests
    BY DEF RequestInv
  <1>5. QED
    BY <1>1, <1>3, <1>4, EndsByOutcome

LEMMA NewRoundOp ==
  ASSUME RequestInv, NewRound
  PROVE  /\ request.phase = "wait" /\ request'.phase = "select" /\ request' \in Requests
         /\ request'.round = request.round + 1 /\ request'.tried = {} /\ request'.attempted = 0
         /\ request'.allowed = request.allowed /\ request'.outcome = request.outcome
         /\ request'.auth = NoAuth /\ request'.next = ""
         /\ sent' = [a \in Auths |-> 0] /\ resent' = [a \in Auths |-> 0] /\ stolen' = FALSE
         /\ UNCHANGED <<healthVars, file, seen, limits>>
  <1>1. request.phase = "wait" /\ request \in Requests /\ request.auth = NoAuth /\ request.next = ""
    BY DEF NewRound, RequestInv, At, WithAuth
  <1>2. request' = [request EXCEPT !.phase = "select", !.round = request.round + 1, !.until = 0,
                                   !.tried = {}, !.attempted = 0]
    BY DEF NewRound, Become, NextRound
  <1>3. request.round + 1 \in Nat
    <2>1. request.round \in Nat
      BY <1>1, RequestFields
    <2>2. QED
      BY <2>1
  <1>4. QED
    BY <1>1, <1>2, <1>3 DEF NewRound, Requests, Phases

LEMMA CancelOp ==
  ASSUME RequestInv, Cancel
  PROVE  EndsWith("canceled") /\ UNCHANGED <<healthVars, file, seen, limits, sent, resent, stolen>>
  <1>1. request \in Requests /\ request' = Outcome(request, "canceled", 0)
    BY DEF RequestInv, Cancel, Become
  <1>2. QED
    BY <1>1, EndsByOutcome DEF Codes, Cancel, counts

LEMMA PassOp ==
  ASSUME RequestInv, RoundFull \/ LastRound
  PROVE  /\ \/ request.phase = "select" /\ CapReached /\ GoesTo("over")
            \/ request.phase = "over" /\ ~MayRetry /\ GoesTo("refuse")
         /\ UNCHANGED <<healthVars, file, seen, limits, sent, resent, stolen>>
  <1>1. request \in Requests /\ (At("select") \/ At("over") => request.auth = NoAuth /\ request.next = "")
    BY DEF RequestInv, At, WithAuth
  <1>2. CASE RoundFull
    BY <1>1, <1>2 DEF RoundFull, Become, At, Requests, Phases, GoesTo, WithAuth, counts
  <1>3. CASE LastRound
    BY <1>1, <1>3 DEF LastRound, Become, At, Requests, Phases, GoesTo, WithAuth, counts
  <1>4. QED
    BY <1>2, <1>3

(* What others do leaves the request alone.                                   *)
LEMMA OthersOp ==
  ASSUME RequestInv, Others \/ TimePasses
  PROVE  /\ UNCHANGED <<request, limits, sent, resent, stolen>> /\ ~Over
         /\ file' \in [Auths -> AuthFiles] /\ seen' \in [Auths -> AuthFiles] /\ now' \in Nat
         /\ \/ UNCHANGED file \/ UNCHANGED <<healthVars, seen>>
  <1>0. file \in [Auths -> AuthFiles] /\ seen \in [Auths -> AuthFiles] /\ now \in Nat
    BY DEF RequestInv
  <1>1. ASSUME OthersScan
        PROVE  /\ UNCHANGED <<request, limits, sent, resent, stolen>> /\ ~Over
               /\ UNCHANGED <<file, now>> /\ seen' = file
    <2>1. UNCHANGED <<file, limits, request, counts>> /\ ~Over
      BY <1>1 DEF OthersScan
    <2>2. seen' = file /\ UNCHANGED now
      <3>1. CASE ReconcileAuths
        <4>1. ASSUME NEW change, NEW creds, NEW done, NEW pruned, Reconcile(change, creds, done, pruned)
              PROVE  UNCHANGED now
          BY <4>1 DEF Reconcile
        <4>2. QED
          BY <3>1, <4>1 DEF ReconcileAuths
      <3>2. CASE ScanOnly /\ UNCHANGED healthVars
        BY <3>2 DEF ScanOnly, healthVars
      <3>3. QED
        BY <1>1, <3>1, <3>2 DEF OthersScan
    <2>3. QED
      BY <1>0, <2>1, <2>2 DEF counts
  <1>2. ASSUME NEW a \in Auths, ChangeFile(a)
        PROVE  /\ UNCHANGED <<request, limits, sent, resent, stolen>> /\ ~Over
               /\ file' \in [Auths -> AuthFiles] /\ UNCHANGED <<healthVars, seen>>
    <2>1. file[a] \in AuthFiles
      BY <1>0
    <2>2. file[a].cred + 1 \in Nat
      BY <2>1 DEF AuthFiles
    <2>3. \E entry \in AuthFiles : file' = [file EXCEPT ![a] = entry]
      <3>1. [file[a] EXCEPT !.here = ~file[a].here] \in AuthFiles
        BY <2>1 DEF AuthFiles
      <3>2. [file[a] EXCEPT !.disabled = ~file[a].disabled] \in AuthFiles
        BY <2>1 DEF AuthFiles
      <3>3. [file[a] EXCEPT !.here = TRUE, !.cred = file[a].cred + 1] \in AuthFiles
        BY <2>1, <2>2 DEF AuthFiles
      <3>4. \/ file' = [file EXCEPT ![a] = [file[a] EXCEPT !.here = ~file[a].here]]
            \/ file' = [file EXCEPT ![a] = [file[a] EXCEPT !.disabled = ~file[a].disabled]]
            \/ file' = [file EXCEPT ![a] = [file[a] EXCEPT !.here = TRUE, !.cred = file[a].cred + 1]]
        BY <1>0, <1>2 DEF ChangeFile
      <3>5. QED
        BY <3>1, <3>2, <3>3, <3>4
    <2>4. QED
      BY <1>0, <1>2, <2>3 DEF ChangeFile, Disturb, counts
  <1>3. ASSUME NEW a \in Auths, OthersReport(a)
        PROVE  /\ UNCHANGED <<request, limits, sent, resent, stolen>> /\ ~Over
               /\ UNCHANGED <<file, seen, now>>
    BY <1>3 DEF OthersReport, Disturb, counts, MarkHealthy, MarkUnavailable
  <1>4. ASSUME TimePasses
        PROVE  /\ UNCHANGED <<request, limits, sent, resent, stolen>> /\ ~Over
               /\ UNCHANGED <<file, seen>> /\ now' \in Nat
    <2>1. UNCHANGED <<file, seen, limits, request, counts>> /\ Tick
      BY <1>4 DEF TimePasses
    <2>2. ~Over
      BY <1>4 DEF TimePasses, At, Over
    <2>3. now' \in Nat
      BY <1>0, <2>1 DEF Tick
    <2>4. QED
      BY <2>1, <2>2, <2>3 DEF counts
  <1>5. CASE OthersScan
    BY <1>0, <1>1, <1>5
  <1>6. CASE TimePasses
    BY <1>0, <1>4, <1>6
  <1>7. CASE \E a \in Auths : ChangeFile(a) \/ OthersReport(a)
    <2>1. PICK a \in Auths : ChangeFile(a) \/ OthersReport(a)
      BY <1>7
    <2>2. CASE ChangeFile(a)
      <3>1. now' = now
        BY <1>2, <2>2 DEF healthVars
      <3>2. seen' = seen
        BY <1>2, <2>2
      <3>3. QED
        BY <1>0, <1>2, <2>2, <3>1, <3>2
    <2>3. CASE OthersReport(a)
      BY <1>0, <1>3, <2>3
    <2>4. QED
      BY <2>1, <2>2, <2>3
  <1>8. QED
    BY <1>5, <1>6, <1>7 DEF Others

-----------------------------------------------------------------------------
(* The registry.                                                              *)

LEMMA EmptyMemory ==
  NoState \in Memory /\ NoExclusion \in [cred : Nat, since : Nat]
  BY FailoverNumbers DEF NoState, Memory, NoExclusion

LEMMA VerdictTypes ==
  ASSUME now \in Nat, NEW f \in Failures, f.kind # "model", NEW cred \in Nat
  PROVE  Verdict(f, cred) \in Memory
  <1>1. f.kind \in HealthKinds \cup {"none"} /\ f.retryAt \in Nat /\ f.explicit \in BOOLEAN
    BY DEF Failures, FailureKinds, HealthKinds, PersistedKinds, CredentialKinds
  <1>2. now + Cooldown \in Nat
    BY FailoverNumbers
  <1>3. (IF f.kind \in {"quota", "transient"} /\ f.retryAt = 0 THEN now + Cooldown ELSE f.retryAt) \in Nat
    BY <1>1, <1>2
  <1>4. (IF f.kind \in CredentialKinds THEN cred ELSE NoCred) \in Nat
    BY FailoverNumbers
  <1>5. QED
    BY <1>1, <1>3, <1>4 DEF Verdict, Memory

LEMMA MarkUnavailableTypes ==
  ASSUME MemoryTypes, NEW a \in Auths, NEW s \in Memory, MarkUnavailable(a, s, TRUE)
  PROVE  MemoryTypes' /\ UNCHANGED <<now, exclusions>>
  <1>1. UNCHANGED <<now, exclusions>>
    BY DEF MarkUnavailable
  <1>2. states' = states \/ states' = [states EXCEPT ![a] = s]
    BY DEF MarkUnavailable
  <1>3. QED
    BY <1>1, <1>2 DEF MemoryTypes

LEMMA LiftedTypes ==
  ASSUME MemoryTypes, NEW a \in Auths
  PROVE  Lifted(states[a]) \in {states[a], NoState} /\ Lifted(states[a]) \in Memory
  BY EmptyMemory DEF Lifted, MemoryTypes

LEMMA MarkHealthyTypes ==
  ASSUME MemoryTypes, NEW a \in Auths, NEW m, MarkHealthy(a, m, TRUE)
  PROVE  MemoryTypes' /\ UNCHANGED now
  <1>1. UNCHANGED now
    BY DEF MarkHealthy
  <1>2. ~LiftFails(states[a], TRUE)
    BY DEF LiftFails
  <1>3. states' = [states EXCEPT ![a] = Lifted(states[a])]
    BY <1>2 DEF MarkHealthy, MemoryTypes
  <1>4. exclusions' = [exclusions EXCEPT ![a] =
          [n \in Models |-> IF n = m THEN NoExclusion ELSE exclusions[a][n]]]
    BY <1>2 DEF MarkHealthy, MemoryTypes
  <1>5. states' \in [Auths -> Memory]
    BY <1>3, LiftedTypes DEF MemoryTypes
  <1>6. exclusions' \in [Auths -> [Models -> [cred : Nat, since : Nat]]]
    <2>1. \A n \in Models : exclusions[a][n] \in [cred : Nat, since : Nat]
      BY DEF MemoryTypes
    <2>2. [n \in Models |-> IF n = m THEN NoExclusion ELSE exclusions[a][n]]
            \in [Models -> [cred : Nat, since : Nat]]
      BY <2>1, EmptyMemory
    <2>3. QED
      BY <1>4, <2>2 DEF MemoryTypes
  <1>7. QED
    BY <1>1, <1>5, <1>6 DEF MemoryTypes

LEMMA MarkModelTypes ==
  ASSUME MemoryTypes, now \in Nat, NEW a \in Auths, NEW c \in Nat,
         MarkModelUnsupported(a, Model, c, TRUE)
  PROVE  MemoryTypes' /\ UNCHANGED now
  <1>1. UNCHANGED now
    BY DEF MarkModelUnsupported
  <1>2. ~LiftFails(states[a], TRUE)
    BY DEF LiftFails
  <1>3. states' = [states EXCEPT ![a] = Lifted(states[a])]
    BY <1>2 DEF MarkModelUnsupported, MemoryTypes
  <1>4. \E victims : exclusions' = [exclusions EXCEPT ![a] =
          [n \in Models |-> IF n = Model THEN [cred |-> c, since |-> now]
                            ELSE IF n \in victims THEN NoExclusion ELSE exclusions[a][n]]]
    BY <1>2 DEF MarkModelUnsupported, MemoryTypes
  <1>5. states' \in [Auths -> Memory]
    BY <1>3, LiftedTypes DEF MemoryTypes
  <1>6. exclusions' \in [Auths -> [Models -> [cred : Nat, since : Nat]]]
    <2>1. \A n \in Models : exclusions[a][n] \in [cred : Nat, since : Nat]
      BY DEF MemoryTypes
    <2>2. PICK victims : exclusions' = [exclusions EXCEPT ![a] =
            [n \in Models |-> IF n = Model THEN [cred |-> c, since |-> now]
                              ELSE IF n \in victims THEN NoExclusion ELSE exclusions[a][n]]]
      BY <1>4
    <2>3. [n \in Models |-> IF n = Model THEN [cred |-> c, since |-> now]
                            ELSE IF n \in victims THEN NoExclusion ELSE exclusions[a][n]]
            \in [Models -> [cred : Nat, since : Nat]]
      BY <2>1, EmptyMemory
    <2>4. QED
      BY <2>2, <2>3 DEF MemoryTypes
  <1>7. QED
    BY <1>1, <1>5, <1>6 DEF MemoryTypes

LEMMA MarkCredentialTypes ==
  ASSUME MemoryTypes, NEW a \in Auths, MarkCredentialHealthy(a, TRUE)
  PROVE  MemoryTypes' /\ UNCHANGED <<now, exclusions>>
  <1>1. UNCHANGED <<now, exclusions>> /\ states' = [states EXCEPT ![a] = NoState]
    BY DEF MarkCredentialHealthy
  <1>2. QED
    BY <1>1, EmptyMemory DEF MemoryTypes

(* A reconcile leaves a credential its verdict and its exclusions or takes    *)
(* them away, and it takes what the change of the credential refutes.         *)
LEMMA ReconcileOp ==
  ASSUME MemoryTypes, NEW change, NEW creds, NEW pruned,
         Reconcile(change, creds, {a \in Auths : change[a] # "none"}, pruned)
  PROVE  /\ MemoryTypes' /\ UNCHANGED now
         /\ \A a \in Auths : states'[a] \in {states[a], NoState}
         /\ \A a \in Auths, m \in Models : exclusions'[a][m] \in {exclusions[a][m], NoExclusion}
         /\ \A a \in Auths : change[a] # "none" /\ DropsState(change[a], creds[a], states[a])
                               => states'[a] = NoState
  <1> DEFINE changed == {a \in Auths : change[a] # "none"}
             drops == {a \in changed : DropsState(change[a], creds[a], states[a])}
             s1 == [a \in Auths |-> IF a \in drops THEN NoState ELSE states[a]]
  <1>1. UNCHANGED now /\ states' = [a \in Auths |-> IF a \in pruned THEN NoState ELSE s1[a]]
    BY DEF Reconcile, PruneResult
  <1>2. exclusions' = [a \in Auths |-> [m \in Models |->
          IF a \in changed /\ DropsExclusion(change[a], creds[a], exclusions[a][m])
          THEN NoExclusion ELSE exclusions[a][m]]]
    BY DEF Reconcile
  <1>3. \A a \in Auths : states'[a] \in {states[a], NoState}
    BY <1>1
  <1>4. \A a \in Auths : change[a] # "none" /\ DropsState(change[a], creds[a], states[a])
                           => states'[a] = NoState
    BY <1>1
  <1>5. \A a \in Auths, m \in Models : exclusions'[a][m] \in {exclusions[a][m], NoExclusion}
    BY <1>2
  <1>6. states' \in [Auths -> Memory]
    <2>1. \A a \in Auths : states'[a] \in Memory
      BY <1>3, EmptyMemory DEF MemoryTypes
    <2>2. QED
      BY <1>1, <2>1
  <1>7. exclusions' \in [Auths -> [Models -> [cred : Nat, since : Nat]]]
    <2>1. \A a \in Auths, m \in Models : exclusions'[a][m] \in [cred : Nat, since : Nat]
      BY <1>5, EmptyMemory DEF MemoryTypes
    <2>2. QED
      BY <1>2, <2>1
  <1>8. QED
    BY <1>1, <1>3, <1>4, <1>5, <1>6, <1>7 DEF MemoryTypes

LEMMA ReconcileAuthsOp ==
  ASSUME MemoryTypes, ReconcileAuths
  PROVE  /\ MemoryTypes' /\ UNCHANGED now /\ seen' = file
         /\ \A a \in Auths : states'[a] \in {states[a], NoState}
         /\ \A a \in Auths, m \in Models : exclusions'[a][m] \in {exclusions[a][m], NoExclusion}
         /\ \A a \in Auths : ChangeOf(a) # "none" /\ DropsState(ChangeOf(a), TokensIn(file[a]), states[a])
                               => states'[a] = NoState
  <1> DEFINE change == [a \in Auths |-> ChangeOf(a)]
             creds == [a \in Auths |-> TokensIn(file[a])]
  <1>1. PICK pruned \in SUBSET Auths : Reconcile(change, creds, Changed, pruned)
    BY DEF ReconcileAuths
  <1>2. Changed = {a \in Auths : change[a] # "none"}
    BY DEF Changed
  <1>3. Reconcile(change, creds, {a \in Auths : change[a] # "none"}, pruned)
    BY <1>1, <1>2
  <1> HIDE DEF change, creds
  <1>4. /\ MemoryTypes' /\ UNCHANGED now
        /\ \A a \in Auths : states'[a] \in {states[a], NoState}
        /\ \A a \in Auths, m \in Models : exclusions'[a][m] \in {exclusions[a][m], NoExclusion}
        /\ \A a \in Auths : change[a] # "none" /\ DropsState(change[a], creds[a], states[a])
                              => states'[a] = NoState
    BY <1>3, ReconcileOp
  <1>5. \A a \in Auths : change[a] = ChangeOf(a) /\ creds[a] = TokensIn(file[a])
    BY DEF change, creds
  <1>6. seen' = file
    BY DEF ReconcileAuths
  <1>7. QED
    BY <1>4, <1>5, <1>6

(* What a step makes of the registry.                                         *)
Judges ==
  \/ UNCHANGED <<now, states, exclusions>>
  \/ ReconcileAuths
  \/ \E a \in Auths : MarkHealthy(a, Model, TRUE)
  \/ \E a \in Auths, c \in Nat, f \in Failures : MarkFailure(a, c, f)
  \/ \E a \in Auths : MarkCredentialHealthy(a, TRUE)
  \/ Tick

LEMMA JudgesKeepTypes ==
  ASSUME MemoryTypes, now \in Nat, Judges
  PROVE  MemoryTypes' /\ now' \in Nat
  <1>1. CASE UNCHANGED <<now, states, exclusions>>
    BY <1>1 DEF MemoryTypes
  <1>2. CASE ReconcileAuths
    BY <1>2, ReconcileAuthsOp
  <1>3. ASSUME NEW a \in Auths, MarkHealthy(a, Model, TRUE)
        PROVE  MemoryTypes' /\ now' \in Nat
    BY <1>3, MarkHealthyTypes
  <1>4. ASSUME NEW a \in Auths, NEW c \in Nat, NEW f \in Failures, MarkFailure(a, c, f)
        PROVE  MemoryTypes' /\ now' \in Nat
    <2>1. CASE f.kind = "model"
      BY <1>4, <2>1, MarkModelTypes DEF MarkFailure
    <2>2. CASE f.kind # "model"
      BY <1>4, <2>2, VerdictTypes, MarkUnavailableTypes DEF MarkFailure
    <2>3. QED
      BY <2>1, <2>2
  <1>5. ASSUME NEW a \in Auths, MarkCredentialHealthy(a, TRUE)
        PROVE  MemoryTypes' /\ now' \in Nat
    BY <1>5, MarkCredentialTypes
  <1>6. CASE Tick
    BY <1>6 DEF Tick, MemoryTypes
  <1>7. QED
    BY <1>1, <1>2, <1>3, <1>4, <1>5, <1>6 DEF Judges

LEMMA StepJudges ==
  ASSUME RequestInv, Work \/ Cancel \/ Others \/ TimePasses
  PROVE  Judges
  <1>1. CASE Start \/ ListForSelect \/ ListForRetry \/ ListForRefusal
    BY <1>1 DEF Start, ListForSelect, ListForRetry, ListForRefusal, List, Judges
  <1>2. CASE Select \/ RoundFull \/ Prepare \/ Repair \/ LastRound \/ AwaitCooldown \/ NewRound
               \/ Refuse \/ Cancel
    <2>1. UNCHANGED healthVars
      <3>1. CASE Prepare \/ Repair
        BY <3>1 DEF Prepare, Repair, Refresh
      <3>2. CASE Select \/ RoundFull \/ LastRound \/ AwaitCooldown \/ NewRound \/ Refuse \/ Cancel
        BY <3>2 DEF Select, RoundFull, LastRound, AwaitCooldown, NewRound, Refuse, Cancel
      <3>3. QED
        BY <1>2, <3>1, <3>2
    <2>2. QED
      BY <2>1 DEF healthVars, Judges
  <1>3. CASE Attempt
    BY <1>3, AttemptOp DEF healthVars, Judges
  <1>4. CASE Trust
    <2>1. request.auth \in Auths
      BY <1>4 DEF Trust, At, RequestInv, Requests, WithAuth
    <2>2. MarkCredentialHealthy(request.auth, TRUE) \/ UNCHANGED healthVars
      BY <1>4 DEF Trust
    <2>3. QED
      BY <2>1, <2>2 DEF healthVars, Judges
  <1>5. CASE Blame
    <2>1. request.cred \in Nat /\ request.pending \in Failures
      BY RequestFields DEF RequestInv
    <2>2. QED
      BY <1>5, <2>1, BlameOp DEF Judges
  <1>6. CASE OthersScan
    BY <1>6 DEF OthersScan, Judges, healthVars
  <1>7. ASSUME NEW a \in Auths, ChangeFile(a)
        PROVE  Judges
    BY <1>7 DEF ChangeFile, Judges, healthVars
  <1>8. ASSUME NEW a \in Auths, OthersReport(a)
        PROVE  Judges
    <2>1. CASE MarkHealthy(a, Model, TRUE)
      BY <2>1 DEF Judges
    <2>2. ASSUME NEW f \in {Fault("unauthorized", 0), [kind |-> "quota", retryAt |-> now + 1, explicit |-> TRUE]},
                 MarkUnavailable(a, Verdict(f, seen[a].cred), TRUE)
          PROVE  Judges
      <3>1. now + 1 \in Nat /\ seen[a].cred \in Nat
        <4>1. now \in Nat /\ seen \in [Auths -> AuthFiles]
          BY DEF RequestInv
        <4>2. seen[a] \in AuthFiles
          BY <4>1
        <4>3. QED
          BY <4>1, <4>2 DEF AuthFiles
      <3>2. [kind |-> "quota", retryAt |-> now + 1, explicit |-> TRUE] \in Failures
        BY <3>1 DEF Failures, FailureKinds
      <3>3. Fault("unauthorized", 0) \in Failures
        BY FailureTypes DEF RequestInv
      <3>4. f \in Failures /\ f.kind # "model"
        <4>1. CASE f = Fault("unauthorized", 0)
          BY <3>3, <4>1 DEF Fault, NoFailure
        <4>2. CASE f = [kind |-> "quota", retryAt |-> now + 1, explicit |-> TRUE]
          BY <3>2, <4>2
        <4>3. QED
          BY <2>2, <4>1, <4>2
      <3>5. MarkFailure(a, seen[a].cred, f)
        BY <2>2, <3>4 DEF MarkFailure
      <3>6. QED
        BY <3>1, <3>4, <3>5 DEF Judges
    <2>3. QED
      BY <1>8, <2>1, <2>2 DEF OthersReport
  <1>9. CASE TimePasses
    BY <1>9 DEF TimePasses, Judges
  <1>10. QED
    BY <1>1, <1>2, <1>3, <1>4, <1>5, <1>6, <1>7, <1>8, <1>9 DEF Work, Others

-----------------------------------------------------------------------------
(* The types hold for ever.                                                   *)

Shaped(r) ==
  /\ r \in Requests
  /\ r.phase \in WithAuth <=> r.auth # NoAuth
  /\ r.phase = "blame" <=> r.next # ""
  /\ r.phase = "start" => r.tried = {}
  /\ r.phase # "done" => r.outcome.code = "none"

LEMMA RequestIsShaped ==
  ASSUME Shaped(request'), limits' = limits, RequestInv, now' \in Nat,
         file' \in [Auths -> AuthFiles], seen' \in [Auths -> AuthFiles]
  PROVE  RequestInv'
  BY DEF Shaped, RequestInv, At, Over

LEMMA GoesToIsShaped ==
  ASSUME RequestInv, ~Over, NEW phase \in Phases, phase \notin {"start", "done", "blame"},
         phase \in WithAuth => request.auth # NoAuth, GoesTo(phase)
  PROVE  Shaped(request')
  <1>1. request.outcome.code = "none"
    BY DEF RequestInv
  <1>2. phase # "blame" /\ phase # "start" /\ phase # "done"
    OBVIOUS
  <1>3. QED
    BY <1>1, <1>2, FailoverNumbers DEF GoesTo, Shaped

LEMMA BlamesIsShaped ==
  ASSUME RequestInv, ~Over, request.auth # NoAuth, NEW next \in {"select", "done", "refuse"}, Blames(next)
  PROVE  Shaped(request')
  <1>1. request.outcome.code = "none"
    BY DEF RequestInv
  <1>2. "blame" \in WithAuth /\ next # ""
    BY DEF WithAuth
  <1>3. QED
    BY <1>1, <1>2 DEF Blames, GoesTo, Shaped

LEMMA TakesIsShaped ==
  ASSUME RequestInv, ~Over, NEW a, Takes(a)
  PROVE  Shaped(request')
  <1>1. request.outcome.code = "none"
    BY DEF RequestInv
  <1>2. "prepare" \in WithAuth
    BY DEF WithAuth
  <1>3. QED
    BY <1>1, <1>2, FailoverNumbers DEF Takes, Shaped

LEMMA EndIsShaped ==
  ASSUME NEW code, EndsWith(code)
  PROVE  Shaped(request')
  <1>1. "done" \notin WithAuth
    BY DEF WithAuth
  <1>2. QED
    BY <1>1 DEF EndsWith, Shaped

(* The auth is known in the phases that have one.                             *)
LEMMA AuthInHand ==
  ASSUME RequestInv
  PROVE  /\ request.phase \in WithAuth => request.auth \in Auths
         /\ request.phase \notin WithAuth => request.auth = NoAuth
  BY DEF RequestInv, Requests

LEMMA WorkKeepsShape ==
  ASSUME RequestInv, MemoryTypes, Work \/ Cancel
  PROVE  /\ Shaped(request') /\ limits' = limits /\ ~Over
         /\ file' \in [Auths -> AuthFiles] /\ seen' \in [Auths -> AuthFiles]
  <1>0. file \in [Auths -> AuthFiles] /\ seen \in [Auths -> AuthFiles]
    BY DEF RequestInv
  <1>00. /\ {"select", "filter", "over", "cool", "wait", "refuse", "judge", "send", "repair", "trust", "resend"}
               \subseteq Phases
         /\ WithAuth \cap {"start", "select", "filter", "over", "cool", "wait", "refuse", "judge", "done"} = {}
         /\ {"send", "repair", "trust", "resend", "prepare", "blame"} \subseteq WithAuth
    BY DEF Phases, WithAuth
  <1>1. CASE Start
    <2>1. UNCHANGED <<limits, file>> /\ seen' = file /\ request.phase = "start"
      BY <1>1, StartOp
    <2>2. request.outcome.code = "none" /\ ~Over
      BY <2>1 DEF RequestInv, Over, At
    <2>3. Shaped(request')
      <3>1. CASE EndsWith("model_not_found")
        BY <3>1, EndIsShaped
      <3>2. CASE /\ request' \in Requests /\ request'.phase = "select" /\ request'.outcome = request.outcome
                 /\ request'.auth = NoAuth /\ request'.next = ""
        BY <1>00, <2>2, <3>2 DEF Shaped
      <3>3. QED
        BY <1>1, <3>1, <3>2, StartOp
    <2>4. QED
      BY <1>0, <2>1, <2>2, <2>3
  <1>2. CASE ListForSelect \/ ListForRetry \/ ListForRefusal
    <2>1. PICK phase \in {"select", "over", "refuse"}, next \in {"filter", "cool", "judge"} :
            List(phase, next)
      BY <1>2 DEF ListForSelect, ListForRetry, ListForRefusal
    <2>2. /\ request.phase = phase /\ GoesTo(next) /\ UNCHANGED <<limits, file>> /\ seen' = file
      BY <1>00, <2>1, ListOp
    <2>3. ~Over
      BY <2>2 DEF Over, At
    <2>4. Shaped(request')
      BY <1>00, <2>2, <2>3, GoesToIsShaped
    <2>5. QED
      BY <1>0, <2>2, <2>3, <2>4
  <1>3. CASE Select
    <2>1. request.phase = "filter" /\ UNCHANGED <<file, seen, limits>>
      BY <1>3, SelectOp
    <2>2. ~Over
      BY <2>1 DEF Over, At
    <2>3. \/ GoesTo("over") \/ \E a \in Auths : Takes(a)
          \/ EndsWith("session_lost")
      BY <1>3, SelectOp DEF Eligible, Serving, Listed
    <2>4. Shaped(request')
      BY <1>00, <2>2, <2>3, GoesToIsShaped, TakesIsShaped, EndIsShaped
    <2>5. QED
      BY <1>0, <2>1, <2>2, <2>4
  <1>4. CASE Prepare \/ Repair
    <2>1. /\ request.phase \in {"prepare", "repair"} /\ limits' = limits
          /\ GoesTo("send") \/ GoesTo("trust") \/ Blames("select")
          /\ file' \in [Auths -> AuthFiles] /\ seen' \in [Auths -> AuthFiles]
      BY <1>4, PrepareOp, RepairOp
    <2>2. ~Over /\ request.auth # NoAuth
      BY <2>1, AuthInHand, FailoverNumbers DEF Over, At, WithAuth
    <2>3. Shaped(request')
      BY <1>00, <2>1, <2>2, GoesToIsShaped, BlamesIsShaped
    <2>4. QED
      BY <2>1, <2>2, <2>3
  <1>5. CASE Attempt
    <2>1. /\ request.phase \in {"send", "resend"} /\ request.auth \in Auths /\ UNCHANGED <<file, seen, limits>>
          /\ \/ EndsWith("answered") \/ GoesTo("repair")
             \/ \E next \in {"select", "done", "refuse"} : Blames(next)
      BY <1>5, AttemptOp
    <2>2. ~Over /\ request.auth # NoAuth
      BY <2>1, FailoverNumbers DEF Over, At
    <2>3. Shaped(request')
      BY <1>00, <2>1, <2>2, GoesToIsShaped, BlamesIsShaped, EndIsShaped
    <2>4. QED
      BY <1>0, <2>1, <2>2, <2>3
  <1>6. CASE Trust
    <2>1. request.phase = "trust" /\ GoesTo("resend") /\ UNCHANGED <<file, seen, limits>>
      BY <1>6, TrustOp
    <2>2. ~Over /\ request.auth # NoAuth
      BY <2>1, AuthInHand, FailoverNumbers DEF Over, At, WithAuth
    <2>3. Shaped(request')
      BY <1>00, <2>1, <2>2, GoesToIsShaped
    <2>4. QED
      BY <1>0, <2>1, <2>2, <2>3
  <1>7. CASE Blame
    <2>1. /\ request.phase = "blame" /\ UNCHANGED <<file, seen, limits>>
          /\ EndsWith("answered") \/ \E next \in {"select", "refuse"} : GoesTo(next)
      BY <1>7, BlameOp
    <2>2. ~Over
      BY <2>1 DEF Over, At
    <2>3. Shaped(request')
      BY <1>00, <2>1, <2>2, GoesToIsShaped, EndIsShaped
    <2>4. QED
      BY <1>0, <2>1, <2>2, <2>3
  <1>8. CASE RoundFull \/ LastRound \/ AwaitCooldown
    <2>1. /\ request.phase \in {"select", "over", "cool"} /\ UNCHANGED <<file, seen, limits>>
          /\ \E phase \in {"over", "refuse", "wait"} : GoesTo(phase)
      BY <1>8, PassOp, AwaitCooldownOp
    <2>2. ~Over
      BY <2>1 DEF Over, At
    <2>3. Shaped(request')
      BY <1>00, <2>1, <2>2, GoesToIsShaped
    <2>4. QED
      BY <1>0, <2>1, <2>2, <2>3
  <1>9. CASE NewRound
    <2>1. request.phase = "wait" /\ UNCHANGED <<file, seen, limits>>
      BY <1>9, NewRoundOp
    <2>2. ~Over /\ request.outcome.code = "none"
      BY <2>1 DEF Over, At, RequestInv
    <2>3. Shaped(request')
      BY <1>9, <1>00, <2>2, NewRoundOp DEF Shaped
    <2>4. QED
      BY <1>0, <2>1, <2>2, <2>3
  <1>10. CASE Refuse \/ Cancel
    <2>1. \E code : EndsWith(code)
      BY <1>10, RefuseOp, CancelOp
    <2>2. UNCHANGED <<file, seen, limits>>
      BY <1>10, RefuseOp, CancelOp
    <2>3. ~Over
      BY <1>10 DEF Refuse, Cancel, Over, At
    <2>4. QED
      BY <1>0, <2>1, <2>2, <2>3, EndIsShaped
  <1>11. QED
    BY <1>1, <1>2, <1>3, <1>4, <1>5, <1>6, <1>7, <1>8, <1>9, <1>10 DEF Work

LEMMA TypesKept ==
  ASSUME RequestInv, MemoryTypes, FailoverNext
  PROVE  RequestInv' /\ MemoryTypes'
  <1>1. Work \/ Cancel \/ Others \/ TimePasses
    BY DEF FailoverNext
  <1>2. MemoryTypes' /\ now' \in Nat
    BY <1>1, StepJudges, JudgesKeepTypes DEF RequestInv
  <1>3. CASE Work \/ Cancel
    BY <1>2, <1>3, WorkKeepsShape, RequestIsShaped
  <1>4. CASE Others \/ TimePasses
    <2>1. UNCHANGED <<request, limits>> /\ file' \in [Auths -> AuthFiles] /\ seen' \in [Auths -> AuthFiles]
      BY <1>4, OthersOp
    <2>2. QED
      BY <1>2, <2>1 DEF RequestInv, At, Over
  <1>5. QED
    BY <1>1, <1>2, <1>3, <1>4

LEMMA TypesStart ==
  ASSUME FailoverInit
  PROVE  RequestInv /\ MemoryTypes
  <1>1. request = Fresh /\ now = 1
    BY DEF FailoverInit
  <1>2. /\ states = [a \in Auths |-> NoState]
        /\ exclusions = [a \in Auths |-> [m \in Models |-> NoExclusion]]
    BY DEF FailoverInit
  <1>3. MemoryTypes
    BY <1>2, EmptyMemory DEF MemoryTypes
  <1>4. limits \in [retries : Nat, cap : Nat, wait : Nat, replayable : BOOLEAN]
    BY FailoverAssumption DEF FailoverInit
  <1>5. file \in [Auths -> AuthFiles] /\ seen \in [Auths -> AuthFiles]
    BY DEF FailoverInit, AuthFiles
  <1>6. "start" \notin WithAuth
    BY DEF WithAuth
  <1>7. QED
    BY <1>1, <1>3, <1>4, <1>5, <1>6, FreshFields DEF RequestInv, At, Over

LEMMA FailoverTypes == FailoverSpec => [](RequestInv /\ MemoryTypes)
  <1>1. RequestInv /\ MemoryTypes /\ UNCHANGED failoverVars => (RequestInv /\ MemoryTypes)'
    BY DEF failoverVars, healthVars, RequestInv, MemoryTypes, At, Over
  <1>2. RequestInv /\ MemoryTypes /\ [FailoverNext]_failoverVars => (RequestInv /\ MemoryTypes)'
    BY <1>1, TypesKept
  <1>3. QED
    BY <1>2, TypesStart, PTL DEF FailoverSpec

-----------------------------------------------------------------------------
(* NoReadyAuthLeft: what was ready all the time is on the list the request    *)
(* filters, and a round ends when none is left.                               *)
ThroughAll == limits.replayable /\ limits.cap = 0

ReadyUntried ==
  /\ \A a \in ready : a \in Active /\ ~Blocked(a, Model)
  /\ ~At("start") => ready \subseteq request.allowed /\ ready \cap request.tried = {}

ReadyWhereItMatters ==
  /\ At("filter") => ready \subseteq Serving
  /\ ThroughAll /\ request.phase \in {"over", "cool", "wait", "refuse", "judge"} => ready = {}
  /\ ThroughAll /\ Refused => ready = {}
  /\ At("blame") /\ request.next = "refuse" => ~limits.replayable

ReadyInv == ReadyUntried /\ ReadyWhereItMatters

LEMMA ReadyHistory ==
  ASSUME History
  PROVE  /\ ~At("start") => ready' \subseteq ready
         /\ \A a \in ready' : a \in Active' /\ ~(Blocked(a, Model)')
         /\ \A a \in ready' : a \in request'.allowed \/ request'.phase = "start"
         /\ \A a \in ready' : a # request'.auth
  BY DEF History

LEMMA ReadyUntriedKept ==
  ASSUME RequestInv, ReadyUntried, History,
         \/ request'.phase = "start"
         \/ request'.tried \subseteq request.tried \cup {request'.auth}
  PROVE  ReadyUntried'
  <1>1. \A a \in ready' : a \in Active' /\ ~(Blocked(a, Model)')
    BY ReadyHistory
  <1>2. ASSUME request'.phase # "start"
        PROVE  ready' \subseteq request'.allowed /\ ready' \cap request'.tried = {}
    <2>1. ready' \subseteq request'.allowed
      BY <1>2, ReadyHistory
    <2>2. ready' \cap request.tried = {}
      <3>1. CASE At("start")
        BY <3>1 DEF RequestInv
      <3>2. CASE ~At("start")
        BY <3>2, ReadyHistory DEF ReadyUntried
      <3>3. QED
        BY <3>1, <3>2
    <2>3. QED
      BY <1>2, <2>1, <2>2, ReadyHistory
  <1>3. QED
    BY <1>1, <1>2 DEF ReadyUntried, At

LEMMA ElsewhereNothingMatters ==
  ASSUME RequestInv', limits' = limits,
         request'.phase \notin {"filter", "over", "cool", "wait", "refuse", "judge"},
         request'.phase = "blame" /\ request'.next = "refuse" => ~limits.replayable,
         request'.outcome.code \notin {"auth_unavailable", "rate_limited", "upstream_unavailable"}
  PROVE  ReadyWhereItMatters'
  BY DEF ReadyWhereItMatters, At, Refused

(* Once no ready auth is left, none becomes one.                              *)
LEMMA NoneStaysNone ==
  ASSUME RequestInv', limits' = limits, request'.phase \notin {"filter", "blame"},
         ~At("start"), ThroughAll => ready = {}, History
  PROVE  ReadyWhereItMatters'
  <1>1. ThroughAll' => ready' = {}
    BY ReadyHistory DEF ThroughAll
  <1>2. QED
    BY <1>1 DEF ReadyWhereItMatters, At

LEMMA ReadyKeptByWork ==
  ASSUME RequestInv, RequestInv', MemoryTypes, ReadyInv, Work \/ Cancel, History
  PROVE  ReadyWhereItMatters'
  <1>0. limits' = limits
    BY WorkKeepsShape
  <1>00. request'.phase # "done" => request'.outcome.code = "none"
    BY DEF RequestInv, Over, At
  <1>1. CASE Start
    <2>1. \/ request'.phase = "select"
          \/ request'.phase = "done" /\ request'.outcome.code = "model_not_found"
      BY <1>1, StartOp DEF EndsWith
    <2>2. QED
      BY <1>0, <1>00, <2>1, ElsewhereNothingMatters
  <1>2. CASE ListForSelect
    <2>1. request.phase = "select" /\ GoesTo("filter") /\ request'.list = file /\ file' = file
      BY <1>2, ListOp DEF ListForSelect, Phases, WithAuth
    <2>2. Serving' = Active
      BY <2>1 DEF Serving, Listed, Active, Present
    <2>3. ready' \subseteq Active'
      BY ReadyHistory
    <2>4. Active' = Active
      BY <2>1 DEF Active, Present
    <2>5. request'.phase = "filter"
      BY <2>1 DEF GoesTo
    <2>6. QED
      BY <1>00, <2>2, <2>3, <2>4, <2>5 DEF ReadyWhereItMatters, At, Refused
  <1>3. CASE ListForRetry \/ ListForRefusal
    <2>1. /\ request.phase \in {"over", "refuse"} /\ request'.phase \in {"cool", "judge"}
      BY <1>3, ListOp DEF ListForRetry, ListForRefusal, Phases, WithAuth, GoesTo
    <2>2. ~At("start") /\ (ThroughAll => ready = {})
      BY <2>1 DEF At, ReadyInv, ReadyWhereItMatters
    <2>3. QED
      BY <1>0, <2>1, <2>2, NoneStaysNone
  <1>4. CASE Select
    <2>1. request.phase = "filter"
      BY <1>4, SelectOp
    <2>2. CASE Eligible = {} /\ GoesTo("over")
      <3>1. ready \subseteq Eligible
        <4>1. ready \subseteq Serving /\ ready \subseteq request.allowed /\ ready \cap request.tried = {}
          BY <2>1 DEF ReadyInv, ReadyUntried, ReadyWhereItMatters, At
        <4>2. \A a \in ready : ~Blocked(a, Model)
          BY DEF ReadyInv, ReadyUntried
        <4>3. QED
          BY <4>1, <4>2 DEF Eligible
      <3>2. request'.phase = "over" /\ ~At("start")
        BY <2>1, <2>2 DEF GoesTo, At
      <3>3. QED
        BY <1>0, <2>2, <3>1, <3>2, NoneStaysNone
    <2>3. CASE \E a : Takes(a)
      BY <1>0, <1>00, <2>3, ElsewhereNothingMatters DEF Takes
    <2>4. CASE EndsWith("session_lost")
      BY <1>0, <2>4, ElsewhereNothingMatters DEF EndsWith
    <2>5. QED
      BY <1>4, <2>2, <2>3, <2>4, SelectOp
  <1>5. CASE Prepare \/ Repair
    <2>1. GoesTo("send") \/ GoesTo("trust") \/ Blames("select")
      BY <1>5, PrepareOp, RepairOp
    <2>2. request'.phase \in {"send", "trust", "blame"} /\ (request'.phase = "blame" => request'.next = "select")
      BY <2>1 DEF GoesTo, Blames
    <2>3. QED
      BY <1>0, <1>00, <2>2, ElsewhereNothingMatters
  <1>6. CASE Attempt
    <2>1. \/ EndsWith("answered") \/ GoesTo("repair")
          \/ \E next \in {"select", "done", "refuse"} : Blames(next) /\ (limits.replayable => next = "select")
      BY <1>6, AttemptOp
    <2>2. CASE EndsWith("answered")
      BY <1>0, <2>2, ElsewhereNothingMatters DEF EndsWith
    <2>3. CASE GoesTo("repair")
      <3>1. request'.phase = "repair"
        BY <2>3 DEF GoesTo
      <3>2. QED
        BY <1>0, <1>00, <3>1, ElsewhereNothingMatters
    <2>4. ASSUME NEW next \in {"select", "done", "refuse"}, Blames(next), limits.replayable => next = "select"
          PROVE  ReadyWhereItMatters'
      <3>1. request'.phase = "blame" /\ request'.next = next
        BY <2>4 DEF GoesTo, Blames
      <3>2. QED
        BY <1>0, <1>00, <2>4, <3>1, ElsewhereNothingMatters
    <2>5. QED
      BY <2>1, <2>2, <2>3, <2>4
  <1>7. CASE Trust
    <2>1. request'.phase = "resend"
      BY <1>7, TrustOp DEF GoesTo
    <2>2. QED
      BY <1>0, <1>00, <2>1, ElsewhereNothingMatters
  <1>8. CASE Blame
    <2>1. request.phase = "blame" /\ request.next \in {"select", "done", "refuse"}
      BY <1>8, BlameOp
    <2>2. CASE request.next = "done"
      <3>1. EndsWith("answered")
        BY <1>8, <2>2, BlameOp
      <3>2. QED
        BY <1>0, <3>1, ElsewhereNothingMatters DEF EndsWith
    <2>3. CASE request.next = "select"
      <3>1. request'.phase = "select"
        BY <1>8, <2>3, BlameOp DEF GoesTo
      <3>2. QED
        BY <1>0, <1>00, <3>1, ElsewhereNothingMatters
    <2>4. CASE request.next = "refuse"
      <3>1. request'.phase = "refuse"
        BY <1>8, <2>4, BlameOp DEF GoesTo
      <3>2. ~ThroughAll /\ ~At("start")
        BY <2>1, <2>4 DEF ReadyInv, ReadyWhereItMatters, At, ThroughAll
      <3>3. QED
        BY <1>0, <3>1, <3>2, NoneStaysNone
    <2>5. QED
      BY <2>1, <2>2, <2>3, <2>4
  <1>9. CASE RoundFull \/ LastRound \/ AwaitCooldown
    <2>1. /\ request.phase \in {"select", "over", "cool"} /\ request'.phase \in {"over", "refuse", "wait"}
          /\ request.phase = "select" => CapReached
      BY <1>9, PassOp, AwaitCooldownOp DEF GoesTo
    <2>2. ThroughAll => ~CapReached
      BY DEF ThroughAll, CapReached
    <2>3. ~At("start") /\ (ThroughAll => ready = {})
      BY <2>1, <2>2 DEF ReadyInv, ReadyWhereItMatters, At
    <2>4. QED
      BY <1>0, <2>1, <2>3, NoneStaysNone
  <1>10. CASE NewRound
    <2>1. request'.phase = "select"
      BY <1>10, NewRoundOp
    <2>2. QED
      BY <1>0, <1>00, <2>1, ElsewhereNothingMatters
  <1>11. CASE Refuse
    <2>1. request.phase = "judge" /\ request'.phase = "done"
      BY <1>11, RefuseOp DEF EndsWith
    <2>2. ~At("start") /\ (ThroughAll => ready = {})
      BY <2>1 DEF ReadyInv, ReadyWhereItMatters, At
    <2>3. QED
      BY <1>0, <2>1, <2>2, NoneStaysNone
  <1>12. CASE Cancel
    BY <1>0, <1>12, CancelOp, ElsewhereNothingMatters DEF EndsWith
  <1>13. QED
    BY <1>1, <1>2, <1>3, <1>4, <1>5, <1>6, <1>7, <1>8, <1>9, <1>10, <1>11, <1>12 DEF Work

LEMMA TriedGrows ==
  ASSUME RequestInv, MemoryTypes, Work \/ Cancel
  PROVE  request'.tried \subseteq request.tried \cup {request'.auth}
  <1>1. CASE Start
    BY <1>1, StartOp DEF EndsWith
  <1>2. CASE ListForSelect \/ ListForRetry \/ ListForRefusal
    BY <1>2, ListOp DEF ListForSelect, ListForRetry, ListForRefusal, Phases, WithAuth, GoesTo
  <1>3. CASE Select
    <2>1. GoesTo("over") \/ (\E a : Takes(a)) \/ EndsWith("session_lost")
      BY <1>3, SelectOp
    <2>2. QED
      BY <2>1 DEF GoesTo, Takes, EndsWith
  <1>4. CASE Prepare \/ Repair
    BY <1>4, PrepareOp, RepairOp DEF GoesTo, Blames
  <1>5. CASE Attempt
    BY <1>5, AttemptOp DEF GoesTo, Blames, EndsWith
  <1>6. CASE Trust
    BY <1>6, TrustOp DEF GoesTo
  <1>7. CASE Blame
    BY <1>7, BlameOp DEF GoesTo, EndsWith
  <1>8. CASE RoundFull \/ LastRound \/ AwaitCooldown
    BY <1>8, PassOp, AwaitCooldownOp DEF GoesTo
  <1>9. CASE NewRound
    BY <1>9, NewRoundOp
  <1>10. CASE Refuse \/ Cancel
    <2>1. \E code : EndsWith(code)
      BY <1>10, RefuseOp, CancelOp
    <2>2. QED
      BY <2>1 DEF EndsWith
  <1>11. QED
    BY <1>1, <1>2, <1>3, <1>4, <1>5, <1>6, <1>7, <1>8, <1>9, <1>10 DEF Work

LEMMA ReadyKept ==
  ASSUME RequestInv, RequestInv', MemoryTypes, ReadyInv, FailoverNext
  PROVE  ReadyInv'
  <1>1. History
    BY DEF FailoverNext
  <1>2. CASE Work \/ Cancel
    BY <1>1, <1>2, TriedGrows, ReadyUntriedKept, ReadyKeptByWork DEF ReadyInv
  <1>3. CASE Others \/ TimePasses
    <2>1. UNCHANGED <<request, limits>> /\ ~Over
      BY <1>3, OthersOp
    <2>2. ReadyUntried'
      BY <1>1, <2>1, ReadyUntriedKept DEF ReadyInv
    <2>3. ~At("start") => ready' \subseteq ready
      BY <1>1, ReadyHistory
    <2>4. Serving' = Serving
      BY <2>1 DEF Serving, Listed
    <2>5. \A phase : At(phase)' <=> At(phase)
      BY <2>1 DEF At
    <2>6. Refused' = Refused /\ ThroughAll' = ThroughAll
      BY <2>1 DEF Refused, ThroughAll
    <2>7. ~Refused
      BY <2>1 DEF RequestInv, Refused
    <2>8. ReadyWhereItMatters'
      <3>1. CASE At("start")
        BY <2>1, <2>6, <2>7, <3>1 DEF ReadyWhereItMatters, At
      <3>2. CASE ~At("start")
        BY <2>1, <2>3, <2>4, <2>6, <3>2 DEF ReadyInv, ReadyWhereItMatters, At
      <3>3. QED
        BY <3>1, <3>2
    <2>9. QED
      BY <2>2, <2>8 DEF ReadyInv
  <1>4. QED
    BY <1>2, <1>3 DEF FailoverNext

(* A request that may use every credential and may be sent again is refused   *)
(* only when no credential is left that was ready from its start on and was   *)
(* not tried: selection passes none over, and a round ends with none left     *)
(* (selectProxyAuthCandidate, executeUpstream, finalProxyError).              *)
THEOREM EveryReadyAuthIsTried == FailoverSpec => []NoReadyAuthLeft
  <1> DEFINE Inv == RequestInv /\ MemoryTypes /\ ReadyInv
  <1>1. FailoverInit => Inv
    <2> SUFFICES ASSUME FailoverInit PROVE ReadyInv
      BY TypesStart
    <2>1. /\ request.phase = "start" /\ request.outcome.code = "none"
          /\ ready = Auths
      BY FreshFields DEF FailoverInit
    <2>2. \A a \in Auths : a \in Active /\ ~Blocked(a, Model)
      <3>1. \A a \in Auths : a \in Active
        BY DEF FailoverInit, Active, Present
      <3>2. \A a \in Auths : states[a] = NoState /\ (Model \in Models => exclusions[a][Model] = NoExclusion)
        BY DEF FailoverInit
      <3>3. QED
        BY <3>1, <3>2 DEF Blocked, NoState
    <2>3. QED
      BY <2>1, <2>2 DEF ReadyInv, ReadyUntried, ReadyWhereItMatters, At, Refused
  <1>2. Inv /\ UNCHANGED failoverVars => Inv'
    BY DEF failoverVars, healthVars, RequestInv, MemoryTypes, At, Over, ReadyInv, ReadyUntried,
           ReadyWhereItMatters, Refused, ThroughAll, Serving, Listed, Active, Present, Blocked, Expired,
           IsZero
  <1>3. Inv /\ [FailoverNext]_failoverVars => Inv'
    BY <1>2, TypesKept, ReadyKept
  <1>4. Inv => NoReadyAuthLeft
    BY DEF ReadyInv, ReadyWhereItMatters, ThroughAll, NoReadyAuthLeft
  <1>5. QED
    BY <1>1, <1>3, <1>4, PTL DEF FailoverSpec

-----------------------------------------------------------------------------
(* SentWithinBudget: the counters of attempts follow the credentials the      *)
(* request has tried, and its phase says which of them it is about to try.    *)
SentAuths == {a \in Auths : sent[a] > 0}

TriedCounted ==
  /\ sent \in [Auths -> Nat] /\ resent \in [Auths -> Nat]
  /\ IsFiniteSet(request.tried) /\ Cardinality(request.tried) <= request.attempted
  /\ request.auth # NoAuth => request.auth \in request.tried
  /\ limits.cap > 0 => request.attempted <= limits.cap /\ (At("filter") => request.attempted < limits.cap)

AttemptedOnce ==
  ~stolen =>
    /\ ~Over => SentAuths \subseteq request.tried
    /\ request.tried \subseteq request.allowed /\ SentAuths \subseteq request.allowed
    /\ \A a \in Auths : resent[a] <= sent[a] /\ sent[a] <= 1
    /\ limits.cap > 0 => Cardinality(SentAuths) <= limits.cap
    /\ request.phase \in {"prepare", "send"} => sent[request.auth] = 0
    /\ request.phase \in {"repair", "trust", "resend"} => sent[request.auth] = 1 /\ resent[request.auth] = 0

(* A request that may not be sent again has not been sent in these phases.    *)
Unsent ==
  \/ request.phase \in {"start", "select", "filter", "prepare", "send", "over"}
  \/ At("blame") /\ request.next = "select"

SentOnce ==
  ~limits.replayable =>
    /\ request.round = 0
    /\ request.phase \notin {"repair", "trust", "resend", "cool", "wait"}
    /\ Unsent => \A a \in Auths : sent[a] = 0 /\ resent[a] = 0
    /\ \A a, b \in Auths : sent[a] + resent[a] > 0 /\ sent[b] + resent[b] > 0 => a = b

BudgetInv == TriedCounted /\ AttemptedOnce /\ SentOnce

LEMMA LimitNumbers ==
  ASSUME RequestInv
  PROVE  /\ limits.cap \in Nat /\ limits.retries \in Nat /\ limits.replayable \in BOOLEAN
         /\ request.attempted \in Nat /\ request.round \in Nat
  <1>1. limits \in [retries : Nat, cap : Nat, wait : Nat, replayable : BOOLEAN] /\ request \in Requests
    BY DEF RequestInv
  <1>2. QED
    BY <1>1, RequestFields

(* The step of an attempt, and what it makes of the counters.                 *)
LEMMA CountedOp ==
  ASSUME RequestInv, BudgetInv, Counted, request.phase \in {"send", "resend"}
  PROVE  /\ request.auth \in Auths
         /\ sent' \in [Auths -> Nat] /\ resent' \in [Auths -> Nat] /\ stolen' = stolen
         /\ SentAuths' \subseteq SentAuths \cup {request.auth}
         /\ \A a \in Auths \ {request.auth} : sent'[a] = sent[a] /\ resent'[a] = resent[a]
         /\ request.phase = "send" =>
              /\ sent'[request.auth] = sent[request.auth] + 1
              /\ resent'[request.auth] = resent[request.auth]
         /\ request.phase = "resend" =>
              /\ sent'[request.auth] = sent[request.auth]
              /\ resent'[request.auth] = resent[request.auth] + 1
  <1>1. request.auth \in Auths
    BY AuthInHand DEF WithAuth
  <1>2. sent \in [Auths -> Nat] /\ resent \in [Auths -> Nat]
    BY DEF BudgetInv, TriedCounted
  <1>3. stolen' = stolen
    BY DEF Counted
  <1>4. CASE request.phase = "send"
    <2>1. sent' = [sent EXCEPT ![request.auth] = sent[request.auth] + 1] /\ resent' = resent
      BY <1>2, <1>4 DEF Counted, At
    <2>2. sent[request.auth] + 1 \in Nat
      BY <1>1, <1>2
    <2>3. sent' \in [Auths -> Nat]
      BY <1>2, <2>1, <2>2
    <2>4. \A a \in Auths \ {request.auth} : sent'[a] = sent[a]
      BY <1>2, <2>1
    <2>5. SentAuths' \subseteq SentAuths \cup {request.auth}
      BY <2>4 DEF SentAuths
    <2>6. QED
      BY <1>1, <1>2, <1>3, <1>4, <2>1, <2>3, <2>4, <2>5
  <1>5. CASE request.phase = "resend"
    <2>1. resent' = [resent EXCEPT ![request.auth] = resent[request.auth] + 1] /\ sent' = sent
      BY <1>2, <1>5 DEF Counted, At
    <2>2. resent[request.auth] + 1 \in Nat
      BY <1>1, <1>2
    <2>3. resent' \in [Auths -> Nat]
      BY <1>2, <2>1, <2>2
    <2>4. \A a \in Auths \ {request.auth} : resent'[a] = resent[a]
      BY <1>2, <2>1
    <2>5. SentAuths' = SentAuths
      BY <2>1 DEF SentAuths
    <2>6. QED
      BY <1>1, <1>2, <1>3, <1>5, <2>1, <2>3, <2>4, <2>5
  <1>6. QED
    BY <1>4, <1>5

(* Whatever the request is about, the ends and the moves between phases keep  *)
(* the count of what it has tried.                                            *)
LEMMA TriedCountedKept ==
  ASSUME RequestInv, BudgetInv, limits' = limits, sent' \in [Auths -> Nat], resent' \in [Auths -> Nat],
         \/ /\ request'.tried = request.tried /\ request'.attempted = request.attempted
            /\ request'.auth \in {request.auth, NoAuth}
            /\ request'.phase = "filter" => request.phase = "filter" \/ ~CapReached
         \/ request'.tried = {} /\ request'.attempted = 0 /\ request'.auth = NoAuth
            /\ request'.phase # "filter"
         \/ request.phase = "filter" /\ \E a : Takes(a)
  PROVE  TriedCounted'
  <1>0. request.attempted \in Nat /\ limits.cap \in Nat
    BY LimitNumbers
  <1>1. CASE /\ request'.tried = request.tried /\ request'.attempted = request.attempted
             /\ request'.auth \in {request.auth, NoAuth}
             /\ request'.phase = "filter" => request.phase = "filter" \/ ~CapReached
    <2>1. limits.cap > 0 => request.attempted <= limits.cap
                            /\ (request'.phase = "filter" => request.attempted < limits.cap)
      BY <1>0, <1>1 DEF BudgetInv, TriedCounted, At, CapReached
    <2>2. QED
      BY <1>1, <2>1 DEF BudgetInv, TriedCounted, At
  <1>2. CASE request'.tried = {} /\ request'.attempted = 0 /\ request'.auth = NoAuth
             /\ request'.phase # "filter"
    <2>1. IsFiniteSet({}) /\ Cardinality({}) = 0
      BY FS_EmptySet
    <2>2. QED
      BY <1>0, <1>2, <2>1 DEF TriedCounted, At
  <1>3. ASSUME request.phase = "filter", NEW a, Takes(a)
        PROVE  TriedCounted'
    <2>1. /\ request'.tried = request.tried \cup {a} /\ request'.attempted = request.attempted + 1
          /\ request'.auth = a /\ request'.phase = "prepare"
      BY <1>3 DEF Takes
    <2>2. IsFiniteSet(request.tried) /\ Cardinality(request.tried) <= request.attempted
      BY DEF BudgetInv, TriedCounted
    <2>3. /\ IsFiniteSet(request.tried \cup {a})
          /\ Cardinality(request.tried \cup {a}) \in {Cardinality(request.tried), Cardinality(request.tried) + 1}
      BY <2>2, FS_AddElement
    <2>4. Cardinality(request.tried) \in Nat
      BY <2>2, FS_CardinalityType
    <2>5. Cardinality(request.tried \cup {a}) <= request.attempted + 1
      BY <1>0, <2>2, <2>3, <2>4
    <2>6. limits.cap > 0 => request.attempted + 1 <= limits.cap
      BY <1>0, <1>3 DEF BudgetInv, TriedCounted, At
    <2>7. QED
      BY <2>1, <2>3, <2>5, <2>6 DEF TriedCounted, At
  <1>4. QED
    BY <1>1, <1>2, <1>3

(* A step that attempts nothing keeps what is said of the attempts.           *)
LEMMA AttemptedOnceKept ==
  ASSUME RequestInv, AttemptedOnce, limits' = limits, UNCHANGED <<sent, resent, stolen>>,
         request'.allowed = request.allowed, ~Over,
         (request'.phase = "done" /\ request'.tried = {}) \/ request'.tried = request.tried,
         request'.phase \in {"prepare", "send"} =>
           request.phase \in {"prepare", "send"} /\ request'.auth = request.auth,
         request'.phase \in {"repair", "trust", "resend"} =>
           request.phase \in {"repair", "trust", "resend"} /\ request'.auth = request.auth
  PROVE  AttemptedOnce'
  <1>1. SentAuths' = SentAuths
    BY DEF SentAuths
  <1>2. QED
    BY <1>1 DEF AttemptedOnce, Over, At

LEMMA SentOnceKept ==
  ASSUME SentOnce, limits' = limits, UNCHANGED <<sent, resent>>,
         ~limits.replayable => /\ request'.round = 0
                               /\ request'.phase \notin {"repair", "trust", "resend", "cool", "wait"}
                               /\ Unsent' => Unsent
  PROVE  SentOnce'
  BY DEF SentOnce

(* Where a phase tells that the request was not sent.                         *)
LEMMA UnsentPhases ==
  /\ \A phase \in {"done", "refuse", "judge", "cool", "wait", "repair", "trust", "resend"} :
       request'.phase = phase => ~(Unsent')
  /\ request'.phase = "blame" => (Unsent' <=> request'.next = "select")
  /\ request.phase \in {"start", "select", "filter", "prepare", "send", "over"} => Unsent
  BY DEF Unsent, At

LEMMA StartBudget ==
  ASSUME RequestInv, BudgetInv, Start
  PROVE  BudgetInv'
  <1>1. /\ request.phase = "start" /\ UNCHANGED <<limits, sent, resent, stolen>>
        /\ request.tried = {} /\ request.auth = NoAuth
    BY StartOp, AuthInHand DEF Start, counts, RequestInv, At, WithAuth
  <1>2. /\ request'.tried = {} /\ request'.auth = NoAuth /\ request'.phase \in {"done", "select"}
        /\ request'.attempted \in {0, request.attempted} /\ request'.round \in {0, request.round}
        /\ request'.phase = "done" => request'.attempted = 0
        /\ request'.phase = "select" => request'.attempted = request.attempted
    BY <1>1, StartOp DEF EndsWith
  <1>3. TriedCounted'
    BY <1>1, <1>2, TriedCountedKept DEF BudgetInv, TriedCounted
  <1>4. AttemptedOnce'
    <2>1. SentAuths' = SentAuths
      BY <1>1 DEF SentAuths
    <2>2. ~stolen => SentAuths = {}
      BY <1>1 DEF BudgetInv, AttemptedOnce, Over, At
    <2>3. QED
      BY <1>1, <1>2, <2>1, <2>2 DEF BudgetInv, AttemptedOnce, Over, At
  <1>5. SentOnce'
    <2>1. Unsent
      BY <1>1 DEF Unsent
    <2>2. SentOnce
      BY DEF BudgetInv
    <2>3. ~limits.replayable => request'.round = 0
      BY <1>2, <2>2 DEF SentOnce
    <2>4. QED
      BY <1>1, <1>2, <2>1, <2>2, <2>3, SentOnceKept
  <1>6. QED
    BY <1>3, <1>4, <1>5 DEF BudgetInv

LEMMA TakesBudget ==
  ASSUME RequestInv, BudgetInv, request.phase = "filter", UNCHANGED <<limits, sent, resent>>, NEW a, Takes(a),
         stolen' \/ (stolen' = stolen /\ a \in Eligible)
  PROVE  BudgetInv'
  <1>1. /\ request'.tried = request.tried \cup {a} /\ request'.phase = "prepare" /\ request'.auth = a
        /\ request'.allowed = request.allowed /\ request'.round = request.round /\ a \in Auths
    BY DEF Takes
  <1>2. TriedCounted'
    BY TriedCountedKept DEF BudgetInv, TriedCounted
  <1>3. AttemptedOnce'
    <2>1. SUFFICES ASSUME ~stolen, stolen' = stolen, a \in Eligible
                   PROVE  AttemptedOnce'
      BY DEF AttemptedOnce
    <2>2. a \in request.allowed /\ a \notin request.tried
      BY <2>1 DEF Eligible
    <2>3. SentAuths' = SentAuths
      BY DEF SentAuths
    <2>4. SentAuths \subseteq request.tried
      BY <2>1 DEF BudgetInv, AttemptedOnce, Over, At
    <2>5. sent[a] = 0
      <3>1. ~(sent[a] > 0) /\ sent[a] \in Nat
        BY <1>1, <2>2, <2>4 DEF SentAuths, BudgetInv, TriedCounted
      <3>2. QED
        BY <3>1
    <2>6. QED
      BY <1>1, <2>1, <2>2, <2>3, <2>4, <2>5 DEF BudgetInv, AttemptedOnce, Over, At
  <1>4. SentOnce'
    BY <1>1, UnsentPhases, SentOnceKept DEF BudgetInv, SentOnce
  <1>5. QED
    BY <1>2, <1>3, <1>4 DEF BudgetInv

LEMMA NewRoundBudget ==
  ASSUME RequestInv, BudgetInv, NewRound
  PROVE  BudgetInv'
  <1>1. /\ request.phase = "wait" /\ request'.phase = "select" /\ limits' = limits
        /\ request'.tried = {} /\ request'.attempted = 0 /\ request'.auth = NoAuth
        /\ sent' = [a \in Auths |-> 0] /\ resent' = [a \in Auths |-> 0] /\ request' \in Requests
    BY NewRoundOp
  <1>2. TriedCounted'
    BY <1>1, TriedCountedKept
  <1>3. SentAuths' = {}
    BY <1>1 DEF SentAuths
  <1>4. AttemptedOnce'
    <2>1. Cardinality({}) = 0 /\ (limits.cap > 0 => 0 <= limits.cap)
      BY FS_EmptySet, LimitNumbers
    <2>2. \A a \in Auths : resent'[a] <= sent'[a] /\ sent'[a] <= 1
      BY <1>1
    <2>3. QED
      BY <1>1, <1>3, <2>1, <2>2 DEF AttemptedOnce, Over, At
  <1>5. SentOnce'
    BY <1>1 DEF BudgetInv, SentOnce
  <1>6. QED
    BY <1>2, <1>4, <1>5 DEF BudgetInv

LEMMA AttemptBudget ==
  ASSUME RequestInv, BudgetInv, Attempt
  PROVE  BudgetInv'
  <1>0. TriedCounted /\ AttemptedOnce /\ SentOnce
    BY DEF BudgetInv
  <1>1. /\ request.phase \in {"send", "resend"} /\ request.auth \in Auths /\ request.auth # NoAuth
        /\ limits' = limits /\ stolen' = stolen /\ Counted
    BY AttemptOp, FailoverNumbers
  <1>2. \/ EndsWith("answered")
        \/ request.phase = "send" /\ limits.replayable /\ GoesTo("repair")
        \/ \E next \in {"select", "done", "refuse"} :
             Blames(next) /\ (~limits.replayable => next # "select" \/ request.phase = "resend")
    BY AttemptOp
  <1>3. /\ request'.phase \in {"done", "repair", "blame"} /\ request'.allowed = request.allowed
        /\ request'.phase = "done" => request'.tried = {} /\ request'.attempted = 0 /\ request'.auth = NoAuth
                                      /\ request'.round = 0
        /\ request'.phase # "done" => /\ request'.tried = request.tried
                                      /\ request'.attempted = request.attempted
                                      /\ request'.auth = request.auth /\ request'.round = request.round
        /\ request'.phase = "repair" => request.phase = "send" /\ limits.replayable
        /\ ~limits.replayable /\ request'.phase = "blame" => request'.next # "select" \/ request.phase = "resend"
    <2>1. {"blame", "repair"} \subseteq WithAuth
      BY DEF WithAuth
    <2>2. CASE EndsWith("answered")
      BY <2>2 DEF EndsWith
    <2>3. CASE request.phase = "send" /\ limits.replayable /\ GoesTo("repair")
      BY <2>1, <2>3 DEF GoesTo
    <2>4. ASSUME NEW next, Blames(next), ~limits.replayable => next # "select" \/ request.phase = "resend"
          PROVE  /\ request'.phase = "blame" /\ request'.next = next /\ request'.allowed = request.allowed
                 /\ request'.tried = request.tried /\ request'.attempted = request.attempted
                 /\ request'.auth = request.auth /\ request'.round = request.round
      BY <2>1, <2>4 DEF Blames, GoesTo
    <2>5. QED
      BY <1>2, <2>2, <2>3, <2>4
  <1>4. /\ sent' \in [Auths -> Nat] /\ resent' \in [Auths -> Nat]
        /\ SentAuths' \subseteq SentAuths \cup {request.auth}
        /\ \A a \in Auths \ {request.auth} : sent'[a] = sent[a] /\ resent'[a] = resent[a]
        /\ request.phase = "send" => sent'[request.auth] = sent[request.auth] + 1
                                     /\ resent'[request.auth] = resent[request.auth]
        /\ request.phase = "resend" => sent'[request.auth] = sent[request.auth]
                                       /\ resent'[request.auth] = resent[request.auth] + 1
    BY <1>1, CountedOp
  <1>5. TriedCounted'
    BY <1>1, <1>3, <1>4, TriedCountedKept
  <1>6. AttemptedOnce'
    <2> SUFFICES ASSUME ~stolen PROVE AttemptedOnce'
      BY <1>1 DEF AttemptedOnce
    <2>1. /\ SentAuths \subseteq request.tried /\ request.auth \in request.tried
          /\ request.tried \subseteq request.allowed
      BY <1>0, <1>1 DEF AttemptedOnce, TriedCounted, Over, At
    <2>2. SentAuths' \subseteq request.tried
      BY <1>4, <2>1
    <2>3. /\ \A a \in Auths : sent[a] \in Nat /\ resent[a] \in Nat /\ resent[a] <= sent[a] /\ sent[a] <= 1
          /\ request.phase = "send" => sent[request.auth] = 0
          /\ request.phase = "resend" => sent[request.auth] = 1 /\ resent[request.auth] = 0
      BY <1>0 DEF AttemptedOnce, TriedCounted
    <2>4. resent[request.auth] \in Nat /\ resent[request.auth] <= sent[request.auth]
      BY <1>1, <2>3
    <2>5. /\ sent'[request.auth] = 1
          /\ request.phase = "send" => resent'[request.auth] = 0
          /\ request.phase = "resend" => resent'[request.auth] = 1
      BY <1>1, <1>4, <2>3, <2>4
    <2>6. \A a \in Auths : resent'[a] <= sent'[a] /\ sent'[a] <= 1
      BY <1>1, <1>4, <2>3, <2>5
    <2>7. limits.cap > 0 => Cardinality(SentAuths') <= limits.cap
      <3>1. IsFiniteSet(request.tried) /\ Cardinality(request.tried) <= request.attempted
            /\ (limits.cap > 0 => request.attempted <= limits.cap)
        BY <1>0 DEF TriedCounted
      <3>2. IsFiniteSet(SentAuths') /\ Cardinality(SentAuths') <= Cardinality(request.tried)
        BY <2>2, <3>1, FS_Subset
      <3>3. /\ Cardinality(SentAuths') \in Nat /\ Cardinality(request.tried) \in Nat
            /\ request.attempted \in Nat /\ limits.cap \in Nat
        BY <3>1, <3>2, FS_CardinalityType, LimitNumbers
      <3>4. QED
        BY <3>1, <3>2, <3>3
    <2>8. QED
      BY <1>1, <1>3, <2>1, <2>2, <2>5, <2>6, <2>7 DEF AttemptedOnce, Over, At
  <1>7. SentOnce'
    <2> SUFFICES ASSUME ~limits.replayable PROVE SentOnce'
      BY <1>1 DEF SentOnce
    <2>1. request.phase = "send" /\ request.round = 0
      BY <1>0, <1>1 DEF SentOnce
    <2>2. \A a \in Auths : sent[a] = 0 /\ resent[a] = 0
      BY <1>0, <2>1, UnsentPhases DEF SentOnce
    <2>3. \A a \in Auths : sent'[a] + resent'[a] > 0 => a = request.auth
      BY <1>4, <2>2
    <2>4. request'.phase \in {"done", "blame"} /\ ~(Unsent')
      BY <1>3, <2>1, UnsentPhases
    <2>5. request'.round = 0
      BY <1>3, <2>1
    <2>6. QED
      BY <2>3, <2>4, <2>5 DEF SentOnce
  <1>8. QED
    BY <1>5, <1>6, <1>7 DEF BudgetInv

(* The steps that attempt nothing and select nothing.                         *)
LEMMA MoveBudget ==
  ASSUME RequestInv, BudgetInv, UNCHANGED <<limits, sent, resent>>, stolen' \/ stolen' = stolen, ~Over,
         \/ \E code : EndsWith(code)
         \/ \E phase : /\ GoesTo(phase) /\ phase # "done"
                       /\ phase = "filter" => ~CapReached
                       /\ phase \in {"prepare", "send"} => request.phase \in {"prepare", "send"}
                       /\ phase \in {"repair", "trust", "resend"} =>
                            request.phase \in {"repair", "trust", "resend"}
                       /\ phase \in {"cool", "wait"} => limits.replayable
                       /\ ~limits.replayable /\ Unsent' => Unsent
  PROVE  BudgetInv'
  <1>0. TriedCounted /\ AttemptedOnce /\ SentOnce
    BY DEF BudgetInv
  <1>1. ASSUME NEW code, EndsWith(code)
        PROVE  BudgetInv'
    <2>1. /\ request'.phase = "done" /\ request'.tried = {} /\ request'.attempted = 0
          /\ request'.auth = NoAuth /\ request'.round = 0 /\ request'.allowed = request.allowed
      BY <1>1 DEF EndsWith
    <2>2. TriedCounted'
      BY <1>0, <2>1, TriedCountedKept DEF TriedCounted
    <2>3. AttemptedOnce'
      <3>1. CASE stolen'
        BY <3>1 DEF AttemptedOnce
      <3>2. CASE stolen' = stolen
        BY <1>0, <2>1, <3>2, AttemptedOnceKept
      <3>3. QED
        BY <3>1, <3>2
    <2>4. SentOnce'
      BY <1>0, <2>1, UnsentPhases, SentOnceKept
    <2>5. QED
      BY <2>2, <2>3, <2>4 DEF BudgetInv
  <1>2. ASSUME NEW phase, GoesTo(phase), phase # "done",
               phase = "filter" => ~CapReached,
               phase \in {"prepare", "send"} => request.phase \in {"prepare", "send"},
               phase \in {"repair", "trust", "resend"} => request.phase \in {"repair", "trust", "resend"},
               phase \in {"cool", "wait"} => limits.replayable,
               ~limits.replayable /\ Unsent' => Unsent
        PROVE  BudgetInv'
    <2>1. /\ request'.phase = phase /\ request'.tried = request.tried
          /\ request'.attempted = request.attempted /\ request'.round = request.round
          /\ request'.allowed = request.allowed /\ request'.auth \in {request.auth, NoAuth}
          /\ phase \in WithAuth => request'.auth = request.auth
      BY <1>2 DEF GoesTo
    <2>2. TriedCounted'
      BY <1>0, <1>2, <2>1, TriedCountedKept DEF TriedCounted
    <2>3. AttemptedOnce'
      <3>1. CASE stolen'
        BY <3>1 DEF AttemptedOnce
      <3>2. CASE stolen' = stolen
        BY <1>0, <1>2, <2>1, <3>2, AttemptedOnceKept DEF WithAuth
      <3>3. QED
        BY <3>1, <3>2
    <2>4. SentOnce'
      BY <1>0, <1>2, <2>1, SentOnceKept DEF SentOnce
    <2>5. QED
      BY <2>2, <2>3, <2>4 DEF BudgetInv
  <1>3. QED
    BY <1>1, <1>2

LEMMA BudgetKeptByWork ==
  ASSUME RequestInv, MemoryTypes, BudgetInv, Work \/ Cancel
  PROVE  BudgetInv'
  <1>0. ~Over /\ limits' = limits
    BY WorkKeepsShape
  <1>00. ~limits.replayable => request.phase \notin {"repair", "trust", "resend", "cool", "wait"}
    BY DEF BudgetInv, SentOnce
  <1>1. CASE Start \/ Attempt \/ NewRound
    BY <1>1, StartBudget, AttemptBudget, NewRoundBudget
  <1>2. CASE ListForSelect
    <2>1. /\ request.phase = "select" /\ GoesTo("filter") /\ UNCHANGED <<sent, resent, stolen>> /\ ~CapReached
      BY <1>2, ListOp DEF ListForSelect, Phases, WithAuth
    <2>2. QED
      BY <1>0, <2>1, UnsentPhases, MoveBudget
  <1>3. CASE ListForRetry \/ ListForRefusal
    <2>1. /\ \E phase \in {"cool", "judge"} : GoesTo(phase) /\ (phase = "cool" => limits.replayable)
          /\ UNCHANGED <<sent, resent, stolen>>
      BY <1>3, ListOp DEF ListForRetry, ListForRefusal, Phases, WithAuth, MayRetry
    <2>2. PICK phase \in {"cool", "judge"} : GoesTo(phase) /\ (phase = "cool" => limits.replayable)
      BY <2>1
    <2>3. ~(Unsent')
      BY <2>2, UnsentPhases DEF GoesTo
    <2>4. QED
      BY <1>0, <2>1, <2>2, <2>3, MoveBudget
  <1>4. CASE Select
    <2>1. request.phase = "filter" /\ UNCHANGED <<sent, resent>>
      BY <1>4, SelectOp
    <2>2. CASE GoesTo("over") /\ stolen' = stolen
      BY <1>0, <2>1, <2>2, UnsentPhases, MoveBudget
    <2>3. ASSUME NEW a \in Eligible, Takes(a), stolen' = stolen
          PROVE  BudgetInv'
      BY <1>0, <2>1, <2>3, TakesBudget
    <2>4. ASSUME NEW a, Takes(a), stolen' = TRUE
          PROVE  BudgetInv'
      BY <1>0, <2>1, <2>4, TakesBudget
    <2>5. CASE EndsWith("session_lost") /\ stolen' = TRUE
      BY <1>0, <2>1, <2>5, MoveBudget
    <2>6. QED
      BY <1>4, <2>2, <2>3, <2>4, <2>5, SelectOp
  <1>5. CASE Prepare
    <2>1. /\ request.phase = "prepare" /\ UNCHANGED <<sent, resent, stolen>>
          /\ GoesTo("send") \/ GoesTo("blame")
      BY <1>5, PrepareOp DEF Blames
    <2>2. QED
      BY <1>0, <2>1, UnsentPhases, MoveBudget
  <1>6. CASE Repair \/ Trust
    <2>1. /\ request.phase \in {"repair", "trust"} /\ UNCHANGED <<sent, resent, stolen>>
          /\ GoesTo("trust") \/ GoesTo("resend") \/ GoesTo("blame")
      BY <1>6, RepairOp, TrustOp DEF Blames
    <2>2. QED
      BY <1>0, <1>00, <2>1, MoveBudget
  <1>7. CASE Blame
    <2>1. /\ request.phase = "blame" /\ UNCHANGED <<sent, resent, stolen>>
          /\ request.next \in {"select", "done", "refuse"}
          /\ IF request.next = "done" THEN EndsWith("answered") ELSE GoesTo(request.next)
      BY <1>7, BlameOp
    <2>2. CASE request.next = "done"
      BY <1>0, <2>1, <2>2, MoveBudget
    <2>3. CASE request.next = "select"
      <3>1. Unsent
        BY <2>1, <2>3 DEF Unsent, At
      <3>2. QED
        BY <1>0, <2>1, <2>3, <3>1, MoveBudget
    <2>4. CASE request.next = "refuse"
      <3>1. ~(Unsent')
        BY <2>1, <2>4, UnsentPhases DEF GoesTo
      <3>2. QED
        BY <1>0, <2>1, <2>4, <3>1, MoveBudget
    <2>5. QED
      BY <2>1, <2>2, <2>3, <2>4
  <1>8. CASE RoundFull \/ LastRound
    <2>1. /\ UNCHANGED <<sent, resent, stolen>>
          /\ \/ request.phase = "select" /\ GoesTo("over")
             \/ GoesTo("refuse")
      BY <1>8, PassOp
    <2>2. CASE request.phase = "select" /\ GoesTo("over")
      BY <1>0, <2>1, <2>2, UnsentPhases, MoveBudget
    <2>3. CASE GoesTo("refuse")
      <3>1. ~(Unsent')
        BY <2>3, UnsentPhases DEF GoesTo
      <3>2. QED
        BY <1>0, <2>1, <2>3, <3>1, MoveBudget
    <2>4. QED
      BY <2>1, <2>2, <2>3
  <1>9. CASE AwaitCooldown
    <2>1. /\ request.phase = "cool" /\ UNCHANGED <<sent, resent, stolen>>
          /\ GoesTo("wait") \/ GoesTo("refuse")
      BY <1>9, AwaitCooldownOp
    <2>2. limits.replayable
      BY <1>00, <2>1
    <2>3. QED
      BY <1>0, <2>1, <2>2, MoveBudget
  <1>10. CASE Refuse \/ Cancel
    <2>1. (\E code : EndsWith(code)) /\ UNCHANGED <<sent, resent, stolen>>
      BY <1>10, RefuseOp, CancelOp
    <2>2. QED
      BY <1>0, <2>1, MoveBudget
  <1>11. QED
    BY <1>1, <1>2, <1>3, <1>4, <1>5, <1>6, <1>7, <1>8, <1>9, <1>10 DEF Work

LEMMA BudgetKept ==
  ASSUME RequestInv, MemoryTypes, BudgetInv, [FailoverNext]_failoverVars
  PROVE  BudgetInv'
  <1>1. CASE Work \/ Cancel
    BY <1>1, BudgetKeptByWork
  <1>2. CASE UNCHANGED <<request, limits, sent, resent, stolen>>
    BY <1>2 DEF BudgetInv, TriedCounted, AttemptedOnce, SentOnce, SentAuths, Unsent, Over, At
  <1>3. QED
    BY <1>1, <1>2, OthersOp DEF FailoverNext, failoverVars

LEMMA BudgetStarts ==
  ASSUME FailoverInit
  PROVE  BudgetInv
  <1>1. /\ request = Fresh /\ sent = [a \in Auths |-> 0] /\ resent = [a \in Auths |-> 0]
    BY DEF FailoverInit
  <1>2. /\ request.tried = {} /\ request.attempted = 0 /\ request.auth = NoAuth /\ request.phase = "start"
        /\ request.round = 0
    BY <1>1, FreshFields
  <1>3. /\ IsFiniteSet({}) /\ Cardinality({}) = 0
        /\ limits.cap \in Nat
    BY FS_EmptySet, LimitNumbers, TypesStart
  <1>4. SentAuths = {}
    BY <1>1 DEF SentAuths
  <1>5. TriedCounted
    BY <1>1, <1>2, <1>3 DEF TriedCounted, At
  <1>6. AttemptedOnce
    BY <1>1, <1>2, <1>3, <1>4 DEF AttemptedOnce, Over, At
  <1>7. SentOnce
    BY <1>1, <1>2 DEF SentOnce
  <1>8. QED
    BY <1>5, <1>6, <1>7 DEF BudgetInv

(* A request whose body cannot be sent again is sent once, in one round; any  *)
(* other tries a credential once in a round, once more after a repair, never  *)
(* one it may not use, and no more of them than max-retry-credentials says,   *)
(* unless others keep moving its session (executeUpstream).                   *)
THEOREM RequestStaysWithinBudget == FailoverSpec => []SentWithinBudget
  <1> DEFINE Inv == RequestInv /\ MemoryTypes /\ BudgetInv
  <1>1. FailoverInit => Inv
    BY TypesStart, BudgetStarts
  <1>2. RequestInv /\ MemoryTypes /\ [FailoverNext]_failoverVars => (RequestInv /\ MemoryTypes)'
    <2>1. RequestInv /\ MemoryTypes /\ UNCHANGED failoverVars => (RequestInv /\ MemoryTypes)'
      BY DEF failoverVars, healthVars, RequestInv, MemoryTypes, At, Over
    <2>2. QED
      BY <2>1, TypesKept
  <1>3. Inv /\ [FailoverNext]_failoverVars => Inv'
    BY <1>2, BudgetKept
  <1>4. Inv => SentWithinBudget
    <2> SUFFICES ASSUME Inv PROVE SentWithinBudget
      OBVIOUS
    <2>1. ~limits.replayable => Cardinality({a \in Auths : sent[a] + resent[a] > 0}) <= 1
      <3> DEFINE S == {a \in Auths : sent[a] + resent[a] > 0}
      <3> SUFFICES ASSUME ~limits.replayable PROVE Cardinality(S) <= 1
        OBVIOUS
      <3>1. \A a, b \in S : a = b
        BY DEF BudgetInv, SentOnce
      <3>2. S = {} \/ \E a : S = {a}
        BY <3>1
      <3> HIDE DEF S
      <3>3. Cardinality(S) \in {0, 1}
        BY <3>2, FS_EmptySet, FS_Singleton
      <3>4. QED
        BY <3>3
    <2>2. QED
      BY <2>1 DEF BudgetInv, AttemptedOnce, SentOnce, SentAuths, SentWithinBudget
  <1>5. QED
    BY <1>1, <1>3, <1>4, PTL DEF FailoverSpec

-----------------------------------------------------------------------------
(* BlameMatches: a verdict about tokens that are older than those seen last,  *)
(* or about an auth whose file was gone then, is one that came late or whose  *)
(* change a scan kept to itself.                                              *)
Outdated(a) == Blamed(a) /\ (~seen[a].here \/ states[a].cred < seen[a].cred)

BlameInv ==
  /\ left \in Nat
  /\ \A a \in Auths : Outdated(a) => a \in excused

LEMMA NothingIsNotBlamed == NoState.kind \notin CredentialKinds
  BY DEF NoState, CredentialKinds

LEMMA ExcusedHistory ==
  ASSUME History, NEW a \in Auths, Blamed(a)', a \in excused \/ Late(a) \/ Unheard(a)
  PROVE  a \in excused'
  BY DEF History, Excused

(* No verdict is added and none of the files is looked at.                    *)
LEMMA NoNewBlame ==
  ASSUME NEW a \in Auths, Outdated(a) => a \in excused, History, seen' = seen,
         states'[a] \in {states[a], NoState}
  PROVE  Outdated(a)' => a \in excused'
  <1> SUFFICES ASSUME Outdated(a)' PROVE a \in excused'
    OBVIOUS
  <1>1. Blamed(a)'
    BY DEF Outdated
  <1>2. states'[a] = states[a]
    BY <1>1, NothingIsNotBlamed DEF Blamed
  <1>3. Outdated(a)
    BY <1>2 DEF Outdated, Blamed
  <1>4. QED
    BY <1>1, <1>3, ExcusedHistory

(* A scan: what it makes of the verdicts, or what it keeps to itself.         *)
LEMMA ScanBlame ==
  ASSUME RequestInv, MemoryTypes, NEW a \in Auths, Outdated(a) => a \in excused, History, seen' = file,
         states'[a] \in {states[a], NoState},
         \/ ChangeOf(a) # "none" /\ DropsState(ChangeOf(a), TokensIn(file[a]), states[a])
              => states'[a] = NoState
         \/ ChangeOf(a) # "none" => Unheard(a)
  PROVE  Outdated(a)' => a \in excused'
  <1> SUFFICES ASSUME Outdated(a)' PROVE a \in excused'
    OBVIOUS
  <1>1. Blamed(a)' /\ (~file[a].here \/ states'[a].cred < file[a].cred)
    BY DEF Outdated
  <1>2. states'[a] = states[a] /\ states[a].kind \in CredentialKinds /\ Blamed(a)
    BY <1>1, NothingIsNotBlamed DEF Blamed
  <1>3. CASE ChangeOf(a) = "none"
    <2>1. seen[a] = file[a] \/ ~seen[a].here
      <3>1. CASE seen[a] = file[a] \/ ~seen[a].here
        BY <3>1
      <3>2. CASE ~(seen[a] = file[a] \/ ~seen[a].here)
        <4>1. ChangeOf(a) \in {"removed", "rotated", "updated"}
          BY <3>2 DEF ChangeOf
        <4>2. QED
          BY <1>3, <4>1
      <3>3. QED
        BY <3>1, <3>2
    <2>2. Outdated(a)
      BY <1>1, <1>2, <2>1 DEF Outdated
    <2>3. QED
      BY <1>1, <2>2, ExcusedHistory
  <1>4. CASE ChangeOf(a) # "none"
    <2>1. ASSUME ~DropsState(ChangeOf(a), TokensIn(file[a]), states[a])
          PROVE  FALSE
      <3>1. ChangeOf(a) \in {"removed", "rotated", "updated"}
        BY <1>4 DEF ChangeOf
      <3>2. ChangeOf(a) # "removed"
        BY <2>1 DEF DropsState
      <3>3. file[a].here
        BY <1>4, <3>2 DEF ChangeOf
      <3>4. TokensIn(file[a]) = file[a].cred /\ states[a].cred < file[a].cred
        BY <1>1, <1>2, <3>3 DEF TokensIn
      <3>5. states[a].cred \in Nat /\ file[a].cred \in Nat
        <4>1. states[a] \in Memory /\ file[a] \in AuthFiles
          BY DEF MemoryTypes, RequestInv
        <4>2. QED
          BY <4>1 DEF Memory, AuthFiles
      <3>6. states[a].cred # TokensIn(file[a])
        BY <3>4, <3>5
      <3>7. QED
        BY <1>2, <2>1, <3>1, <3>2, <3>6 DEF DropsState
    <2>2. states'[a] # NoState
      BY <1>1, NothingIsNotBlamed DEF Blamed
    <2>3. Unheard(a)
      BY <1>4, <2>1, <2>2
    <2>4. QED
      BY <1>1, <2>3, ExcusedHistory
  <1>5. QED
    BY <1>3, <1>4

LEMMA ReconcileBlame ==
  ASSUME RequestInv, MemoryTypes, ReconcileAuths, History, NEW a \in Auths, Outdated(a) => a \in excused
  PROVE  Outdated(a)' => a \in excused'
  BY ReconcileAuthsOp, ScanBlame

(* A report about one auth: the state it leaves is the old one, none, or the  *)
(* new one.                                                                   *)
LEMMA FailureBlame ==
  ASSUME RequestInv, MemoryTypes, NEW c \in Nat, NEW f \in Failures, NEW b \in Auths, MarkFailure(b, c, f),
         NEW a \in Auths
  PROVE  \/ states'[a] \in {states[a], NoState}
         \/ a = b /\ (Blamed(a)' => states'[a].cred = c)
  <1>1. CASE f.kind = "model"
    <2>1. MarkModelUnsupported(b, Model, c, TRUE) /\ ~LiftFails(states[b], TRUE)
      BY <1>1 DEF MarkFailure, LiftFails
    <2>2. states' = [states EXCEPT ![b] = Lifted(states[b])]
      BY <2>1 DEF MarkModelUnsupported, MemoryTypes
    <2>3. QED
      BY <2>2, LiftedTypes DEF MemoryTypes
  <1>2. CASE f.kind # "model"
    <2>1. MarkUnavailable(b, Verdict(f, c), TRUE)
      BY <1>2 DEF MarkFailure
    <2>2. states' = states \/ states' = [states EXCEPT ![b] = Verdict(f, c)]
      BY <2>1 DEF MarkUnavailable
    <2>3. Verdict(f, c).kind \in CredentialKinds => Verdict(f, c).cred = c
      BY DEF Verdict
    <2>4. QED
      BY <2>2, <2>3 DEF MemoryTypes, Blamed
  <1>3. QED
    BY <1>1, <1>2

LEMMA HealthyBlame ==
  ASSUME MemoryTypes, NEW b \in Auths, MarkHealthy(b, Model, TRUE) \/ MarkCredentialHealthy(b, TRUE),
         NEW a \in Auths
  PROVE  states'[a] \in {states[a], NoState}
  <1>1. CASE MarkHealthy(b, Model, TRUE)
    <2>1. ~LiftFails(states[b], TRUE)
      BY DEF LiftFails
    <2>2. states' = [states EXCEPT ![b] = Lifted(states[b])]
      BY <1>1, <2>1 DEF MarkHealthy, MemoryTypes
    <2>3. QED
      BY <2>2, LiftedTypes DEF MemoryTypes
  <1>2. CASE MarkCredentialHealthy(b, TRUE)
    <2>1. states' = [states EXCEPT ![b] = NoState]
      BY <1>2 DEF MarkCredentialHealthy
    <2>2. QED
      BY <2>1 DEF MemoryTypes
  <1>3. QED
    BY <1>1, <1>2

LEMMA LeftKept ==
  ASSUME left \in Nat, Work \/ Cancel \/ Others \/ TimePasses
  PROVE  left' \in Nat
  <1>1. CASE left' = left
    BY <1>1
  <1>2. CASE left > 0 /\ left' = left - 1
    BY <1>2
  <1>3. CASE Start \/ ListForSelect \/ ListForRetry \/ ListForRefusal \/ Prepare \/ Repair
    BY <1>1, <1>3 DEF Start, ListForSelect, ListForRetry, ListForRefusal, List, Prepare, Repair
  <1>4. CASE RoundFull \/ Attempt \/ Trust \/ Blame \/ LastRound \/ AwaitCooldown \/ NewRound \/ Refuse \/ Cancel
    BY <1>1, <1>4 DEF RoundFull, Attempt, Trust, Blame, LastRound, AwaitCooldown, NewRound, Refuse, Cancel
  <1>5. CASE Select
    BY <1>1, <1>2, <1>5 DEF Select
  <1>6. CASE OthersScan \/ TimePasses
    BY <1>1, <1>2, <1>6 DEF OthersScan, TimePasses
  <1>7. CASE \E a \in Auths : ChangeFile(a) \/ OthersReport(a)
    BY <1>2, <1>7 DEF ChangeFile, OthersReport, Disturb
  <1>8. QED
    BY <1>3, <1>4, <1>5, <1>6, <1>7 DEF Work, Others

LEMMA BlameKeptByBlame ==
  ASSUME RequestInv, MemoryTypes, Blame, History, NEW a \in Auths, Outdated(a) => a \in excused
  PROVE  Outdated(a)' => a \in excused'
  <1>1. /\ request.phase = "blame" /\ request.auth \in Auths /\ seen' = seen
        /\ MarkFailure(request.auth, request.cred, request.pending)
    BY BlameOp
  <1>2. request.cred \in Nat /\ request.pending \in Failures
    BY RequestFields DEF RequestInv
  <1>3. CASE states'[a] \in {states[a], NoState}
    BY <1>1, <1>3, NoNewBlame
  <1>4. CASE a = request.auth /\ (Blamed(a)' => states'[a].cred = request.cred)
    <2> SUFFICES ASSUME Outdated(a)' PROVE a \in excused'
      OBVIOUS
    <2>1. Blamed(a)' /\ (~seen[a].here \/ request.cred < seen[a].cred)
      BY <1>1, <1>4 DEF Outdated
    <2>2. Late(a)
      <3>1. seen[a].here => seen[a].cred # request.cred
        <4>1. seen[a].cred \in Nat
          <5>1. seen[a] \in AuthFiles
            BY DEF RequestInv
          <5>2. QED
            BY <5>1 DEF AuthFiles
        <4>2. QED
          BY <1>2, <2>1, <4>1
      <3>2. QED
        BY <1>1, <1>4, <3>1 DEF Late, At
    <2>3. QED
      BY <2>1, <2>2, ExcusedHistory
  <1>5. QED
    BY <1>1, <1>2, <1>3, <1>4, FailureBlame

LEMMA BlameKeptByReport ==
  ASSUME RequestInv, MemoryTypes, NEW b \in Auths, OthersReport(b), History,
         NEW a \in Auths, Outdated(a) => a \in excused
  PROVE  Outdated(a)' => a \in excused'
  <1>1. seen[b].here /\ seen' = seen
    BY DEF OthersReport
  <1>2. CASE MarkHealthy(b, Model, TRUE)
    BY <1>1, <1>2, HealthyBlame, NoNewBlame
  <1>3. ASSUME NEW f, MarkUnavailable(b, Verdict(f, seen[b].cred), TRUE)
        PROVE  Outdated(a)' => a \in excused'
    <2>1. states' = states \/ states' = [states EXCEPT ![b] = Verdict(f, seen[b].cred)]
      BY <1>3 DEF MarkUnavailable
    <2>2. CASE states' = states \/ a # b
      <3>1. states'[a] = states[a]
        BY <2>1, <2>2 DEF MemoryTypes
      <3>2. QED
        BY <1>1, <3>1, NoNewBlame
    <2>3. CASE states' = [states EXCEPT ![b] = Verdict(f, seen[b].cred)] /\ a = b
      <3>1. states'[a] = Verdict(f, seen[a].cred)
        BY <2>3 DEF MemoryTypes
      <3>2. Blamed(a)' => states'[a].cred = seen[a].cred
        BY <3>1 DEF Blamed, Verdict
      <3>3. seen[a].cred \in Nat /\ ~(seen[a].cred < seen[a].cred)
        <4>1. seen[a] \in AuthFiles
          BY DEF RequestInv
        <4>2. seen[a].cred \in Nat
          BY <4>1 DEF AuthFiles
        <4>3. QED
          BY <4>2
      <3>4. ~(Outdated(a)')
        BY <1>1, <2>3, <3>2, <3>3 DEF Outdated
      <3>5. QED
        BY <3>4
    <2>4. QED
      BY <2>1, <2>2, <2>3
  <1>4. QED
    BY <1>2, <1>3 DEF OthersReport

(* A refresh looks at the files and tells the registry nothing.               *)
LEMMA BlameKeptByRefresh ==
  ASSUME RequestInv, MemoryTypes, NEW next \in {"send", "trust"}, request.phase \in {"prepare", "repair"},
         Refresh(next), History, NEW a \in Auths, Outdated(a) => a \in excused
  PROVE  Outdated(a)' => a \in excused'
  <1>1. /\ states' = states /\ seen' = file
        /\ GoesTo(next) \/ Blames("select")
    BY RefreshOp DEF healthVars
  <1>2. request'.phase \in {"send", "trust", "blame"}
    BY <1>1 DEF GoesTo, Blames
  <1>3. request' # request
    BY <1>2
  <1>4. ChangeOf(a) # "none" => Unheard(a)
    BY <1>1, <1>3 DEF Unheard
  <1>5. QED
    BY <1>1, <1>4, ScanBlame

LEMMA BlameKept ==
  ASSUME RequestInv, MemoryTypes, BlameInv, FailoverNext
  PROVE  BlameInv'
  <1>1. Work \/ Cancel \/ Others \/ TimePasses
    BY DEF FailoverNext
  <1>2. History
    BY DEF FailoverNext
  <1>3. left' \in Nat
    BY <1>1, LeftKept DEF BlameInv
  <1>4. ASSUME NEW a \in Auths
        PROVE  Outdated(a)' => a \in excused'
    <2>1. Outdated(a) => a \in excused
      BY DEF BlameInv
    <2>2. CASE seen' = seen /\ states'[a] \in {states[a], NoState}
      BY <1>2, <2>1, <2>2, NoNewBlame
    <2>3. CASE ReconcileAuths
      BY <1>2, <2>1, <2>3, ReconcileBlame
    <2>4. CASE Start \/ ListForSelect \/ ListForRetry \/ ListForRefusal
      BY <2>3, <2>4 DEF Start, ListForSelect, ListForRetry, ListForRefusal, List
    <2>5. CASE Select \/ RoundFull \/ LastRound \/ AwaitCooldown \/ NewRound \/ Refuse \/ Cancel
      <3>1. UNCHANGED <<healthVars, seen>>
        BY <2>5 DEF Select, RoundFull, LastRound, AwaitCooldown, NewRound, Refuse, Cancel
      <3>2. QED
        BY <2>2, <3>1 DEF healthVars
    <2>6. CASE Prepare
      <3>1. CASE Refresh("send")
        BY <1>2, <2>1, <2>6, <3>1, BlameKeptByRefresh DEF Prepare, At
      <3>2. CASE UNCHANGED <<healthVars, file, seen, limits, left, counts>>
        BY <2>2, <3>2 DEF healthVars
      <3>3. QED
        BY <2>6, <3>1, <3>2 DEF Prepare
    <2>7. CASE Repair
      BY <1>2, <2>1, <2>7, BlameKeptByRefresh DEF Repair, At
    <2>8. CASE Attempt
      <3>1. /\ request.auth \in Auths /\ seen' = seen
            /\ MarkHealthy(request.auth, Model, TRUE) \/ UNCHANGED healthVars
        BY <2>8, AttemptOp
      <3>2. states'[a] \in {states[a], NoState}
        BY <3>1, HealthyBlame DEF healthVars
      <3>3. QED
        BY <2>2, <3>1, <3>2
    <2>9. CASE Trust
      <3>1. request.phase = "trust" /\ seen' = seen
        BY <2>9, TrustOp
      <3>2. request.auth \in Auths
        BY <3>1, AuthInHand DEF WithAuth
      <3>3. MarkCredentialHealthy(request.auth, TRUE) \/ UNCHANGED healthVars
        BY <2>9 DEF Trust
      <3>4. states'[a] \in {states[a], NoState}
        BY <3>2, <3>3, HealthyBlame DEF healthVars
      <3>5. QED
        BY <2>2, <3>1, <3>4
    <2>10. CASE Blame
      BY <1>2, <2>1, <2>10, BlameKeptByBlame
    <2>11. CASE OthersScan
      <3>1. CASE ScanOnly /\ left > 0 /\ left' = left - 1 /\ UNCHANGED healthVars
        <4>1. left' < left /\ seen' = file /\ states' = states
          BY <3>1 DEF BlameInv, ScanOnly, healthVars
        <4>2. ChangeOf(a) # "none" => Unheard(a)
          BY <4>1 DEF Unheard
        <4>3. QED
          BY <1>2, <2>1, <4>1, <4>2, ScanBlame
      <3>2. QED
        BY <2>3, <2>11, <3>1 DEF OthersScan
    <2>12. CASE \E b \in Auths : ChangeFile(b)
      BY <2>2, <2>12 DEF ChangeFile, healthVars
    <2>13. CASE \E b \in Auths : OthersReport(b)
      BY <1>2, <2>1, <2>13, BlameKeptByReport
    <2>14. CASE TimePasses
      BY <2>2, <2>14 DEF TimePasses, Tick
    <2>15. QED
      BY <1>1, <2>4, <2>5, <2>6, <2>7, <2>8, <2>9, <2>10, <2>11, <2>12, <2>13, <2>14 DEF Work, Others
  <1>5. QED
    BY <1>3, <1>4 DEF BlameInv

(* The registry holds older tokens against an auth only when the verdict was  *)
(* recorded after their change was seen, or when the scan that saw it kept it *)
(* to itself: a reconcile that is told of new tokens lifts what it holds      *)
(* against the old ones (reconcileAuths, MarkUnavailable).                    *)
THEOREM StandingBlameIsExcused == FailoverSpec => []BlameMatches
  <1> DEFINE Inv == RequestInv /\ MemoryTypes /\ BlameInv
  <1>1. FailoverInit => Inv
    <2> SUFFICES ASSUME FailoverInit PROVE BlameInv
      BY TypesStart
    <2>1. left \in Nat
      BY FailoverAssumption DEF FailoverInit
    <2>2. \A a \in Auths : ~Blamed(a)
      BY NothingIsNotBlamed DEF FailoverInit, Blamed
    <2>3. QED
      BY <2>1, <2>2 DEF BlameInv, Outdated
  <1>2. Inv /\ UNCHANGED failoverVars => Inv'
    BY DEF failoverVars, healthVars, RequestInv, MemoryTypes, At, Over, BlameInv, Outdated, Blamed
  <1>3. Inv /\ [FailoverNext]_failoverVars => Inv'
    BY <1>2, TypesKept, BlameKept
  <1>4. Inv => BlameMatches
    BY DEF BlameInv, Outdated, BlameMatches, Stale
  <1>5. QED
    BY <1>1, <1>3, <1>4, PTL DEF FailoverSpec

-----------------------------------------------------------------------------
(* RetryAfterServes.                                                          *)
LEMMA OnlyRefuseJudges ==
  ASSUME RequestInv, FailoverNext, At("judge"), Over'
  PROVE  Refuse \/ Cancel
  <1>1. request.phase = "judge" /\ request'.phase = "done"
    BY DEF At, Over
  <1>2. ~Start /\ ~Select /\ ~RoundFull /\ ~Prepare /\ ~Attempt /\ ~Repair /\ ~Trust /\ ~Blame
    BY <1>1 DEF Start, Select, RoundFull, Prepare, Attempt, Repair, Trust, Blame, At
  <1>3. ~ListForSelect /\ ~ListForRetry /\ ~ListForRefusal
    <2>1. \A phase, next : List(phase, next) /\ next # "done" => request'.phase # "done"
      <3> SUFFICES ASSUME NEW phase, NEW next, List(phase, next), next # "done"
                   PROVE  request'.phase # "done"
        OBVIOUS
      <3>1. request' = [request EXCEPT !.phase = next, !.list = file] /\ request \in Requests
        BY DEF List, Become, RequestInv
      <3>2. QED
        BY <3>1 DEF Requests
    <2>2. QED
      BY <1>1, <2>1 DEF ListForSelect, ListForRetry, ListForRefusal
  <1>4. ~LastRound /\ ~AwaitCooldown /\ ~NewRound
    BY <1>1 DEF LastRound, AwaitCooldown, NewRound, At
  <1>5. ~(Others \/ TimePasses)
    <2>1. Others \/ TimePasses => request' = request
      BY OthersOp
    <2>2. QED
      BY <1>1, <2>1
  <1>6. QED
    BY <1>2, <1>3, <1>4, <1>5 DEF FailoverNext, Work

(* What a quota in the final answer says of its auth.                         *)
LEMMA QuotaServesAgain ==
  ASSUME RequestInv, MemoryTypes, NEW a \in OfKind({"quota"}), BackAt(a) # 0
  PROVE  /\ a \in Serving \cap request.allowed /\ exclusions[a][Model] = NoExclusion
         /\ states[a].kind = "none" \/ states[a].retryAt \in 1 .. Later(BackAt(a))
  <1>1. a \in Candidates /\ a \notin ModelLess /\ a \notin Disabled
    BY DEF OfKind
  <1>2. a \in Serving \cap request.allowed /\ ~Excludes(a) /\ a \in Auths
    BY <1>1 DEF Candidates, ModelLess, Disabled, Listed
  <1>3. states[a].retryAt \in Nat /\ now \in Nat /\ Model \in Models
    <2>1. states[a] \in Memory
      BY <1>2 DEF MemoryTypes
    <2>2. QED
      BY <2>1, FailoverAssumption DEF Memory, RequestInv
  <1>4. CASE Blocked(a, Model)
    <2>1. exclusions[a][Model] = NoExclusion /\ BackAt(a) = states[a].retryAt
      BY <1>2, <1>4 DEF Excludes, BackAt
    <2>2. states[a].retryAt \in 1 .. Later(states[a].retryAt)
      BY <1>3, <2>1 DEF Later
    <2>3. QED
      BY <1>2, <2>1, <2>2
  <1>5. CASE ~Blocked(a, Model)
    <2>1. exclusions[a][Model] = NoExclusion /\ (states[a].kind = "none" \/ Expired(states[a]))
      BY <1>3, <1>5 DEF Blocked
    <2>2. BackAt(a) \in Nat
      <3>1. request.failures[a] \in Failures
        BY <1>2, RequestFields DEF RequestInv
      <3>2. QED
        BY <1>5, <3>1 DEF BackAt, Failures
    <2>3. Later(BackAt(a)) \in Nat /\ now <= Later(BackAt(a))
      BY <1>3, <2>2 DEF Later
    <2>4. Expired(states[a]) => states[a].retryAt \in 1 .. Later(BackAt(a))
      BY <1>3, <2>3 DEF Expired, IsZero
    <2>5. QED
      BY <1>2, <2>1, <2>4
  <1>6. QED
    BY <1>4, <1>5

LEMMA OutcomeDeadline ==
  ASSUME NEW r, NEW code, NEW t
  PROVE  Outcome(r, code, t).outcome.retryAt = t
  BY DEF Outcome, Fresh

LEMMA RefusalServes ==
  ASSUME RequestInv, MemoryTypes, FailoverNext, At("judge"), Over', request'.outcome.retryAt # 0
  PROVE  \E a \in Serving \cap request.allowed :
           /\ exclusions[a][Model] = NoExclusion
           /\ \/ states[a].kind = "none"
              \/ states[a].retryAt \in 1 .. Later(request'.outcome.retryAt)
  <1>1. request' = FinalError \/ request' = Outcome(request, "canceled", 0)
    BY OnlyRefuseJudges DEF Refuse, Cancel, Become
  <1>2. request' = FinalError
    BY <1>1, OutcomeDeadline
  <1>3. \E code \in Codes, t \in {0} \cup (IF Recoveries = {} THEN {0} ELSE {Earliest(Recoveries)}) :
          FinalError = Outcome(request, code, t)
    BY DEF FinalError, Codes
  <1>4. Recoveries # {} /\ request'.outcome.retryAt = Earliest(Recoveries)
    BY <1>2, <1>3, OutcomeDeadline
  <1>5. Earliest(Recoveries) \in Recoveries
    BY <1>4, DeadlinesAreNumbers, EarliestIsIn
  <1>6. PICK a \in OfKind({"quota"}) : BackAt(a) # 0 /\ request'.outcome.retryAt = BackAt(a)
    BY <1>4, <1>5 DEF Recoveries
  <1>7. QED
    BY <1>6, QuotaServesAgain

(* When the final answer announces a time, a credential the request may use   *)
(* serves it by then, if nobody reports anything meanwhile: the time is the   *)
(* earliest recovery among those its quota holds back (finalProxyError).      *)
THEOREM RetryAfterIsHonest == FailoverSpec => RetryAfterServes
  <1>1. RequestInv /\ MemoryTypes /\ [FailoverNext]_failoverVars =>
          [At("judge") /\ Over' /\ request'.outcome.retryAt # 0 =>
             \E a \in Serving \cap request.allowed :
               /\ exclusions[a][Model] = NoExclusion
               /\ \/ states[a].kind = "none"
                  \/ states[a].retryAt \in 1 .. Later(request'.outcome.retryAt)]_failoverVars
    BY RefusalServes
  <1>2. QED
    BY <1>1, FailoverTypes, PTL DEF FailoverSpec, RetryAfterServes

-----------------------------------------------------------------------------
(* Failover over the registry: each step of a request, of the others and of   *)
(* the clock is a step of AuthHealth or leaves the registry alone, so what    *)
(* the registry promises, it keeps under them.                                *)

(* A failure as markAuthFailure takes it: only a quota is ever announced, and *)
(* what is about a credential has no deadline.                                *)
Reportable(f) ==
  \/ f.kind \in {"model", "quota"}
  \/ f.kind = "transient" /\ ~f.explicit
  \/ f.kind \in CredentialKinds /\ ~f.explicit /\ f.retryAt = 0

(* Whatever tokens a request, a list or a file holds, some file had.          *)
TokensKnown ==
  /\ \A a \in Auths : file[a].cred \in Creds /\ seen[a].cred \in Creds
  /\ \A a \in Auths : request.list[a].here => request.list[a].cred \in Creds
  /\ request.phase \in WithAuth => request.cred \in Creds
  /\ At("blame") => Reportable(request.pending)

Running == up = TRUE /\ now > 0

LEMMA NumberedCreds == 1 \in Creds /\ NoCred \notin Creds /\ Creds \subseteq Nat
  BY FailoverAssumption

LEMMA WhatIsReportable ==
  /\ Reportable(Network) /\ Reportable(Fault("credential_invalid", 0))
  /\ Reportable(Fault("unauthorized", 0))
  /\ \A f \in RefreshFailures \cup Refusals : Reportable(f)
  <1>1. \A t : /\ Reportable(Fault("credential_invalid", 0)) /\ Reportable(Fault("unauthorized", 0))
               /\ Reportable(Fault("invalid_grant", 0)) /\ Reportable(Fault("transient", t))
               /\ Reportable(Fault("quota", t)) /\ Reportable(Fault("model", t))
    BY DEF Fault, NoFailure, Reportable, CredentialKinds
  <1>2. \A t : Reportable([kind |-> "quota", retryAt |-> t, explicit |-> TRUE])
    BY DEF Reportable
  <1>3. QED
    BY <1>1, <1>2 DEF Network, RefreshFailures, Refusals

(* A request that ends holds nothing.                                         *)
LEMMA EndHoldsNothing ==
  ASSUME NEW r, NEW code, NEW t, request' = Outcome(r, code, t),
         \A a \in Auths : file'[a].cred \in Creds /\ seen'[a].cred \in Creds
  PROVE  TokensKnown'
  <1>1. request'.list = NoList /\ request'.phase = "done"
    BY DEF Outcome, Fresh
  <1>2. \A a \in Auths : ~NoList[a].here
    BY DEF NoList
  <1>3. QED
    BY <1>1, <1>2 DEF TokensKnown, At, WithAuth

(* One that goes on with what it had, or with nothing in hand.                *)
LEMMA GoesOnKnown ==
  ASSUME TokensKnown, UNCHANGED <<file, seen>> \/ (UNCHANGED file /\ seen' = file),
         request'.list = request.list \/ request'.list = NoList \/ request'.list = file,
         request'.phase \in WithAuth => request'.cred \in Creds,
         request'.phase = "blame" => Reportable(request'.pending)
  PROVE  TokensKnown'
  <1>1. \A a \in Auths : ~NoList[a].here
    BY DEF NoList
  <1>2. QED
    BY <1>1 DEF TokensKnown, At

LEMMA BlamingKnown ==
  ASSUME RequestInv, TokensKnown, request.phase \in WithAuth, NEW f, Reportable(f), NEW next,
         request' = Blaming(request, f, next),
         UNCHANGED <<file, seen>> \/ (UNCHANGED file /\ seen' = file)
  PROVE  TokensKnown'
  <1>1. request'.list = request.list /\ request'.cred = request.cred /\ request'.pending = f
    BY DEF Blaming, RequestInv, Requests
  <1>2. QED
    BY <1>1, GoesOnKnown DEF TokensKnown

LEMMA RefreshKnown ==
  ASSUME RequestInv, TokensKnown, request.phase \in {"prepare", "repair"},
         NEW next \in {"send", "trust"}, Refresh(next)
  PROVE  TokensKnown'
  <1>1. request \in Requests /\ request.auth \in Auths /\ request.phase \in WithAuth
        /\ file \in [Auths -> AuthFiles]
    BY DEF RequestInv, Requests, WithAuth, At
  <1>2. seen' = file
    BY DEF Refresh, ScanOnly
  <1>3. ASSUME UNCHANGED file, NEW f, Reportable(f), request' = Blaming(request, f, "select")
        PROVE  TokensKnown'
    BY <1>1, <1>2, <1>3, BlamingKnown
  <1>4. ASSUME NEW c \in Creds, request' = [request EXCEPT !.phase = next, !.cred = c],
               UNCHANGED file \/ file' = [file EXCEPT ![request.auth].cred = c]
        PROVE  TokensKnown'
    <2>1. /\ request'.list = request.list /\ request'.cred = c /\ request'.phase = next
      BY <1>1, <1>4 DEF Requests
    <2>2. \A a \in Auths : file'[a].cred \in Creds /\ seen'[a].cred \in Creds
      <3>1. \A a \in Auths : file[a].cred \in Creds
        BY DEF TokensKnown
      <3>2. ASSUME file' = [file EXCEPT ![request.auth].cred = c], NEW a \in Auths
            PROVE  file'[a].cred \in {file[a].cred, c}
        BY <1>1, <3>2 DEF AuthFiles
      <3>3. QED
        BY <1>2, <1>4, <3>1, <3>2
    <2>3. QED
      BY <2>1, <2>2 DEF TokensKnown, At
  <1>5. CASE request' = Blaming(request, Fault("credential_invalid", 0), "select") /\ UNCHANGED file
    BY <1>3, <1>5, WhatIsReportable
  <1>6. CASE request' = [request EXCEPT !.phase = next, !.cred = file[request.auth].cred] /\ UNCHANGED file
    BY <1>1, <1>4, <1>6 DEF TokensKnown
  <1>7. CASE /\ file[request.auth].cred + 1 \in Creds
             /\ file' = [file EXCEPT ![request.auth].cred = file[request.auth].cred + 1]
             /\ request' = [request EXCEPT !.phase = next, !.cred = file[request.auth].cred + 1]
    BY <1>4, <1>7
  <1>8. CASE \E f \in RefreshFailures : request' = Blaming(request, f, "select") /\ UNCHANGED file
    BY <1>3, <1>8, WhatIsReportable
  <1>9. QED
    BY <1>5, <1>6, <1>7, <1>8 DEF Refresh, Become

(* Nothing a step does leaves a request with tokens no file had.              *)
LEMMA WorkKnown ==
  ASSUME RequestInv, TokensKnown, Work \/ Cancel
  PROVE  TokensKnown'
  <1>0. /\ request \in Requests /\ request.list \in [Auths -> AuthFiles]
        /\ \A a \in Auths : file[a].cred \in Creds /\ seen[a].cred \in Creds
    BY RequestFields DEF RequestInv, TokensKnown
  <1>1. CASE Start
    <2>1. UNCHANGED file /\ seen' = file
      BY <1>1 DEF Start, ReconcileAuths
    <2>2. CASE request' = Outcome(request, "model_not_found", 0)
      BY <1>0, <2>1, <2>2, EndHoldsNothing
    <2>3. ASSUME NEW allowed, request' = [request EXCEPT !.phase = "select", !.allowed = allowed]
          PROVE  TokensKnown'
      <3>1. request'.list = request.list /\ request'.phase = "select"
        BY <1>0, <2>3 DEF Requests
      <3>2. QED
        BY <2>1, <3>1, GoesOnKnown DEF WithAuth
    <2>4. QED
      BY <1>1, <2>2, <2>3 DEF Start, Become
  <1>2. ASSUME NEW phase, NEW next \in {"filter", "cool", "judge"}, List(phase, next)
        PROVE  TokensKnown'
    <2>1. UNCHANGED file /\ seen' = file
      BY <1>2 DEF List, ReconcileAuths
    <2>2. request' = [request EXCEPT !.phase = next, !.list = file]
      BY <1>2 DEF List, Become
    <2>3. request'.list = file /\ request'.phase = next
      BY <1>0, <2>2 DEF Requests
    <2>4. QED
      BY <2>1, <2>3, GoesOnKnown DEF WithAuth
  <1>3. CASE Select
    <2>1. UNCHANGED <<file, seen>>
      BY <1>3 DEF Select
    <2>2. CASE request' = Outcome(request, "session_lost", 0)
      BY <1>0, <2>1, <2>2, EndHoldsNothing
    <2>3. CASE request' = [request EXCEPT !.phase = "over", !.list = NoList]
      <3>1. request'.list = NoList /\ request'.phase = "over"
        BY <1>0, <2>3 DEF Requests
      <3>2. QED
        BY <2>1, <3>1, GoesOnKnown DEF WithAuth
    <2>4. ASSUME NEW a \in Serving, request' = Selected(a)
          PROVE  TokensKnown'
      <3>1. a \in Auths /\ request.list[a].here
        BY <2>4 DEF Serving, Listed
      <3>2. request.list[a].cred \in Creds
        BY <3>1 DEF TokensKnown
      <3>3. /\ request'.list = NoList /\ request'.phase = "prepare"
            /\ request'.cred = request.list[a].cred
        BY <1>0, <2>4 DEF Selected, Requests
      <3>4. QED
        BY <2>1, <3>2, <3>3, GoesOnKnown
    <2>5. Eligible \subseteq Serving
      BY DEF Eligible
    <2>6. QED
      BY <1>3, <2>2, <2>3, <2>4, <2>5 DEF Select, Become
  <1>4. CASE Prepare
    <2>1. request.phase = "prepare"
      BY <1>4 DEF Prepare, At
    <2>2. CASE Refresh("send")
      BY <2>1, <2>2, RefreshKnown
    <2>3. CASE request' = [request EXCEPT !.phase = "send"] /\ UNCHANGED <<file, seen>>
      <3>1. request'.list = request.list /\ request'.phase = "send" /\ request'.cred = request.cred
        BY <1>0, <2>3 DEF Requests
      <3>2. QED
        BY <2>1, <2>3, <3>1, GoesOnKnown DEF TokensKnown, WithAuth
    <2>4. QED
      BY <1>4, <2>2, <2>3 DEF Prepare, Become
  <1>5. CASE Attempt
    <2>1. /\ request.phase \in WithAuth /\ UNCHANGED <<file, seen>>
      BY <1>5 DEF Attempt, At, WithAuth
    <2>2. CASE request' = Outcome(request, "answered", 0)
      BY <1>0, <2>1, <2>2, EndHoldsNothing
    <2>3. CASE request' = [request EXCEPT !.phase = "repair"]
      <3>1. request'.list = request.list /\ request'.phase = "repair" /\ request'.cred = request.cred
        BY <1>0, <2>3 DEF Requests
      <3>2. QED
        BY <2>1, <3>1, GoesOnKnown DEF TokensKnown
    <2>4. ASSUME NEW f, Reportable(f), NEW next, request' = Blaming(request, f, next)
          PROVE  TokensKnown'
      BY <2>1, <2>4, BlamingKnown
    <2>5. QED
      BY <1>5, <2>2, <2>3, <2>4, WhatIsReportable DEF Attempt, Become
  <1>6. CASE Repair
    BY <1>6, RefreshKnown DEF Repair, At
  <1>7. CASE Trust
    <2>1. request'.list = request.list /\ request'.phase = "resend" /\ request'.cred = request.cred
      BY <1>0, <1>7 DEF Trust, Become, Requests
    <2>2. request.phase \in WithAuth /\ UNCHANGED <<file, seen>>
      BY <1>7 DEF Trust, At, WithAuth
    <2>3. QED
      BY <2>1, <2>2, GoesOnKnown DEF TokensKnown
  <1>8. CASE Blame
    <2>1. UNCHANGED <<file, seen>> /\ request.next # "blame" /\ request.next \notin WithAuth
      BY <1>0, <1>8, RequestFields DEF Blame, WithAuth
    <2>2. PICK r \in Requests : /\ r.list = request.list
                                /\ \/ request' = Outcome(r, "answered", 0)
                                   \/ request' = [r EXCEPT !.phase = request.next]
      <3> DEFINE r == [request EXCEPT !.failures[request.auth] = request.pending, !.pending = NoFailure,
                                      !.next = "", !.auth = NoAuth, !.cred = NoCred]
      <3>1. request.auth \in Auths
        BY <1>8 DEF Blame, At, RequestInv, Requests, WithAuth
      <3>2. [request.failures EXCEPT ![request.auth] = request.pending] \in [Auths -> Failures]
        BY <1>0, <3>1 DEF Requests
      <3>3. r = [request EXCEPT !.failures = [request.failures EXCEPT ![request.auth] = request.pending],
                                !.pending = NoFailure, !.next = "", !.auth = NoAuth, !.cred = NoCred]
        BY <1>0 DEF Requests
      <3>4. r \in Requests /\ r.list = request.list
        BY <1>0, <3>2, <3>3, FreshFields, FailoverNumbers DEF Requests
      <3>5. request' = Outcome(r, "answered", 0) \/ request' = [r EXCEPT !.phase = request.next]
        BY <1>8 DEF Blame, Become
      <3>6. QED
        BY <3>4, <3>5
    <2>3. CASE request' = Outcome(r, "answered", 0)
      BY <1>0, <2>1, <2>3, EndHoldsNothing
    <2>4. CASE request' = [r EXCEPT !.phase = request.next]
      <3>1. request'.list = request.list /\ request'.phase = request.next
        BY <2>2, <2>4 DEF Requests
      <3>2. QED
        BY <2>1, <3>1, GoesOnKnown
    <2>5. QED
      BY <2>2, <2>3, <2>4
  <1>9. CASE RoundFull \/ LastRound \/ NewRound
    <2>1. /\ request'.list = request.list /\ request'.phase \in {"over", "refuse", "select"}
          /\ UNCHANGED <<file, seen>>
      BY <1>0, <1>9 DEF RoundFull, LastRound, NewRound, Become, Requests
    <2>2. QED
      BY <2>1, GoesOnKnown DEF WithAuth
  <1>10. CASE AwaitCooldown
    <2>1. request'.list = NoList /\ request'.phase \in {"wait", "refuse"} /\ UNCHANGED <<file, seen>>
      BY <1>0, <1>10 DEF AwaitCooldown, Become, Requests
    <2>2. QED
      BY <2>1, GoesOnKnown DEF WithAuth
  <1>11. CASE Refuse \/ Cancel
    <2>1. UNCHANGED <<file, seen>> /\ \E code, t : request' = Outcome(request, code, t)
      BY <1>11 DEF Refuse, Cancel, Become, FinalError
    <2>2. QED
      BY <1>0, <2>1, EndHoldsNothing
  <1>12. QED
    BY <1>1, <1>2, <1>3, <1>4, <1>5, <1>6, <1>7, <1>8, <1>9, <1>10, <1>11
       DEF Work, ListForSelect, ListForRetry, ListForRefusal

LEMMA OthersKnown ==
  ASSUME RequestInv, TokensKnown, Others \/ TimePasses
  PROVE  TokensKnown'
  <1>1. UNCHANGED request /\ file \in [Auths -> AuthFiles]
    BY OthersOp DEF RequestInv
  <1>2. \A a \in Auths : file'[a].cred \in Creds /\ seen'[a].cred \in Creds
    <2>1. CASE OthersScan
      BY <2>1 DEF OthersScan, ReconcileAuths, ScanOnly, TokensKnown
    <2>2. ASSUME NEW a \in Auths, ChangeFile(a)
          PROVE  \A b \in Auths : file'[b].cred \in Creds /\ seen'[b].cred \in Creds
      <3>1. UNCHANGED seen
        BY <2>2 DEF ChangeFile
      <3>2. \A b \in Auths : file'[b].cred = file[b].cred \/ file'[b].cred \in Creds
        BY <1>1, <2>2 DEF ChangeFile, AuthFiles
      <3>3. QED
        BY <3>1, <3>2 DEF TokensKnown
    <2>3. ASSUME NEW a \in Auths, OthersReport(a)
          PROVE  UNCHANGED <<file, seen>>
      BY <2>3 DEF OthersReport
    <2>4. CASE TimePasses
      BY <2>4 DEF TimePasses, TokensKnown
    <2>5. QED
      BY <2>1, <2>2, <2>3, <2>4 DEF Others, TokensKnown
  <1>3. QED
    BY <1>1, <1>2 DEF TokensKnown, At

(* What is reported of a credential is something AuthHealth knows to report.  *)
LEMMA VerdictReported ==
  ASSUME RequestInv, Running, Deadlines = Nat \ {0}, NEW f \in Failures, Reportable(f),
         f.kind # "model", NEW c \in Creds
  PROVE  Verdict(f, c) \in ReportedStates(c)
  <1>n. now \in Nat /\ now > 0 /\ Cooldown \in Nat
    BY FailoverNumbers DEF Running, RequestInv
  <1>f. f.retryAt \in Nat /\ f.explicit \in BOOLEAN
    BY DEF Failures
  <1>1. now + Cooldown \in Nat \ {0} /\ f.retryAt \in Nat /\ f.explicit \in BOOLEAN
    <2>1. now + Cooldown \in Nat \ {0}
      BY <1>n
    <2>2. QED
      BY <1>f, <2>1
  <1>2. CASE f.kind = "quota"
    <2>1. "quota" \notin CredentialKinds
      BY DEF CredentialKinds
    <2>2. Verdict(f, c) = [kind |-> "quota", authoritative |-> f.explicit,
                           retryAt |-> IF f.retryAt = 0 THEN now + Cooldown ELSE f.retryAt,
                           cred |-> NoCred]
      BY <1>2, <2>1 DEF Verdict
    <2>3. (IF f.retryAt = 0 THEN now + Cooldown ELSE f.retryAt) \in Deadlines
      BY <1>1
    <2>4. QED
      BY <1>1, <2>2, <2>3 DEF ReportedStates, QuotaReports
  <1>3. CASE f.kind = "transient"
    <2>1. "transient" \notin CredentialKinds /\ ~f.explicit
      BY <1>3 DEF CredentialKinds, Reportable
    <2>2. Verdict(f, c) = [kind |-> "transient", authoritative |-> FALSE,
                           retryAt |-> IF f.retryAt = 0 THEN now + Cooldown ELSE f.retryAt,
                           cred |-> NoCred]
      BY <1>1, <1>3, <2>1 DEF Verdict
    <2>3. (IF f.retryAt = 0 THEN now + Cooldown ELSE f.retryAt) \in Deadlines
      BY <1>1
    <2>4. QED
      BY <2>2, <2>3 DEF ReportedStates, TransientReports
  <1>4. CASE f.kind \in CredentialKinds
    <2>1. f.kind \notin {"quota", "transient"} /\ ~f.explicit /\ f.retryAt = 0
      BY <1>4 DEF CredentialKinds, Reportable
    <2>2. Verdict(f, c) = [kind |-> f.kind, authoritative |-> FALSE, retryAt |-> 0, cred |-> c]
      BY <1>1, <1>4, <2>1 DEF Verdict
    <2>3. QED
      BY <1>4, <2>2 DEF ReportedStates, CredentialReports
  <1>5. QED
    BY <1>2, <1>3, <1>4 DEF Reportable

LEMMA MarkFailureReports ==
  ASSUME RequestInv, Running, Deadlines = Nat \ {0}, NEW a \in Auths, NEW f \in Failures,
         Reportable(f), NEW c \in Creds, MarkFailure(a, c, f)
  PROVE  Report
  <1>1. CASE f.kind = "model"
    <2>1. MarkModelUnsupported(a, Model, c, TRUE) /\ Model \in Models
      BY <1>1, FailoverAssumption DEF MarkFailure
    <2>2. QED
      BY <2>1 DEF Report
  <1>2. CASE f.kind # "model"
    <2>1. MarkUnavailable(a, Verdict(f, c), TRUE) /\ Verdict(f, c) \in ReportedStates(c)
      BY <1>2, VerdictReported DEF MarkFailure
    <2>2. QED
      BY <2>1 DEF Report
  <1>3. QED
    BY <1>1, <1>2

(* The reconcile of a request is one of the registry: of what is gone the     *)
(* registry does not ask the tokens.                                          *)
LEMMA ReconcileMaintains ==
  ASSUME RequestInv, TokensKnown, ReconcileAuths
  PROVE  Maintain
  <1> DEFINE change == [a \in Auths |-> ChangeOf(a)]
             told   == [a \in Auths |-> TokensIn(file[a])]
             creds  == [a \in Auths |-> file[a].cred]
  <1>1. PICK pruned \in SUBSET Auths : Reconcile(change, told, Changed, pruned)
    BY DEF ReconcileAuths
  <1>2. change \in [Auths -> ChangeKinds] /\ creds \in [Auths -> Creds] /\ Changed \in SUBSET Auths
    BY DEF ChangeOf, ChangeKinds, TokensKnown, Changed
  <1>3. \A a \in Auths : change[a] # "removed" => change[a] = "none" \/ told[a] = creds[a]
    BY DEF ChangeOf, TokensIn
  <1>4. \A s : \A a \in Auths : DropsState(change[a], told[a], s) = DropsState(change[a], creds[a], s)
    BY <1>3 DEF DropsState
  <1>5. \A e : \A a \in Auths : DropsExclusion(change[a], told[a], e) = DropsExclusion(change[a], creds[a], e)
    BY <1>3 DEF DropsExclusion
  <1> HIDE DEF change, told, creds
  <1>6. Reconcile(change, creds, Changed, pruned)
    <2>1. Changed \subseteq Auths
      BY DEF Changed
    <2>2. {a \in Changed : DropsState(change[a], told[a], states[a])}
            = {a \in Changed : DropsState(change[a], creds[a], states[a])}
      BY <1>4, <2>1
    <2>3. \A a \in Auths, m \in Models :
            (a \in Changed /\ DropsExclusion(change[a], told[a], exclusions[a][m]))
              <=> (a \in Changed /\ DropsExclusion(change[a], creds[a], exclusions[a][m]))
      BY <1>5
    <2>4. [a \in Auths |-> [m \in Models |->
             IF a \in Changed /\ DropsExclusion(change[a], told[a], exclusions[a][m])
             THEN NoExclusion ELSE exclusions[a][m]]]
          = [a \in Auths |-> [m \in Models |->
             IF a \in Changed /\ DropsExclusion(change[a], creds[a], exclusions[a][m])
             THEN NoExclusion ELSE exclusions[a][m]]]
      BY <2>3
    <2>5. \A a \in Auths : DropsState(change[a], told[a], states[a])
                             <=> DropsState(change[a], creds[a], states[a])
      BY <1>4
    <2>6. QED
      BY <1>1, <2>1, <2>2, <2>4, <2>5 DEF Reconcile
  <1>7. QED
    BY <1>2, <1>6 DEF Maintain

(* Every step of Failover is a report or an upkeep of the registry, or none.  *)
LEMMA StepIsOfRegistry ==
  ASSUME RequestInv, TokensKnown, Running, Deadlines = Nat \ {0},
         Work \/ Cancel \/ Others \/ TimePasses
  PROVE  Report \/ Maintain \/ UNCHANGED healthVars
  <1>m. Model \in Models
    BY FailoverAssumption
  <1>1. CASE Start \/ ListForSelect \/ ListForRetry \/ ListForRefusal
    BY <1>1, ReconcileMaintains DEF Start, ListForSelect, ListForRetry, ListForRefusal, List
  <1>2. CASE Select \/ RoundFull \/ Prepare \/ Repair \/ LastRound \/ AwaitCooldown \/ NewRound
               \/ Refuse \/ Cancel
    <2>1. CASE Prepare \/ Repair
      BY <2>1 DEF Prepare, Repair, Refresh
    <2>2. CASE Select \/ RoundFull \/ LastRound \/ AwaitCooldown \/ NewRound \/ Refuse \/ Cancel
      BY <2>2 DEF Select, RoundFull, LastRound, AwaitCooldown, NewRound, Refuse, Cancel
    <2>3. QED
      BY <1>2, <2>1, <2>2
  <1>3. CASE Attempt
    <2>1. request.auth \in Auths /\ (MarkHealthy(request.auth, Model, TRUE) \/ UNCHANGED healthVars)
      BY <1>3, AttemptOp
    <2>2. QED
      BY <1>m, <2>1 DEF Report
  <1>4. CASE Trust
    <2>1. request.auth \in Auths
      BY <1>4 DEF Trust, At, RequestInv, Requests, WithAuth
    <2>2. MarkCredentialHealthy(request.auth, TRUE) \/ UNCHANGED healthVars
      BY <1>4 DEF Trust
    <2>3. QED
      BY <2>1, <2>2 DEF Report
  <1>5. CASE Blame
    <2>1. request.pending \in Failures /\ Reportable(request.pending) /\ request.cred \in Creds
      BY <1>5, RequestFields DEF Blame, RequestInv, TokensKnown, At, WithAuth
    <2>2. QED
      BY <1>5, <2>1, BlameOp, MarkFailureReports
  <1>6. CASE OthersScan
    BY <1>6, ReconcileMaintains DEF OthersScan
  <1>7. ASSUME NEW a \in Auths, ChangeFile(a)
        PROVE  UNCHANGED healthVars
    BY <1>7 DEF ChangeFile
  <1>8. ASSUME NEW a \in Auths, OthersReport(a)
        PROVE  Report
    <2>1. CASE MarkHealthy(a, Model, TRUE)
      BY <1>m, <2>1 DEF Report
    <2>2. ASSUME NEW f \in {Fault("unauthorized", 0), [kind |-> "quota", retryAt |-> now + 1, explicit |-> TRUE]},
                 MarkUnavailable(a, Verdict(f, seen[a].cred), TRUE)
          PROVE  Report
      <3>0. now \in Nat
        BY DEF RequestInv
      <3>t. seen[a].cred \in Creds
        BY DEF TokensKnown
      <3>1. now + 1 \in Nat /\ seen[a].cred \in Creds
        BY <3>0, <3>t
      <3>2. [kind |-> "quota", retryAt |-> now + 1, explicit |-> TRUE] \in Failures
        BY <3>1 DEF Failures, FailureKinds
      <3>3. Fault("unauthorized", 0) \in Failures
        BY FailureTypes DEF RequestInv
      <3>4. Reportable([kind |-> "quota", retryAt |-> now + 1, explicit |-> TRUE])
        BY DEF Reportable
      <3>5. f \in Failures /\ Reportable(f) /\ f.kind # "model"
        <4>1. CASE f = Fault("unauthorized", 0)
          BY <3>3, <4>1, WhatIsReportable DEF Fault, NoFailure
        <4>2. CASE f = [kind |-> "quota", retryAt |-> now + 1, explicit |-> TRUE]
          BY <3>2, <3>4, <4>2
        <4>3. QED
          BY <2>2, <4>1, <4>2
      <3>6. MarkFailure(a, seen[a].cred, f)
        BY <2>2, <3>5 DEF MarkFailure
      <3>7. QED
        BY <3>1, <3>5, <3>6, MarkFailureReports
    <2>3. QED
      BY <1>8, <2>1, <2>2 DEF OthersReport
  <1>9. CASE TimePasses
    BY <1>9 DEF TimePasses, Maintain
  <1>10. QED
    BY <1>1, <1>2, <1>3, <1>4, <1>5, <1>6, <1>7, <1>8, <1>9 DEF Work, Others

RegistryInv == HealthInv /\ RoomKept /\ Running /\ TokensKnown

LEMMA RegistryStarts == FailoverInit => RegistryInv
  <1> SUFFICES ASSUME FailoverInit PROVE RegistryInv
    OBVIOUS
  <1>1. /\ now = 1 /\ up = TRUE
        /\ states = [a \in Auths |-> NoState] /\ rows = [a \in Auths |-> NoRow]
        /\ exclusions = [a \in Auths |-> [m \in Models |-> NoExclusion]]
        /\ epochs = [a \in Auths |-> 0]
    BY DEF FailoverInit
  <1>2. NoState \in HealthStates /\ ~MustPersist(NoState)
    BY DEF NoState, HealthStates, MustPersist, AuthoritativeQuota
  <1>3. NoRow \in Rows /\ NoExclusion \in Exclusions
    BY DEF NoRow, Rows, NoExclusion, Exclusions
  <1>4. TypeOK
    BY <1>1, <1>2, <1>3 DEF TypeOK
  <1>5. OnlyReported /\ TableMirrorsMemory
    BY <1>1, <1>2 DEF OnlyReported, HeldState, TableMirrorsMemory
  <1>6. RoomKept
    <2>1. \A a \in Auths : Excluded(a) = {}
      BY <1>1 DEF Excluded
    <2>2. QED
      BY <2>1, FS_EmptySet, HealthAssumption DEF RoomKept
  <1>7. Running
    BY <1>1 DEF Running
  <1>8. TokensKnown
    <2>1. /\ file = [a \in Auths |-> [here |-> TRUE, cred |-> 1, disabled |-> FALSE]] /\ seen = file
          /\ request = Fresh
      BY DEF FailoverInit
    <2>2. Fresh.phase = "start" /\ Fresh.list = NoList /\ \A a \in Auths : ~NoList[a].here
      BY DEF Fresh, NoList
    <2>3. QED
      BY <2>1, <2>2, NumberedCreds DEF TokensKnown, At, WithAuth
  <1>9. QED
    BY <1>4, <1>5, <1>6, <1>7, <1>8 DEF RegistryInv, HealthInv

LEMMA StillRunning ==
  ASSUME Running, now \in Nat, Report \/ Maintain \/ UNCHANGED healthVars
  PROVE  Running'
  <1>1. CASE Report
    <2>1. UNCHANGED <<up, now>>
      BY <1>1 DEF Report, MarkUnavailable, MarkHealthy, MarkCredentialHealthy, MarkModelUnsupported,
                  ClearCooldown
    <2>2. QED
      BY <2>1 DEF Running
  <1>2. CASE Maintain
    <2>1. ASSUME NEW change, NEW creds, NEW done, NEW pruned, Reconcile(change, creds, done, pruned)
          PROVE  UNCHANGED <<up, now>>
      BY <2>1 DEF Reconcile
    <2>2. ASSUME NEW pruned, PruneExpired(pruned)
          PROVE  UNCHANGED <<up, now>>
      BY <2>2 DEF PruneExpired
    <2>3. UNCHANGED up /\ (now' = now \/ now' = now + 1)
      BY <1>2, <2>1, <2>2 DEF Maintain, Tick
    <2>4. QED
      BY <2>3 DEF Running
  <1>3. CASE UNCHANGED healthVars
    BY <1>3 DEF healthVars, Running
  <1>4. QED
    BY <1>1, <1>2, <1>3

LEMMA RegistryKept ==
  ASSUME Deadlines = Nat \ {0}, RequestInv, RegistryInv, [FailoverNext]_failoverVars
  PROVE  RegistryInv' /\ [HealthNext]_healthVars
  <1>1. CASE UNCHANGED failoverVars
    <2>1. UNCHANGED <<healthVars, request, file, seen>>
      BY <1>1 DEF failoverVars
    <2>2. HealthInv' /\ RoomKept' /\ Running'
      BY <2>1, HealthNextInv, SameExclusions DEF RegistryInv, healthVars, Running
    <2>3. TokensKnown'
      BY <2>1 DEF RegistryInv, TokensKnown, At
    <2>4. QED
      BY <2>1, <2>2, <2>3 DEF RegistryInv
  <1>2. CASE Work \/ Cancel \/ Others \/ TimePasses
    <2>1. Report \/ Maintain \/ UNCHANGED healthVars
      BY <1>2, StepIsOfRegistry DEF RegistryInv
    <2>2. [HealthNext]_healthVars
      BY <2>1 DEF HealthNext
    <2>3. HealthInv' /\ RoomKept'
      BY <2>2, HealthNextInv, NextRoom DEF RegistryInv, HealthInv
    <2>4. Running'
      BY <2>1, StillRunning DEF RegistryInv, RequestInv
    <2>5. TokensKnown'
      BY <1>2, WorkKnown, OthersKnown DEF RegistryInv
    <2>6. QED
      BY <2>2, <2>3, <2>4, <2>5 DEF RegistryInv
  <1>3. QED
    BY <1>1, <1>2 DEF FailoverNext

(* Under requests that fail over, whatever they and the others report, the    *)
(* table keeps the authoritative part of memory and the exclusions their      *)
(* limit (executeUpstream on authHealthRegistry).                             *)
THEOREM RequestsKeepRegistry ==
  ASSUME Deadlines = Nat \ {0}
  PROVE  FailoverSpec => [](TypeOK /\ TableMirrorsMemory /\ ExclusionsBounded)
  <1>1. RequestInv /\ RegistryInv /\ [FailoverNext]_failoverVars => RegistryInv'
    BY RegistryKept
  <1>2. RegistryInv => TypeOK /\ TableMirrorsMemory /\ ExclusionsBounded
    BY DEF RegistryInv, HealthInv, RoomKept, ExclusionsBounded
  <1>3. QED
    BY <1>1, <1>2, RegistryStarts, FailoverTypes, PTL DEF FailoverSpec

(* And each of their steps does to a standing verdict what DurableVerdicts    *)
(* allows: a request that fails over neither loses nor invents one            *)
(* (markAuthFailure, MarkHealthy, MarkCredentialHealthy, Reconcile).          *)
THEOREM RequestsKeepPromise ==
  ASSUME Deadlines = Nat \ {0}
  PROVE  FailoverSpec => [][Promise!Next]_(Promise!vars)
  <1>1. RequestInv /\ RegistryInv /\ [FailoverNext]_failoverVars => RegistryInv' /\ [Promise!Next]_(Promise!vars)
    BY RegistryKept, HealthNextRefines DEF RegistryInv
  <1>2. QED
    BY <1>1, RegistryStarts, FailoverTypes, PTL DEF FailoverSpec
=============================================================================
