--------------------------- MODULE SessionAffinity ---------------------------
(***************************************************************************)
(* The session_affinity_bindings table and the transactions that read and   *)
(* write it (session_affinity.go).  The pool has one connection             *)
(* (db.SetMaxOpenConns(1)), so a transaction is one step.                   *)
(*                                                                          *)
(* A digest is the hash of one signal of a session (its session id, prompt  *)
(* cache key or conversation id) within a tenant; the hashes of two tenants *)
(* never meet, so the table here is the part of one tenant.  Digests are    *)
(* numbers because ties between rows go to the smaller hash.                *)
(*                                                                          *)
(* Calls may come from any request at any time, with any digests: the       *)
(* order in which one request makes them is in AffinitySelection.           *)
(***************************************************************************)
EXTENDS Integers, FiniteSets

CONSTANTS
    Digests,          \* digests of the signals clients send
    Auths,            \* stable ids of Codex auths
    Expiry,           \* sessionAffinityExpiry, in clock ticks
    Renewal,          \* sessionAffinityRenewalThreshold, in clock ticks
    CleanupInterval,  \* sessionAffinityCleanupInterval, in clock ticks
    BatchSize,        \* sessionAffinityCleanupBatchSize
    Fractions,        \* clock ticks per second
    Units,            \* the ticks of a second, of a tenth, and so on down to the
                      \* last but one decimal place that the clock shows
    MaxTime           \* bound: the clock stops here

ASSUME AffinityAssumption ==
    /\ Digests \subseteq Nat
    /\ Expiry \in Nat \ {0} /\ Renewal \in Nat \ {0} /\ Renewal <= Expiry
    /\ CleanupInterval \in Nat \ {0} /\ BatchSize \in Nat \ {0}
    /\ Fractions \in Nat \ {0} /\ Units \subseteq Nat \ {0}
    /\ \A u \in Units : Fractions % u = 0
    /\ MaxTime \in Nat

VARIABLES
    table,        \* digest -> row, for the digests that have one
    now,          \* UserStore.storeNow
    nextCleanup,  \* UserStore.nextAffinityCleanupAt
    torn          \* history: a cleanup has removed a part of a live group

affinityVars == <<table, now, nextCleanup, torn>>

\* expires_at is updated_at + sessionAffinityExpiry in every row written.
Row == [group : Digests, auth : Auths, created : 0..MaxTime, updated : 0..MaxTime]

Expires(row) == row.updated + Expiry

ActiveRow(row) == Expires(row) > now

Active == {d \in DOMAIN table : ActiveRow(table[d])}

-----------------------------------------------------------------------------
\* Mutant: only the digests asked for, not the rest of their groups.
Mutant_LoadedDigestsOnly(digests, groups) == digests \cap DOMAIN table

\* What a transaction reads: the rows of the digests, then every row of the
\* groups those rows are in and of the groups named by the caller.
Loaded(digests, groups) ==
    LET named == groups \cup {table[d].group : d \in digests \cap DOMAIN table}
    IN  {d \in DOMAIN table : d \in digests \/ table[d].group \in named}

\* Mutant: the youngest row wins.
Mutant_Later(d, e) == table[d].created >= table[e].created

Earlier(d, e) ==
    \/ table[d].created < table[e].created
    \/ table[d].created = table[e].created /\ d <= e

\* chooseSessionAffinityWinner: the oldest active row, if there is one.
Winners(rows) ==
    LET live == rows \cap Active
    IN  {d \in live : \A e \in live : Earlier(d, e)}

\* canonicalSessionAffinityDigest: the smallest digest names the group.
Canonical(aliases) == {d \in aliases : \A e \in aliases : d <= e}

Fresh(aliases, a) ==
    {[group |-> g, auth |-> a, created |-> now, updated |-> now] :
        g \in Canonical(aliases)}

\* writeSessionAffinityAliases: every alias gets the winner's row.
WriteAliases(aliases, row) ==
    table' = [d \in DOMAIN table \cup aliases |->
                IF d \in aliases THEN row ELSE table[d]]

Delete(rows) == table' = [d \in DOMAIN table \ rows |-> table[d]]

\* A row kept by a lookup is renewed once Renewal has passed since its write.
Renewed(row) ==
    IF row.updated + Renewal <= now THEN [row EXCEPT !.updated = now] ELSE row

\* Mutant: the candidate overwrites a binding made meanwhile.
Mutant_BindRowsBlindly(digests, a) == Fresh(digests \cup Loaded(digests, {}), a)

\* The row a transaction commits under all aliases: the winner's, changed as
\* the call says, or a new one when no row is active.
BindRows(digests, a) ==
    LET rows == Loaded(digests, {})
    IN  {table[w] : w \in Winners(rows)}
          \cup (IF rows \cap Active = {} THEN Fresh(digests \cup rows, a) ELSE {})

RebindRows(digests, group, expected, a) ==
    LET rows == Loaded(digests, {group})
        moved(row) == IF row.auth = expected
                      THEN [row EXCEPT !.auth = a, !.updated = now]
                      ELSE row
    IN  {moved(table[w]) : w \in Winners(rows)}
          \cup (IF rows \cap Active = {} THEN Fresh(digests \cup rows, a) ELSE {})

RefreshRows(digests) == {Renewed(table[w]) : w \in Winners(Loaded(digests, {}))}

-----------------------------------------------------------------------------
Init ==
    /\ table = [d \in {} |-> 0]
    /\ now = 0
    /\ nextCleanup = 0
    /\ torn = FALSE

\* bindSessionAffinity: a request that found no binding offers one; when
\* another request was first, its row wins and is given to every alias.
BindSessionAffinity(digests, a) ==
    /\ \E row \in BindRows(digests, a) :
          WriteAliases(digests \cup Loaded(digests, {}), row)
    /\ UNCHANGED <<now, nextCleanup, torn>>

\* RebindSessionAffinity: compare-and-swap from the auth the caller saw.
RebindSessionAffinity(digests, group, expected, a) ==
    /\ \E row \in RebindRows(digests, group, expected, a) :
          WriteAliases(digests \cup Loaded(digests, {group}), row)
    /\ UNCHANGED <<now, nextCleanup, torn>>

\* refreshSessionAffinity: the writing half of a lookup; it renews the winner
\* when it is due and gives it to every alias.
RefreshSessionAffinity(digests) ==
    /\ \E row \in RefreshRows(digests) :
          WriteAliases(digests \cup Loaded(digests, {}), row)
    /\ UNCHANGED <<now, nextCleanup, torn>>

\* Reconciled removals, and an operator clearing one account.
DeleteByAuthIDs(removed) ==
    /\ Delete({d \in DOMAIN table : table[d].auth \in removed})
    /\ UNCHANGED <<now, nextCleanup, torn>>

\* A restart keeps the rows of the auths that have files; nextAffinityCleanupAt
\* is memory and starts at zero.
Restart(present) ==
    /\ Delete({d \in DOMAIN table : table[d].auth \notin present})
    /\ nextCleanup' = 0
    /\ UNCHANGED <<now, torn>>

\* Mutant: the aliases of the key are deleted, the rest of their groups is not.
Mutant_DeleteKeyOnly(digests) ==
    /\ Delete(digests \cap DOMAIN table)
    /\ UNCHANGED <<now, nextCleanup, torn>>

\* An operator clears one session key: the whole groups its digests are in.
DeleteByTenantSession(digests) ==
    LET groups == {table[d].group : d \in digests \cap DOMAIN table}
    IN  /\ Delete({d \in DOMAIN table : table[d].group \in groups})
        /\ UNCHANGED <<now, nextCleanup, torn>>

DeleteByTenantScope ==
    /\ Delete(DOMAIN table)
    /\ UNCHANGED <<now, nextCleanup, torn>>

\* Mutant: the comparison the wrong way round.
Mutant_TextAtLeast(s, t) == s >= t

\* Times are stored as RFC3339Nano text, without trailing zeros, and SQL
\* compares the text.  Where the text of one goes on with a further digit, the
\* other has a Z, which sorts after it: "05Z" is after "05.5Z", "05.1Z" after
\* "05.12Z".  Other times are in order.
CutOf(s, t) == \E u \in Units : s = t - (t % u)

TextAtMost(s, t) ==
    \/ s = t
    \/ s > t /\ CutOf(t, s)
    \/ s < t /\ ~CutOf(s, t)

Expired == {d \in DOMAIN table : TextAtMost(Expires(table[d]), now)}

\* A batch with one live row of a group and not another tears that group.
Tears(batch) ==
    \E d \in Active \cap batch, e \in Active \ batch : table[d].group = table[e].group

\* maybeCleanupExpiredSessionAffinity: at most one batch, oldest first; a full
\* batch means that the next request cleans again.
CleanupExpired ==
    /\ now >= nextCleanup
    /\ \E batch \in SUBSET Expired :
          /\ Cardinality(batch) <= BatchSize
          /\ Cardinality(batch) < BatchSize => batch = Expired
          /\ \A d \in batch, e \in Expired \ batch :
                TextAtMost(Expires(table[d]), Expires(table[e]))
          /\ Delete(batch)
          /\ nextCleanup' = IF Cardinality(batch) < BatchSize
                            THEN now + CleanupInterval ELSE now
          /\ torn' = (torn \/ Tears(batch))
    /\ UNCHANGED now

Tick ==
    /\ now < MaxTime
    /\ now' = now + 1
    /\ UNCHANGED <<table, nextCleanup, torn>>

Next ==
    \/ \E digests \in (SUBSET Digests) \ {{}}, a \in Auths :
          BindSessionAffinity(digests, a)
    \/ \E digests \in (SUBSET Digests) \ {{}}, group \in Digests,
          expected, a \in Auths :
          RebindSessionAffinity(digests, group, expected, a)
    \/ \E digests \in (SUBSET Digests) \ {{}} : RefreshSessionAffinity(digests)
    \/ \E digests \in (SUBSET Digests) \ {{}} : DeleteByTenantSession(digests)
    \/ \E auths \in SUBSET Auths : DeleteByAuthIDs(auths)
    \/ \E auths \in SUBSET Auths : Restart(auths)
    \/ DeleteByTenantScope
    \/ CleanupExpired
    \/ Tick

Spec == Init /\ [][Next]_affinityVars

-----------------------------------------------------------------------------
\* Every row is a row, and the clock stays within its bound.
AffinityTypeOK ==
    /\ table = [d \in DOMAIN table |-> table[d]]
    /\ DOMAIN table \subseteq Digests
    /\ \A d \in DOMAIN table : table[d] \in Row /\ table[d].updated <= now
    /\ now \in 0..MaxTime
    /\ nextCleanup \in Nat
    /\ torn \in BOOLEAN

\* Live rows of one group agree on the auth and on their age, whatever mix of
\* binds, merges, moves, clears, restarts and partial cleanups made them: a
\* session seen under two of its signals reaches the same upstream account
\* (writeSessionAffinityAliases, loadSessionAffinityRows).  Only a cleanup that
\* tears a live group can end it (see CleanupSparesLasting).
ActiveGroupsAgree ==
    ~torn => \A d, e \in Active :
                table[d].group = table[e].group => table[d] = table[e]

\* A group that has a live row has a live row of the digest it is named for,
\* so a new group never takes the name of a live one
\* (canonicalSessionAffinityDigest), until a cleanup tears a live group.
GroupsRooted ==
    ~torn => \A d \in Active : /\ table[d].group \in Active
                               /\ table[table[d].group].group = table[d].group

\* Cleanup removes rows that expired, never a live one: a binding lasts for
\* sessionAffinityExpiry after its last write unless something deletes it.
\* False as soon as times carry fractions of a second.
CleanupSparesLive ==
    [][CleanupExpired => Active \subseteq DOMAIN table']_affinityVars

\* What is left of it: the text order of formatDBTime errs within one second
\* only, so cleanup never removes a row before the second in which it expires.
Lasting == {d \in DOMAIN table : Expires(table[d]) \div Fractions > now \div Fractions}

CleanupSparesLasting ==
    [][CleanupExpired => Lasting \subseteq DOMAIN table']_affinityVars

\* The table implements the sessions of SessionBindings: each group of live
\* rows is a session.  After a cleanup that tore a live group it promises
\* nothing any more, which the mapping says with no sessions.
SessionOf(live, d) ==
    [aliases |-> {e \in live : table[e].group = table[d].group},
     auth    |-> table[d].auth,
     since   |-> table[d].created]

Sessions == IF torn THEN {} ELSE LET live == Active IN {SessionOf(live, d) : d \in live}

Promise == INSTANCE SessionBindings
    WITH Aliases <- Digests, Targets <- Auths, MaxSince <- MaxTime,
         bindings <- Sessions

ImplementsPromise == Promise!Spec
=============================================================================
