------------------------ MODULE SessionAffinityProofs ------------------------
(***************************************************************************)
(* Proofs about the session affinity table and the auth selection over it,  *)
(* for every set of digests, auths and requests and every choice of the     *)
(* durations: the rows keep their types, the live rows of a group agree,    *)
(* every live group is rooted, the table implements SessionBindings, the    *)
(* requests of a session agree on its auth, and a session moves for cause.  *)
(*                                                                          *)
(* Agreement alone is not inductive: a new group could take the name of a   *)
(* live one.  It cannot, because a live group has a live row of the digest  *)
(* that names it (GroupsRooted), and the transaction would have loaded it.  *)
(*                                                                          *)
(* Nor is it inductive that steady requests attempt their session's auth:   *)
(* between the two queries of a lookup the table moves on, so StickInv also *)
(* says what the first query has read and which rows were expired for it.   *)
(*                                                                          *)
(* They hold for every resolution of the clock.  With fractions of a second *)
(* the cleanup compares text and may remove one live row of a group: what   *)
(* such a cleanup ends (torn) is left out of ActiveGroupsAgree,             *)
(* GroupsRooted and ImplementsPromise, and of nothing else.                 *)
(***************************************************************************)
EXTENDS AffinitySelection, TLAPS

AffinityInv == AffinityTypeOK /\ ActiveGroupsAgree /\ GroupsRooted

-----------------------------------------------------------------------------
\* What a transaction loads: rows, and with an active row its whole group.
LEMMA LoadedWhole ==
    ASSUME AffinityTypeOK, NEW digests, NEW groups,
           NEW d \in Loaded(digests, groups), NEW e \in DOMAIN table,
           table[e].group = table[d].group
    PROVE  d \in DOMAIN table /\ e \in Loaded(digests, groups)
  BY DEF Loaded

\* A live group is inside the aliases of a transaction or apart from them, and
\* so is the digest it is named for.
LEMMA GroupInOrOut ==
    ASSUME AffinityInv, NEW digests, NEW groups,
           NEW e \in Active, e \notin digests \cup Loaded(digests, groups)
    PROVE  /\ ~torn => table[e].group \notin digests \cup Loaded(digests, groups)
           /\ \A d \in Active \cap (digests \cup Loaded(digests, groups)) :
                 table[d].group # table[e].group
  <1>1. e \in DOMAIN table /\ Active \subseteq DOMAIN table
    BY DEF Active
  <1>2. \A d \in DOMAIN table : d \in digests => d \in Loaded(digests, groups)
    BY DEF Loaded
  <1>3. ASSUME NEW d \in Active \cap (digests \cup Loaded(digests, groups)),
               table[d].group = table[e].group
        PROVE  FALSE
    <2>1. d \in Loaded(digests, groups)
      BY <1>1, <1>2
    <2>2. QED
      BY <2>1, <1>1, <1>3, LoadedWhole DEF AffinityInv
  <1>4. ~torn => table[e].group \in Active /\ table[table[e].group].group = table[e].group
    BY DEF AffinityInv, GroupsRooted
  <1>5. QED
    BY <1>3, <1>4

\* A transaction that gives one live row to all its aliases keeps the table in
\* order when the row's group is a loaded one, or new.
LEMMA WriteKeeps ==
    ASSUME AffinityInv, NEW digests \in SUBSET Digests, NEW groups,
           NEW row \in Row, row.updated <= now, ActiveRow(row),
           ~torn => row.group \in digests \cup Loaded(digests, groups),
           \/ \E w \in Active \cap Loaded(digests, groups) : row.group = table[w].group
           \/ Active \cap Loaded(digests, groups) = {},
           WriteAliases(digests \cup Loaded(digests, groups), row),
           UNCHANGED <<now, nextCleanup, torn>>
    PROVE  AffinityInv'
  <1> DEFINE S == digests \cup Loaded(digests, groups)
  <1>1. Loaded(digests, groups) \subseteq DOMAIN table
    BY DEF Loaded
  <1>2. S \subseteq Digests /\ DOMAIN table' = DOMAIN table \cup S
    BY <1>1 DEF AffinityInv, AffinityTypeOK, WriteAliases
  <1>3. \A d \in DOMAIN table' : table'[d] = IF d \in S THEN row ELSE table[d]
    BY <1>2 DEF WriteAliases
  <1>4. AffinityTypeOK'
    <2>1. table' = [d \in DOMAIN table' |-> table'[d]]
      BY DEF WriteAliases
    <2>2. \A d \in DOMAIN table' : table'[d] \in Row /\ table'[d].updated <= now
      BY <1>2, <1>3 DEF AffinityInv, AffinityTypeOK
    <2>3. QED
      BY <2>1, <2>2, <1>2 DEF AffinityInv, AffinityTypeOK
  <1>5. Active' = (Active \ S) \cup S
    BY <1>2, <1>3 DEF Active, ActiveRow, Expires
  <1>6. ~torn => \A e \in Active \ S : table[e].group \notin S
    BY GroupInOrOut
  <1>7. ~torn => \A e \in Active \ S : table[e].group # row.group
    <2>1. CASE \E w \in Active \cap Loaded(digests, groups) : row.group = table[w].group
      BY <2>1, GroupInOrOut
    <2>2. CASE Active \cap Loaded(digests, groups) = {}
      BY <1>6
    <2>3. QED
      BY <2>1, <2>2
  <1> HIDE DEF S
  <1>8. ActiveGroupsAgree'
    <2> SUFFICES ASSUME ~torn, NEW d \in Active', NEW e \in Active',
                        table'[d].group = table'[e].group
                 PROVE  table'[d] = table'[e]
      BY DEF ActiveGroupsAgree
    <2>1. d \in DOMAIN table' /\ e \in DOMAIN table'
      BY DEF Active
    <2>2. CASE d \in S /\ e \in S
      BY <2>1, <2>2, <1>3
    <2>3. CASE d \in S /\ e \notin S
      BY <2>1, <2>3, <1>3, <1>5, <1>7
    <2>4. CASE d \notin S /\ e \in S
      BY <2>1, <2>4, <1>3, <1>5, <1>7
    <2>5. CASE d \notin S /\ e \notin S
      BY <2>1, <2>5, <1>3, <1>5 DEF AffinityInv, ActiveGroupsAgree
    <2>6. QED
      BY <2>2, <2>3, <2>4, <2>5
  <1>9. GroupsRooted'
    <2> SUFFICES ASSUME ~torn, NEW d \in Active'
                 PROVE  /\ table'[d].group \in Active'
                        /\ table'[table'[d].group].group = table'[d].group
      BY DEF GroupsRooted
    <2>1. Active' \subseteq DOMAIN table'
      BY DEF Active
    <2>2. CASE d \in S
      <3>1. row.group \in S
        BY DEF S
      <3>2. QED
        BY <2>1, <2>2, <3>1, <1>3, <1>5
    <2>3. CASE d \notin S
      <3>1. d \in Active \ S
        BY <2>3, <1>5
      <3>2. table[d].group \in Active \ S /\ table[table[d].group].group = table[d].group
        BY <3>1, <1>6 DEF AffinityInv, GroupsRooted
      <3>3. QED
        BY <2>1, <3>1, <3>2, <1>3, <1>5
    <2>4. QED
      BY <2>2, <2>3
  <1>10. QED
    BY <1>4, <1>8, <1>9 DEF AffinityInv

WholeGroups(rows) ==
    \A d, e \in Active : table[d].group = table[e].group => (d \in rows <=> e \in rows)

\* Deleting rows keeps the table in order when a live group goes as a whole,
\* unless it was torn before.
LEMMA DeleteKeeps ==
    ASSUME AffinityInv, NEW rows, Delete(rows), UNCHANGED now, (nextCleanup \in Nat)',
           (torn \in BOOLEAN)', ~torn' => ~torn /\ WholeGroups(rows)
    PROVE  AffinityInv'
  <1>1. DOMAIN table' = DOMAIN table \ rows /\ \A d \in DOMAIN table' : table'[d] = table[d]
    BY DEF Delete
  <1>2. AffinityTypeOK'
    <2>1. table' = [d \in DOMAIN table' |-> table'[d]]
      BY DEF Delete
    <2>2. QED
      BY <2>1, <1>1 DEF AffinityInv, AffinityTypeOK
  <1>3. Active' = Active \ rows
    BY <1>1 DEF Active, ActiveRow, Expires
  <1>4. \A d \in Active' : d \in DOMAIN table' /\ table'[d] = table[d]
    BY <1>1 DEF Active
  <1>5. ActiveGroupsAgree'
    BY <1>3, <1>4 DEF AffinityInv, ActiveGroupsAgree
  <1>6. GroupsRooted'
    <2> SUFFICES ASSUME ~torn', NEW d \in Active'
                 PROVE  /\ table'[d].group \in Active'
                        /\ table'[table'[d].group].group = table'[d].group
      BY DEF GroupsRooted
    <2>1. table[d].group \in Active /\ table[table[d].group].group = table[d].group
      BY <1>3 DEF AffinityInv, GroupsRooted
    <2>2. table[d].group \in Active'
      BY <2>1, <1>3 DEF WholeGroups
    <2>3. QED
      BY <2>1, <2>2, <1>4
  <1>7. QED
    BY <1>2, <1>5, <1>6 DEF AffinityInv

\* The row a transaction writes is a live row of a loaded live group, or a new
\* one named for one of the aliases when nothing loaded is live.
Writable(row, digests, groups) ==
    /\ row \in Row /\ row.updated <= now /\ ActiveRow(row)
    /\ ~torn => row.group \in digests \cup Loaded(digests, groups)
    /\ \/ \E w \in Active \cap Loaded(digests, groups) :
             row.group = table[w].group /\ row.created = table[w].created
               /\ \A e \in Active \cap Loaded(digests, groups) : Earlier(w, e)
       \/ Active \cap Loaded(digests, groups) = {}

LEMMA FreshWritable ==
    ASSUME AffinityInv, NEW digests \in SUBSET Digests, NEW groups, NEW a \in Auths,
           Loaded(digests, groups) \cap Active = {},
           NEW row \in Fresh(digests \cup Loaded(digests, groups), a)
    PROVE  Writable(row, digests, groups)
  <1>1. PICK g \in digests \cup Loaded(digests, groups) :
           row = [group |-> g, auth |-> a, created |-> now, updated |-> now]
    BY DEF Fresh, Canonical
  <1>2. g \in Digests
    BY DEF Loaded, AffinityInv, AffinityTypeOK
  <1>3. row \in Row
    BY <1>1, <1>2 DEF Row, AffinityInv, AffinityTypeOK
  <1>4. row.updated <= now /\ ActiveRow(row)
    BY <1>1, AffinityAssumption DEF ActiveRow, Expires, AffinityInv, AffinityTypeOK
  <1>5. QED
    BY <1>1, <1>3, <1>4 DEF Writable

LEMMA WinnerWritable ==
    ASSUME AffinityInv, NEW digests \in SUBSET Digests, NEW groups,
           NEW w \in Winners(Loaded(digests, groups)), NEW row \in Row,
           row.group = table[w].group, row.created = table[w].created,
           row.updated \in {table[w].updated, now}
    PROVE  Writable(row, digests, groups)
  <1>1. w \in Active /\ w \in Loaded(digests, groups)
    BY DEF Winners
  <1>2. \A e \in Active \cap Loaded(digests, groups) : Earlier(w, e)
    BY DEF Winners
  <1>3. w \in DOMAIN table
    BY <1>1 DEF Active
  <1>4. ~torn => /\ table[w].group \in DOMAIN table
                 /\ table[table[w].group].group = table[w].group
    BY <1>1 DEF AffinityInv, GroupsRooted, Active
  <1>5. ~torn => row.group \in Loaded(digests, groups)
    BY <1>1, <1>3, <1>4, LoadedWhole DEF AffinityInv
  <1>6. row.updated <= now /\ ActiveRow(row)
    BY <1>1, <1>3, AffinityAssumption
    DEF Active, ActiveRow, Expires, AffinityInv, AffinityTypeOK, Row
  <1>7. QED
    BY <1>1, <1>2, <1>5, <1>6 DEF Writable

LEMMA BindWritable ==
    ASSUME AffinityInv, NEW digests \in SUBSET Digests, NEW a \in Auths,
           NEW row \in BindRows(digests, a)
    PROVE  Writable(row, digests, {})
  <1>1. CASE \E w \in Winners(Loaded(digests, {})) : row = table[w]
    <2>1. PICK w \in Winners(Loaded(digests, {})) : row = table[w]
      BY <1>1
    <2>2. row \in Row
      BY <2>1 DEF Winners, Active, AffinityInv, AffinityTypeOK
    <2>3. QED
      BY <2>1, <2>2, WinnerWritable
  <1>2. CASE /\ Loaded(digests, {}) \cap Active = {}
             /\ row \in Fresh(digests \cup Loaded(digests, {}), a)
    BY <1>2, FreshWritable
  <1>3. QED
    BY <1>1, <1>2 DEF BindRows

LEMMA RebindWritable ==
    ASSUME AffinityInv, NEW digests \in SUBSET Digests, NEW group \in Digests,
           NEW expected \in Auths, NEW a \in Auths,
           NEW row \in RebindRows(digests, group, expected, a)
    PROVE  Writable(row, digests, {group})
  <1>1. CASE \E w \in Winners(Loaded(digests, {group})) :
               row = IF table[w].auth = expected
                     THEN [table[w] EXCEPT !.auth = a, !.updated = now]
                     ELSE table[w]
    <2>1. PICK w \in Winners(Loaded(digests, {group})) :
               row = IF table[w].auth = expected
                     THEN [table[w] EXCEPT !.auth = a, !.updated = now]
                     ELSE table[w]
      BY <1>1
    <2>2. table[w] \in Row /\ now \in 0..MaxTime
      BY DEF Winners, Active, AffinityInv, AffinityTypeOK
    <2>3. /\ row \in Row /\ row.group = table[w].group
          /\ row.created = table[w].created
          /\ row.updated \in {table[w].updated, now}
      BY <2>1, <2>2 DEF Row
    <2>4. QED
      BY <2>3, WinnerWritable
  <1>2. CASE /\ Loaded(digests, {group}) \cap Active = {}
             /\ row \in Fresh(digests \cup Loaded(digests, {group}), a)
    BY <1>2, FreshWritable
  <1>3. QED
    BY <1>1, <1>2 DEF RebindRows

LEMMA RefreshWritable ==
    ASSUME AffinityInv, NEW digests \in SUBSET Digests,
           NEW row \in RefreshRows(digests)
    PROVE  Writable(row, digests, {})
  <1>1. PICK w \in Winners(Loaded(digests, {})) : row = Renewed(table[w])
    BY DEF RefreshRows
  <1>2. table[w] \in Row /\ now \in 0..MaxTime
    BY DEF Winners, Active, AffinityInv, AffinityTypeOK
  <1>3. /\ row \in Row /\ row.group = table[w].group
        /\ row.created = table[w].created
        /\ row.updated \in {table[w].updated, now}
    BY <1>1, <1>2 DEF Row, Renewed
  <1>4. QED
    BY <1>3, WinnerWritable

\* Every writing transaction is a write of a writable row to its aliases.
WritingStep ==
    \E digests \in (SUBSET Digests) \ {{}}, groups \in SUBSET Digests, row \in Row :
        /\ Writable(row, digests, groups)
        /\ WriteAliases(digests \cup Loaded(digests, groups), row)
        /\ UNCHANGED <<now, nextCleanup, torn>>

\* Every deleting step removes live groups as a whole or tears one.
DeletingStep ==
    \E rows :
        /\ Delete(rows) /\ UNCHANGED now /\ (nextCleanup \in Nat)' /\ (torn \in BOOLEAN)'
        /\ ~torn' => ~torn /\ WholeGroups(rows)

LEMMA DivMod ==
    ASSUME NEW a \in Int, NEW d \in Nat \ {0}
    PROVE  /\ a % d \in Int /\ 0 <= a % d /\ a % d < d
           /\ a \div d \in Int /\ a = (a \div d) * d + (a % d)
  OBVIOUS

LEMMA MultiplesApart ==
    ASSUME NEW d \in Nat \ {0}, NEW p \in Int, NEW q \in Int, p * d < q * d + d
    PROVE  p <= q
  <1>1. p < q + 1
    OBVIOUS
  <1>2. QED
    BY <1>1

\* Whole seconds pass in order, whatever the resolution of the clock.
LEMMA SecondsInOrder ==
    ASSUME NEW t \in Nat, NEW q \in Int, q * Fractions <= t
    PROVE  q <= t \div Fractions
  <1>1. Fractions \in Nat \ {0}
    BY AffinityAssumption
  <1>2. /\ t % Fractions \in Int /\ t % Fractions < Fractions
        /\ t \div Fractions \in Int
        /\ t = (t \div Fractions) * Fractions + (t % Fractions)
    BY <1>1, DivMod
  <1>3. q * Fractions \in Int /\ (t \div Fractions) * Fractions \in Int
    BY <1>1, <1>2
  <1>4. q * Fractions < (t \div Fractions) * Fractions + Fractions
    BY <1>1, <1>2, <1>3
  <1>5. QED
    BY <1>1, <1>2, <1>4, MultiplesApart

\* A time cut to fewer places is in the same second.
LEMMA CutsStay ==
    ASSUME NEW s \in Nat, NEW u \in Units, NEW q \in Int, q * Fractions <= s
    PROVE  q * Fractions <= s - (s % u)
  <1>1. Fractions \in Nat \ {0} /\ u \in Nat \ {0} /\ Fractions % u = 0
    BY AffinityAssumption
  <1> DEFINE n == Fractions \div u
  <1>2. n \in Int /\ Fractions = n * u
    BY <1>1, DivMod
  <1>3. s % u \in Int /\ s % u < u /\ s \div u \in Int /\ s = (s \div u) * u + (s % u)
    BY <1>1, DivMod
  <1>4. q * Fractions = (q * n) * u /\ q * n \in Int
    BY <1>1, <1>2
  <1>5. (q * n) * u < (s \div u) * u + u
    BY <1>1, <1>3, <1>4
  <1>6. q * n <= s \div u
    BY <1>1, <1>3, <1>4, <1>5, MultiplesApart
  <1>7. (q * n) * u <= (s \div u) * u
    BY <1>1, <1>3, <1>4, <1>6
  <1>8. QED
    BY <1>1, <1>3, <1>4, <1>7

\* In the order of text a time is at most another only in the same second or
\* in an earlier one.
LEMMA TextInOrder ==
    ASSUME NEW s \in Nat, NEW t \in Nat, TextAtMost(s, t)
    PROVE  s \div Fractions <= t \div Fractions
  <1>1. Fractions \in Nat \ {0}
    BY AffinityAssumption
  <1> DEFINE q == s \div Fractions
  <1>2. q \in Int /\ q * Fractions <= s
    <2>1. s % Fractions \in Int /\ 0 <= s % Fractions /\ q \in Int
          /\ s = q * Fractions + (s % Fractions)
      BY <1>1, DivMod
    <2>2. q * Fractions \in Int
      BY <1>1, <2>1
    <2>3. QED
      BY <2>1, <2>2
  <1>3. q * Fractions <= t
    <2>1. CASE s <= t
      BY <1>1, <1>2, <2>1
    <2>2. CASE s > t
      <3>1. PICK u \in Units : t = s - (s % u)
        BY <2>2 DEF TextAtMost, CutOf
      <3>2. QED
        BY <1>2, <3>1, CutsStay
    <2>3. QED
      BY <2>1, <2>2
  <1>4. QED
    BY <1>2, <1>3, SecondsInOrder

\* Cleanup removes no row before the second in which it expires, and whole
\* groups of live rows unless it tears one.
LEMMA CleanupDeletes ==
    ASSUME AffinityInv, CleanupExpired
    PROVE  DeletingStep /\ Lasting \subseteq DOMAIN table'
  <1>1. PICK batch \in SUBSET Expired :
           /\ Delete(batch)
           /\ nextCleanup' = IF Cardinality(batch) < BatchSize
                             THEN now + CleanupInterval ELSE now
           /\ torn' = (torn \/ Tears(batch))
    BY DEF CleanupExpired
  <1>2. now \in Nat /\ (nextCleanup \in Nat)'
    BY <1>1, AffinityAssumption DEF AffinityInv, AffinityTypeOK
  <1>3. \A d \in DOMAIN table : Expires(table[d]) \in Nat
    BY AffinityAssumption DEF Expires, AffinityInv, AffinityTypeOK, Row
  <1>4. \A d \in batch : d \in DOMAIN table /\ TextAtMost(Expires(table[d]), now)
    BY DEF Expired
  <1>5. ASSUME NEW d \in Lasting, d \in batch PROVE FALSE
    <2>1. Expires(table[d]) \div Fractions <= now \div Fractions
      BY <1>2, <1>3, <1>4, <1>5, TextInOrder
    <2>2. Expires(table[d]) \div Fractions > now \div Fractions
      BY DEF Lasting
    <2>3. Expires(table[d]) \div Fractions \in Int /\ now \div Fractions \in Int
      BY <1>2, <1>3, <1>4, <1>5, AffinityAssumption
    <2>4. QED
      BY <2>1, <2>2, <2>3
  <1>6. Lasting \subseteq DOMAIN table'
    BY <1>1, <1>5 DEF Delete, Lasting
  <1>7. (torn \in BOOLEAN)'
    BY <1>1 DEF AffinityInv, AffinityTypeOK
  <1>8. ~torn' => ~torn /\ WholeGroups(batch)
    BY <1>1 DEF Tears, WholeGroups
  <1>9. UNCHANGED now
    BY DEF CleanupExpired
  <1>10. DeletingStep
    BY <1>1, <1>2, <1>7, <1>8, <1>9 DEF DeletingStep
  <1>11. QED
    BY <1>6, <1>10

LEMMA Steps ==
    ASSUME AffinityInv, Next
    PROVE  WritingStep \/ DeletingStep \/ Tick
  <1>0. nextCleanup \in Nat /\ torn \in BOOLEAN
    BY DEF AffinityInv, AffinityTypeOK
  <1>1. ASSUME NEW digests \in (SUBSET Digests) \ {{}}, NEW a \in Auths,
               BindSessionAffinity(digests, a)
        PROVE  WritingStep
    <2>1. PICK row \in BindRows(digests, a) :
             WriteAliases(digests \cup Loaded(digests, {}), row)
      BY <1>1 DEF BindSessionAffinity
    <2>2. Writable(row, digests, {}) /\ {} \in SUBSET Digests
      BY BindWritable
    <2>3. row \in Row
      BY <2>2 DEF Writable
    <2>4. QED
      BY <1>1, <2>1, <2>2, <2>3 DEF BindSessionAffinity, WritingStep
  <1>2. ASSUME NEW digests \in (SUBSET Digests) \ {{}}, NEW group \in Digests,
               NEW expected \in Auths, NEW a \in Auths,
               RebindSessionAffinity(digests, group, expected, a)
        PROVE  WritingStep
    <2>1. PICK row \in RebindRows(digests, group, expected, a) :
             WriteAliases(digests \cup Loaded(digests, {group}), row)
      BY <1>2 DEF RebindSessionAffinity
    <2>2. Writable(row, digests, {group}) /\ {group} \in SUBSET Digests
      BY RebindWritable
    <2>3. row \in Row
      BY <2>2 DEF Writable
    <2>4. QED
      BY <1>2, <2>1, <2>2, <2>3 DEF RebindSessionAffinity, WritingStep
  <1>3. ASSUME NEW digests \in (SUBSET Digests) \ {{}}, RefreshSessionAffinity(digests)
        PROVE  WritingStep
    <2>1. PICK row \in RefreshRows(digests) :
             WriteAliases(digests \cup Loaded(digests, {}), row)
      BY <1>3 DEF RefreshSessionAffinity
    <2>2. Writable(row, digests, {}) /\ {} \in SUBSET Digests
      BY RefreshWritable
    <2>3. row \in Row
      BY <2>2 DEF Writable
    <2>4. QED
      BY <1>3, <2>1, <2>2, <2>3 DEF RefreshSessionAffinity, WritingStep
  <1>4. ASSUME NEW digests \in (SUBSET Digests) \ {{}}, DeleteByTenantSession(digests)
        PROVE  DeletingStep
    <2> DEFINE groups == {table[d].group : d \in digests \cap DOMAIN table}
               rows == {d \in DOMAIN table : table[d].group \in groups}
    <2>1. Delete(rows) /\ UNCHANGED <<now, nextCleanup, torn>>
      BY <1>4 DEF DeleteByTenantSession
    <2>2. WholeGroups(rows)
      BY DEF Active, WholeGroups
    <2>3. QED
      BY <2>1, <2>2, <1>0 DEF DeletingStep
  <1>5. ASSUME NEW auths \in SUBSET Auths, DeleteByAuthIDs(auths)
        PROVE  DeletingStep
    <2> DEFINE rows == {d \in DOMAIN table : table[d].auth \in auths}
    <2>1. Delete(rows) /\ UNCHANGED <<now, nextCleanup, torn>>
      BY <1>5 DEF DeleteByAuthIDs
    <2>2. ~torn => WholeGroups(rows)
      BY DEF Active, AffinityInv, ActiveGroupsAgree, WholeGroups
    <2>3. QED
      BY <2>1, <2>2, <1>0 DEF DeletingStep
  <1>6. ASSUME NEW auths \in SUBSET Auths, Restart(auths)
        PROVE  DeletingStep
    <2> DEFINE rows == {d \in DOMAIN table : table[d].auth \notin auths}
    <2>1. Delete(rows) /\ UNCHANGED <<now, torn>> /\ nextCleanup' = 0
      BY <1>6 DEF Restart
    <2>2. ~torn => WholeGroups(rows)
      BY DEF Active, AffinityInv, ActiveGroupsAgree, WholeGroups
    <2>3. QED
      BY <2>1, <2>2, <1>0 DEF DeletingStep
  <1>7. CASE DeleteByTenantScope
    <2>1. Delete(DOMAIN table) /\ UNCHANGED <<now, nextCleanup, torn>>
      BY <1>7 DEF DeleteByTenantScope
    <2>2. QED
      BY <2>1, <1>0 DEF DeletingStep, WholeGroups, Active
  <1>8. CASE CleanupExpired
    BY <1>8, CleanupDeletes
  <1>9. QED
    BY <1>1, <1>2, <1>3, <1>4, <1>5, <1>6, <1>7, <1>8 DEF Next

LEMMA TickKeeps ==
    ASSUME AffinityInv, Tick
    PROVE  /\ AffinityInv' /\ Active' \subseteq Active
           /\ ~torn => \A d, e \in Active :
                table[d].group = table[e].group => (d \in Active' <=> e \in Active')
  <1>1. now' = now + 1 /\ now < MaxTime /\ UNCHANGED <<table, nextCleanup, torn>>
    BY DEF Tick
  <1>2. AffinityTypeOK'
    BY <1>1, AffinityAssumption DEF AffinityInv, AffinityTypeOK, Row
  <1>3. Active' = {d \in Active : Expires(table[d]) > now + 1}
    BY <1>1, AffinityAssumption
    DEF Active, ActiveRow, Expires, AffinityInv, AffinityTypeOK, Row
  <1>4. ~torn => \A d, e \in Active :
          table[d].group = table[e].group => (d \in Active' <=> e \in Active')
    BY <1>3 DEF AffinityInv, ActiveGroupsAgree
  <1>5. ActiveGroupsAgree'
    BY <1>1, <1>3 DEF AffinityInv, ActiveGroupsAgree
  <1>6. GroupsRooted'
    <2> SUFFICES ASSUME ~torn, NEW d \in Active'
                 PROVE  table[d].group \in Active' /\ table[table[d].group].group = table[d].group
      BY <1>1 DEF GroupsRooted
    <2>1. d \in Active /\ table[d].group \in Active /\ table[table[d].group].group = table[d].group
      BY <1>3 DEF AffinityInv, GroupsRooted
    <2>2. QED
      BY <2>1, <1>4
  <1>7. QED
    BY <1>2, <1>3, <1>4, <1>5, <1>6 DEF AffinityInv

LEMMA AffinityInvInit == Init => AffinityInv
  <1> SUFFICES ASSUME Init PROVE AffinityInv
    OBVIOUS
  <1>1. DOMAIN table = {}
    BY DEF Init
  <1>2. Active = {}
    BY <1>1 DEF Active
  <1>3. table = [d \in DOMAIN table |-> table[d]]
    BY <1>1 DEF Init
  <1>4. AffinityTypeOK
    <2>1. torn \in BOOLEAN
      BY Zenon DEF Init
    <2>2. now \in 0..MaxTime /\ nextCleanup \in Nat
      BY AffinityAssumption DEF Init
    <2>3. QED
      BY <1>1, <1>3, <2>1, <2>2 DEF AffinityTypeOK
  <1>5. QED
    BY <1>2, <1>4 DEF AffinityInv, ActiveGroupsAgree, GroupsRooted

LEMMA AffinityInvStep ==
    AffinityInv /\ [Next]_affinityVars => AffinityInv'
  <1> SUFFICES ASSUME AffinityInv, [Next]_affinityVars
               PROVE  AffinityInv'
    OBVIOUS
  <1>1. CASE WritingStep
    <2>1. PICK digests \in (SUBSET Digests) \ {{}}, groups \in SUBSET Digests, row \in Row :
             /\ Writable(row, digests, groups)
             /\ WriteAliases(digests \cup Loaded(digests, groups), row)
             /\ UNCHANGED <<now, nextCleanup, torn>>
      BY <1>1 DEF WritingStep
    <2>2. QED
      BY <2>1, WriteKeeps DEF Writable
  <1>2. CASE DeletingStep
    BY <1>2, DeleteKeeps DEF DeletingStep
  <1>3. CASE Tick
    BY <1>3, TickKeeps
  <1>4. CASE UNCHANGED affinityVars
    BY <1>4 DEF affinityVars, AffinityInv, AffinityTypeOK, ActiveGroupsAgree,
                GroupsRooted, Active, ActiveRow, Expires
  <1>5. QED
    BY <1>1, <1>2, <1>3, <1>4, Steps

\* The rows of the table keep their types and no row is from the future.
THEOREM AffinityTypesHold == Spec => []AffinityTypeOK
  <1>1. AffinityInv => AffinityTypeOK
    BY DEF AffinityInv
  <1>2. QED
    BY <1>1, AffinityInvInit, AffinityInvStep, PTL DEF Spec

\* Live rows of one group agree on the auth, whatever sequence of binds,
\* merges, moves, clears, restarts and partial cleanups led there.
THEOREM ActiveGroupsAgreeHolds == Spec => []ActiveGroupsAgree
  <1>1. AffinityInv => ActiveGroupsAgree
    BY DEF AffinityInv
  <1>2. QED
    BY <1>1, AffinityInvInit, AffinityInvStep, PTL DEF Spec

\* Every live group has a live row of the digest it is named for.
THEOREM GroupsRootedHolds == Spec => []GroupsRooted
  <1>1. AffinityInv => GroupsRooted
    BY DEF AffinityInv
  <1>2. QED
    BY <1>1, AffinityInvInit, AffinityInvStep, PTL DEF Spec

\* Cleanup never removes a row before the second in which it expires.
THEOREM CleanupSparesLastingHolds == Spec => CleanupSparesLasting
  <1>1. AffinityInv => (CleanupExpired => Lasting \subseteq DOMAIN table')
    BY CleanupDeletes
  <1>2. QED
    BY <1>1, AffinityInvInit, AffinityInvStep, PTL DEF Spec, CleanupSparesLasting

-----------------------------------------------------------------------------
(***************************************************************************)
(* The table implements SessionBindings: a write opens a session or merges  *)
(* the loaded ones, a delete and the clock end sessions as a whole.         *)
(***************************************************************************)

\* What a write of row to the aliases S does to the live rows: S has them all,
\* with the groups it meets, and no other live row is of the row's group.
WriteEffect(S, row) ==
    /\ S \subseteq Digests /\ (~torn => row.group \in S)
    /\ Active' = (Active \ S) \cup S
    /\ \A d \in S : table'[d] = row
    /\ \A d \in Active \ S : table'[d] = table[d] /\ (~torn => table[d].group # row.group)
    /\ \A d \in Active \cap S, e \in Active : table[e].group = table[d].group => e \in S

LEMMA WriteFacts ==
    ASSUME AffinityInv, NEW digests \in SUBSET Digests, NEW groups \in SUBSET Digests,
           NEW row \in Row, Writable(row, digests, groups),
           WriteAliases(digests \cup Loaded(digests, groups), row),
           UNCHANGED <<now, nextCleanup, torn>>
    PROVE  /\ WriteEffect(digests \cup Loaded(digests, groups), row)
           /\ Active \cap (digests \cup Loaded(digests, groups))
                = Active \cap Loaded(digests, groups)
  <1> DEFINE S == digests \cup Loaded(digests, groups)
  <1>1. Loaded(digests, groups) \subseteq DOMAIN table /\ Active \subseteq DOMAIN table
    BY DEF Loaded, Active
  <1>2. S \subseteq Digests /\ DOMAIN table' = DOMAIN table \cup S
    BY <1>1 DEF AffinityInv, AffinityTypeOK, WriteAliases
  <1>3. \A d \in DOMAIN table' : table'[d] = IF d \in S THEN row ELSE table[d]
    BY <1>2 DEF WriteAliases
  <1>4. ActiveRow(row) /\ (~torn => row.group \in S)
    BY DEF Writable
  <1>5. Active' = (Active \ S) \cup S
    BY <1>2, <1>3, <1>4 DEF Active, ActiveRow, Expires
  <1>6. \A d \in S : table'[d] = row
    BY <1>2, <1>3
  <1>7. ASSUME NEW d \in Active \ S
        PROVE  table'[d] = table[d] /\ (~torn => table[d].group # row.group)
    <2>1. table'[d] = table[d]
      BY <1>1, <1>2, <1>3
    <2>2. CASE \E w \in Active \cap Loaded(digests, groups) : row.group = table[w].group
      BY <2>1, <2>2, GroupInOrOut
    <2>3. CASE Active \cap Loaded(digests, groups) = {}
      BY <2>1, <1>4, GroupInOrOut
    <2>4. QED
      BY <2>2, <2>3 DEF Writable
  <1>8. \A d \in Active \cap S, e \in Active : table[e].group = table[d].group => e \in S
    BY GroupInOrOut
  <1>9. Active \cap S = Active \cap Loaded(digests, groups)
    BY <1>1 DEF Loaded
  <1>10. QED
    BY <1>2, <1>4, <1>5, <1>6, <1>7, <1>8, <1>9 DEF WriteEffect

LEMMA WriteRefines ==
    ASSUME AffinityInv, AffinityInv', WritingStep, ~torn
    PROVE  Promise!Next
  <1>1. PICK digests \in (SUBSET Digests) \ {{}}, groups \in SUBSET Digests, row \in Row :
           /\ Writable(row, digests, groups)
           /\ WriteAliases(digests \cup Loaded(digests, groups), row)
           /\ UNCHANGED <<now, nextCleanup, torn>>
    BY DEF WritingStep
  <1>0. ~torn'
    BY <1>1
  <1> DEFINE S == digests \cup Loaded(digests, groups)
             written == [aliases |-> S, auth |-> row.auth, since |-> row.created]
             same == {b \in Sessions : b.aliases \subseteq S}
  <1>a. WriteEffect(S, row) /\ Active \cap S = Active \cap Loaded(digests, groups)
    BY <1>1, WriteFacts
  <1>2. /\ S \subseteq Digests /\ row.group \in S
        /\ Active' = (Active \ S) \cup S
        /\ \A d \in S : table'[d] = row
        /\ \A d \in Active \ S : table'[d] = table[d] /\ table[d].group # row.group
        /\ \A d \in Active \cap S, e \in Active : table[e].group = table[d].group => e \in S
        /\ Active \cap S = Active \cap Loaded(digests, groups)
    BY <1>a DEF WriteEffect
  <1>3. written \in Promise!Binding
    BY <1>2 DEF Promise!Binding, Row
  <1> HIDE DEF S
  <1>4. \A d \in S : SessionOf(Active, d)' = written
    BY <1>2 DEF SessionOf
  <1>5. \A d \in Active \ S : SessionOf(Active, d)' = SessionOf(Active, d)
    <2> TAKE d \in Active \ S
    <2>1. {e \in Active' : table'[e].group = table'[d].group}
            = {e \in Active : table[e].group = table[d].group}
      BY <1>2
    <2>2. QED
      BY <2>1, <1>2 DEF SessionOf
  <1>6. \A d \in Active : d \in S <=> SessionOf(Active, d).aliases \subseteq S
    BY <1>2 DEF SessionOf
  <1>7. Sessions = {SessionOf(Active, d) : d \in Active}
    BY DEF Sessions
  <1>8. Sessions' = {SessionOf(Active, d)' : d \in Active'}
    BY <1>0 DEF Sessions
  <1>9. Sessions' = (Sessions \ same) \cup {written}
    <2>1. ASSUME NEW b \in Sessions' PROVE b \in (Sessions \ same) \cup {written}
      <3>1. PICK d \in Active' : b = SessionOf(Active, d)'
        BY <2>1, <1>8
      <3>2. CASE d \in S
        BY <3>1, <3>2, <1>4
      <3>3. CASE d \notin S
        <4>1. d \in Active \ S
          BY <3>3, <1>2
        <4>2. b = SessionOf(Active, d)
          BY <3>1, <4>1, <1>5
        <4>3. b \in Sessions /\ b \notin same
          BY <4>1, <4>2, <1>6, <1>7
        <4>4. QED
          BY <4>3
      <3>4. QED
        BY <3>2, <3>3
    <2>2. written \in Sessions'
      BY <1>2, <1>4, <1>8
    <2>3. ASSUME NEW b \in Sessions \ same PROVE b \in Sessions'
      <3>1. PICK d \in Active : b = SessionOf(Active, d)
        BY <1>7
      <3>2. d \in Active \ S
        BY <3>1, <1>6
      <3>3. QED
        <4>1. b = SessionOf(Active, d)' /\ d \in Active'
          BY <3>1, <3>2, <1>2, <1>5
        <4>2. QED
          BY <4>1, <1>8
    <2>4. QED
      BY <2>1, <2>2, <2>3
  <1>10. \A b \in Sessions \ same : b.aliases \cap S = {}
    <2> TAKE b \in Sessions \ same
    <2>1. PICK d \in Active : b = SessionOf(Active, d)
      BY <1>7
    <2>2. d \notin S /\ \A e \in b.aliases : e \in Active /\ table[e].group = table[d].group
      BY <2>1, <1>6 DEF SessionOf
    <2>3. QED
      BY <2>2, <1>2
  <1>11. CASE Active \cap Loaded(digests, groups) = {}
    <2>1. same = {}
      <3> SUFFICES ASSUME NEW b \in same PROVE FALSE
        OBVIOUS
      <3>1. PICK d \in Active : b = SessionOf(Active, d)
        BY <1>7
      <3>2. QED
        BY <3>1, <1>2, <1>6, <1>11
    <2>2. written.aliases # {} /\ written.aliases \cap Promise!Bound = {}
      BY <2>1, <1>2, <1>10 DEF Promise!Bound
    <2>3. Promise!Open(written)
      BY <2>1, <2>2, <1>3, <1>9 DEF Promise!Open
    <2>4. QED
      BY <2>3, <1>9 DEF Promise!Next
  <1>12. CASE \E w \in Active \cap Loaded(digests, groups) :
                /\ row.group = table[w].group /\ row.created = table[w].created
                /\ \A e \in Active \cap Loaded(digests, groups) : Earlier(w, e)
    <2>1. PICK w \in Active \cap S :
                /\ row.created = table[w].created
                /\ \A e \in Active \cap S : Earlier(w, e)
      BY <1>12, <1>2
    <2> DEFINE eldest == SessionOf(Active, w)
    <2>2. eldest \in same /\ eldest \in Sessions /\ eldest.since = written.since
      BY <2>1, <1>6, <1>7 DEF SessionOf
    <2>3. \A b \in same : eldest.since <= b.since
      <3> TAKE b \in same
      <3>1. PICK d \in Active : b = SessionOf(Active, d)
        BY <1>7
      <3>2. d \in S
        BY <3>1, <1>6
      <3>3. Earlier(w, d) /\ table[w].created \in Nat /\ table[d].created \in Nat
        BY <2>1, <3>2 DEF Active, AffinityInv, AffinityTypeOK, Row
      <3>4. QED
        BY <3>1, <3>3 DEF Earlier, SessionOf
    <2>4. Promise!Merge(eldest, written)
      BY <2>2, <2>3, <1>3, <1>9, <1>10 DEF Promise!Merge
    <2>5. QED
      BY <2>2, <2>4, <1>9 DEF Promise!Next
  <1>13. QED
    BY <1>1, <1>11, <1>12 DEF Writable

\* Live rows only leave, and groups leave as a whole.
LEMMA ShrinkRefines ==
    ASSUME ~torn, ~torn', Active' \subseteq Active, \A d \in Active' : table'[d] = table[d],
           \A d, e \in Active : table[d].group = table[e].group => (d \in Active' <=> e \in Active')
    PROVE  Promise!Next
  <1>1. ASSUME NEW b \in Sessions' PROVE b \in Sessions
    <2>1. PICK d \in Active' : b = SessionOf(Active, d)'
      BY <1>1 DEF Sessions
    <2>2. {e \in Active' : table'[e].group = table'[d].group}
            = {e \in Active : table[e].group = table[d].group}
      OBVIOUS
    <2>3. b = SessionOf(Active, d)
      BY <2>1, <2>2 DEF SessionOf
    <2>4. QED
      BY <2>3 DEF Sessions
  <1>2. QED
    BY <1>1 DEF Promise!Next, Promise!End

LEMMA StepRefines ==
    ASSUME AffinityInv, AffinityInv', [Next]_affinityVars
    PROVE  [Promise!Next]_Sessions
  <1>1. CASE torn'
    BY <1>1 DEF Sessions, Promise!Next, Promise!End
  <1>2. CASE WritingStep /\ ~torn'
    <2>1. ~torn
      BY <1>2 DEF WritingStep
    <2>2. QED
      BY <1>2, <2>1, WriteRefines
  <1>3. CASE DeletingStep /\ ~torn'
    <2>1. PICK rows :
            /\ Delete(rows) /\ UNCHANGED now
            /\ ~torn /\ WholeGroups(rows)
      BY <1>3 DEF DeletingStep
    <2>2. DOMAIN table' = DOMAIN table \ rows /\ \A d \in DOMAIN table' : table'[d] = table[d]
      BY <2>1 DEF Delete
    <2>3. Active' = Active \ rows
      BY <2>1, <2>2 DEF Active, ActiveRow, Expires
    <2>4. \A d \in Active' : table'[d] = table[d]
      BY <2>2, <2>3 DEF Active
    <2>5. QED
      BY <1>3, <2>1, <2>3, <2>4, ShrinkRefines DEF WholeGroups
  <1>4. CASE Tick /\ ~torn'
    <2>1. table' = table /\ ~torn
      BY <1>4 DEF Tick
    <2>2. QED
      BY <1>4, <2>1, TickKeeps, ShrinkRefines
  <1>5. CASE UNCHANGED affinityVars
    BY <1>5 DEF affinityVars, Sessions, SessionOf, Active, ActiveRow, Expires
  <1>6. QED
    BY <1>1, <1>2, <1>3, <1>4, <1>5, Steps

\* The table implements the promise: sessions with disjoint aliases that move
\* and end as a whole, the eldest prevailing when sessions turn out the same.
THEOREM ImplementsPromiseHolds == Spec => ImplementsPromise
  <1>1. Init => Promise!Init
    BY DEF Init, Promise!Init, Sessions, Active
  <1>2. AffinityInv /\ AffinityInv' /\ [Next]_affinityVars
          => [Promise!Next]_Sessions
    BY StepRefines
  <1>3. QED
    BY <1>1, <1>2, AffinityInvInit, AffinityInvStep, PTL
    DEF Spec, ImplementsPromise, Promise!Spec

-----------------------------------------------------------------------------
(***************************************************************************)
(* The auth selection of the requests (AffinitySelection).  First the types *)
(* of a request and the shape of its variables at each call.                *)
(***************************************************************************)

\* A binding in hand is of all the digests of its request; a request that is
\* about to move one holds it and cannot use its auth; one that asks the table
\* holds none; an attempt has an auth.
Shaped(q) ==
    /\ q.phase \notin Over => q.digests # {}
    /\ q.binding # NoBinding => q.digests \subseteq q.binding.digests
    /\ q.phase \in {"rebind", "rebindAgain"} =>
         /\ q.binding \in Binding /\ q.digests \subseteq q.binding.digests
         /\ q.binding.auth \notin q.eligible
    /\ q.phase \in {"lookup", "groups", "refresh", "bind"} => q.binding = NoBinding
    /\ q.phase = "attempt" => q.auth \in Auths

SelectionTypes ==
    /\ known \subseteq Auths /\ steady \subseteq Requests
    /\ requests \in [Requests -> Request]
    /\ \A r \in Requests : Shaped(requests[r])

\* Request r goes on as q says.
Becomes(r, q) ==
    requests' = [requests EXCEPT ![r] = q] /\ q \in Request /\ Shaped(q)

\* The phases in which a request's transaction tells it the auth.
Transacting == {"refresh", "bind", "rebind", "rebindAgain"}

\* A step of r that learns nothing of the auth: at most r's binding stays.
Keeps(r, q) ==
    /\ q.phase \notin {"groups", "attempt", "answered"}
    /\ \/ q.binding = NoBinding
       \/ /\ q.binding = requests[r].binding /\ q.digests \subseteq requests[r].digests
          /\ requests[r].phase \notin Transacting

LEMMA IdleIsRequest ==
    ASSUME NEW phase \in Phases
    PROVE  [Idle EXCEPT !.phase = phase] \in Request
  <1>1. NoRows \in [{} -> Row]
    BY DEF NoRows
  <1>2. NoRows \in UNION {[S -> Row] : S \in SUBSET Digests}
    BY <1>1
  <1>3. 0 \in 0..MaxTime /\ 0 \in 0..MaxRetries
    BY AffinityAssumption, SelectionAssumption
  <1>4. QED
    BY <1>2, <1>3 DEF Idle, Request

LEMMA Settles ==
    ASSUME NEW q \in Request, NEW b \in Binding, q.digests # {}, q.digests \subseteq b.digests,
           NEW a \in Auths
    PROVE  Settle(q, b, a) \in Request /\ Shaped(Settle(q, b, a))
  <1>1. Settle(q, b, a) \in Request
    BY DEF Settle, Request, Phases
  <1>2. /\ Settle(q, b, a).phase = "attempt" /\ Settle(q, b, a).auth = a
        /\ Settle(q, b, a).binding = b /\ Settle(q, b, a).digests = q.digests
    BY DEF Settle, Request
  <1>3. QED
    BY <1>1, <1>2 DEF Shaped

LEMMA MovesNext ==
    ASSUME NEW q \in Request, NEW b \in Binding, q.digests # {}, q.digests \subseteq b.digests,
           b.auth \notin q.eligible, NEW phase \in {"rebind", "rebindAgain"}
    PROVE  /\ [q EXCEPT !.phase = phase, !.binding = b] \in Request
           /\ Shaped([q EXCEPT !.phase = phase, !.binding = b])
  <1> DEFINE moved == [q EXCEPT !.phase = phase, !.binding = b]
  <1>1. moved \in Request
    BY DEF Request, Phases
  <1>2. /\ moved.phase = phase /\ moved.binding = b /\ moved.digests = q.digests
        /\ moved.eligible = q.eligible
    BY DEF Request
  <1>3. QED
    BY <1>1, <1>2 DEF Shaped

\* A request whose auth, once it attempts, and whose binding, if it has one,
\* are of auth a.
HasAuth(q, a) ==
    /\ q.phase \notin {"groups", "answered"}
    /\ q.phase = "attempt" => q.auth = a
    /\ q.binding # NoBinding => q.binding.auth = a

LEMMA GivenAuth ==
    ASSUME NEW q \in Request, NEW b \in Binding
    PROVE  /\ HasAuth(UseOrMove(q, b), b.auth) /\ UseOrMove(q, b).digests \subseteq q.digests
           /\ HasAuth(UseOrRetry(q, b), b.auth) /\ UseOrRetry(q, b).digests \subseteq q.digests
           /\ HasAuth(UseOrFail(q, b), b.auth) /\ UseOrFail(q, b).digests \subseteq q.digests
  <1>1. HasAuth(Settle(q, b, b.auth), b.auth) /\ Settle(q, b, b.auth).digests = q.digests
    BY DEF Settle, HasAuth, Request
  <1>2. ASSUME NEW phase \in {"rebind", "rebindAgain"}
        PROVE  /\ HasAuth([q EXCEPT !.phase = phase, !.binding = b], b.auth)
               /\ [q EXCEPT !.phase = phase, !.binding = b].digests = q.digests
    BY DEF HasAuth, Request
  <1>3. HasAuth([Idle EXCEPT !.phase = "failed"], b.auth) /\ [Idle EXCEPT !.phase = "failed"].digests = {}
    BY DEF HasAuth, Idle
  <1>4. CASE b.auth \in q.eligible
    <2>1. CASE b.auth \in q.active
      BY <2>1, <1>1, <1>4 DEF UseOrMove, UseOrRetry, UseOrFail
    <2>2. CASE b.auth \notin q.active
      BY <2>2, <1>1, <1>3, <1>4 DEF UseOrMove, UseOrRetry, UseOrFail
    <2>3. QED
      BY <2>1, <2>2
  <1>5. CASE b.auth \notin q.eligible
    <2>1. /\ HasAuth(UseOrMove(q, b), b.auth) /\ UseOrMove(q, b).digests \subseteq q.digests
          /\ HasAuth(UseOrRetry(q, b), b.auth) /\ UseOrRetry(q, b).digests \subseteq q.digests
      BY <1>2, <1>5, Zenon DEF UseOrMove, UseOrRetry
    <2>2. HasAuth(UseOrFail(q, b), b.auth) /\ UseOrFail(q, b).digests \subseteq q.digests
      BY <1>1, <1>3 DEF UseOrFail
    <2>3. QED
      BY <2>1, <2>2
  <1>6. QED
    BY <1>4, <1>5

\* What becomes of a request that is given a binding.
LEMMA Given ==
    ASSUME NEW q \in Request, NEW b \in Binding, q.digests # {}, q.digests \subseteq b.digests
    PROVE  /\ UseOrMove(q, b) \in Request /\ Shaped(UseOrMove(q, b))
           /\ UseOrRetry(q, b) \in Request /\ Shaped(UseOrRetry(q, b))
           /\ UseOrFail(q, b) \in Request /\ Shaped(UseOrFail(q, b))
  <1>1. b.auth \in Auths
    BY DEF Binding
  <1>2. Settle(q, b, b.auth) \in Request /\ Shaped(Settle(q, b, b.auth))
    BY <1>1, Settles
  <1>3. /\ UseOrMove(q, b) \in Request /\ Shaped(UseOrMove(q, b))
        /\ UseOrRetry(q, b) \in Request /\ Shaped(UseOrRetry(q, b))
    <2>1. CASE b.auth \in q.eligible
      BY <2>1, <1>2 DEF UseOrMove, UseOrRetry
    <2>2. CASE b.auth \notin q.eligible
      <3>1. /\ [q EXCEPT !.phase = "rebind", !.binding = b] \in Request
            /\ Shaped([q EXCEPT !.phase = "rebind", !.binding = b])
        BY <2>2, MovesNext, Zenon
      <3>2. /\ [q EXCEPT !.phase = "rebindAgain", !.binding = b] \in Request
            /\ Shaped([q EXCEPT !.phase = "rebindAgain", !.binding = b])
        BY <2>2, MovesNext, Zenon
      <3>3. QED
        BY <2>2, <3>1, <3>2, Zenon DEF UseOrMove, UseOrRetry
    <2>3. QED
      BY <2>1, <2>2
  <1>4. [Idle EXCEPT !.phase = "failed"] \in Request
    BY IdleIsRequest DEF Phases
  <1>5. Shaped([Idle EXCEPT !.phase = "failed"])
    BY DEF Idle, Shaped, Over
  <1>6. QED
    BY <1>2, <1>3, <1>4, <1>5 DEF UseOrFail

LEMMA Abandons ==
    ASSUME NEW r \in Requests, Abandon(r)
    PROVE  \E q : Becomes(r, q) /\ Keeps(r, q)
  <1>1. [Idle EXCEPT !.phase = "failed"] \in Request
    BY IdleIsRequest DEF Phases
  <1>2. Shaped([Idle EXCEPT !.phase = "failed"])
    BY DEF Idle, Shaped, Over
  <1>3. Keeps(r, [Idle EXCEPT !.phase = "failed"])
    BY DEF Idle, Keeps
  <1>4. requests' = [requests EXCEPT ![r] = [Idle EXCEPT !.phase = "failed"]]
    BY DEF Abandon
  <1> DEFINE q == [Idle EXCEPT !.phase = "failed"]
  <1>5. Becomes(r, q) /\ Keeps(r, q)
    BY <1>1, <1>2, <1>3, <1>4 DEF Becomes
  <1> HIDE DEF q
  <1>6. QED
    BY <1>5

\* One step per call: where it leaves the request, with its types and shape.
LEMMA ScanTypes ==
    ASSUME SelectionTypes, NEW r \in Requests, requests[r].phase \in {"arrived", "reconcile"},
           NEW next \in {"reconcile", "clean"}, NEW invalidate \in {"invalidateFirst", "invalidate"},
           NEW allowed \in SUBSET Auths, ScanFiles(r, invalidate, next, allowed)
    PROVE  known' \subseteq Auths /\ \E q : Becomes(r, q) /\ Keeps(r, q)
  <1> DEFINE phase == IF known \subseteq Present THEN next ELSE invalidate
             q == [requests[r] EXCEPT !.allowed = allowed, !.active = Enabled,
                                      !.removed = known \ Present, !.phase = phase]
  <1>1. Present \subseteq Auths /\ Enabled \subseteq Auths /\ known \subseteq Auths
    BY DEF Present, Enabled, SelectionTypes
  <1>2. requests[r] \in Request /\ Shaped(requests[r])
    BY DEF SelectionTypes
  <1>3. phase \in {"reconcile", "clean", "invalidateFirst", "invalidate"}
    OBVIOUS
  <1>4. requests' = [requests EXCEPT ![r] = q] /\ known' = Present
    BY DEF ScanFiles, SelectionTypes
  <1> HIDE DEF phase
  <1>5. q \in Request
    BY <1>1, <1>2, <1>3 DEF Request, Phases
  <1>6. /\ q.phase = phase /\ q.binding = requests[r].binding
        /\ q.digests = requests[r].digests
    BY <1>2 DEF Request
  <1>7. Shaped(q)
    BY <1>2, <1>3, <1>6 DEF Shaped, Over
  <1> HIDE DEF q
  <1>8. Keeps(r, q)
    BY <1>3, <1>6 DEF Keeps, Transacting
  <1>9. QED
    BY <1>1, <1>4, <1>5, <1>7, <1>8 DEF Becomes

LEMMA ArriveTypes ==
    ASSUME SelectionTypes, NEW r \in Requests, NEW digests \in (SUBSET Digests) \ {{}},
           Arrive(r, digests)
    PROVE  \E q : Becomes(r, q) /\ Keeps(r, q)
  <1> DEFINE q == [Idle EXCEPT !.phase = "arrived", !.digests = digests]
  <1>1. [Idle EXCEPT !.phase = "arrived"] \in Request
    BY IdleIsRequest DEF Phases
  <1>2. q = [[Idle EXCEPT !.phase = "arrived"] EXCEPT !.digests = digests]
    BY DEF Idle
  <1>3. q \in Request
    BY <1>1, <1>2 DEF Request
  <1>4. q.phase = "arrived" /\ q.digests = digests /\ q.binding = NoBinding
    BY DEF Idle
  <1>5. Shaped(q)
    BY <1>4 DEF Shaped
  <1>6. requests' = [requests EXCEPT ![r] = q]
    BY DEF Arrive
  <1> HIDE DEF q
  <1>7. QED
    BY <1>3, <1>4, <1>5, <1>6 DEF Becomes, Keeps

LEMMA InvalidateTypes ==
    ASSUME SelectionTypes, NEW r \in Requests, InvalidateRemoved(r)
    PROVE  \E q : Becomes(r, q) /\ Keeps(r, q)
  <1> DEFINE phase == IF At(r, "invalidate") THEN "clean" ELSE "reconcile"
             q == [requests[r] EXCEPT !.removed = {}, !.phase = phase]
  <1>1. requests[r] \in Request /\ Shaped(requests[r])
    BY DEF SelectionTypes
  <1>2. requests[r].phase \in {"invalidateFirst", "invalidate"}
    BY DEF InvalidateRemoved, At
  <1>3. requests' = [requests EXCEPT ![r] = q]
    BY DEF InvalidateRemoved, SelectionTypes
  <1>4. phase \in {"reconcile", "clean"}
    OBVIOUS
  <1> HIDE DEF phase
  <1>5. q \in Request
    BY <1>1, <1>4 DEF Request, Phases
  <1>6. /\ q.phase = phase /\ q.binding = requests[r].binding
        /\ q.digests = requests[r].digests
    BY <1>1 DEF Request
  <1>7. Shaped(q)
    BY <1>1, <1>2, <1>4, <1>6 DEF Shaped, Over
  <1> HIDE DEF q
  <1>8. Keeps(r, q)
    BY <1>2, <1>4, <1>6 DEF Keeps, Transacting
  <1>9. QED
    BY <1>3, <1>5, <1>7, <1>8 DEF Becomes

\* What the filter leaves: another round, the end, a lookup, or the binding of
\* an earlier attempt.
Filtered(q, eligible) == [q EXCEPT !.eligible = eligible]

LEMMA FilteredIsRequest ==
    ASSUME NEW q \in Request, NEW eligible \in SUBSET Auths
    PROVE  /\ Filtered(q, eligible) \in Request
           /\ Filtered(q, eligible).digests = q.digests
           /\ Filtered(q, eligible).binding = q.binding
           /\ Filtered(q, eligible).eligible = eligible
           /\ Filtered(q, eligible).round = q.round
  BY DEF Filtered, Request

LEMMA FilterBecomes ==
    ASSUME SelectionTypes, NEW r \in Requests, CleanAndFilter(r)
    PROVE  \E eligible \in SUBSET Auths : \E q :
              LET next == Filtered(requests[r], eligible) IN
              /\ requests' = [requests EXCEPT ![r] = q]
              /\ \/ requests[r].round < MaxRetries
                    /\ q = [next EXCEPT !.phase = "reconcile", !.tried = {}, !.round = @ + 1]
                 \/ q = [Idle EXCEPT !.phase = "failed"]
                 \/ requests[r].binding = NoBinding /\ q = [next EXCEPT !.phase = "lookup"]
                 \/ requests[r].binding # NoBinding /\ q = UseOrMove(next, requests[r].binding)
  <1> DEFINE req == requests[r]
             eligible == {a \in (req.active \cap req.allowed) \ req.tried :
                            condition[a] # "blocked"}
             next == Filtered(req, eligible)
             q == CASE eligible = {} /\ req.round < MaxRetries ->
                         [next EXCEPT !.phase = "reconcile", !.tried = {}, !.round = @ + 1]
                    [] eligible = {} /\ req.round = MaxRetries -> [Idle EXCEPT !.phase = "failed"]
                    [] eligible # {} /\ req.binding = NoBinding -> [next EXCEPT !.phase = "lookup"]
                    [] eligible # {} /\ req.binding # NoBinding -> UseOrMove(next, req.binding)
  <1>1. req \in Request /\ req.active \subseteq Auths /\ req.round \in 0..MaxRetries
    BY DEF SelectionTypes, Request
  <1>2. eligible \in SUBSET Auths
    BY <1>1
  <1>3. requests' = [requests EXCEPT ![r] = q]
    BY DEF CleanAndFilter, Filtered
  <1> HIDE DEF eligible, next
  <1>4. req.round < MaxRetries \/ req.round = MaxRetries
    BY <1>1, SelectionAssumption
  <1>5. \/ req.round < MaxRetries
           /\ q = [next EXCEPT !.phase = "reconcile", !.tried = {}, !.round = @ + 1]
        \/ q = [Idle EXCEPT !.phase = "failed"]
        \/ req.binding = NoBinding /\ q = [next EXCEPT !.phase = "lookup"]
        \/ req.binding # NoBinding /\ q = UseOrMove(next, req.binding)
    BY <1>4
  <1> HIDE DEF q
  <1>6. next = Filtered(req, eligible)
    BY DEF next
  <1>7. QED
    BY <1>2, <1>3, <1>5, <1>6

\* A step of r that uses the auth it knows.
Uses(r, q) ==
    /\ requests[r].phase \notin Transacting /\ q.digests \subseteq requests[r].digests
    /\ \/ requests[r].binding # NoBinding /\ HasAuth(q, requests[r].binding.auth)
       \/ /\ requests[r].phase = "attempt" /\ q.phase = "answered"
          /\ q.auth = requests[r].auth /\ q.binding = NoBinding

LEMMA FilterTypes ==
    ASSUME SelectionTypes, NEW r \in Requests, CleanAndFilter(r)
    PROVE  \E q : Becomes(r, q) /\ (Keeps(r, q) \/ Uses(r, q))
  <1>0. requests[r] \in Request /\ Shaped(requests[r])
    BY DEF SelectionTypes
  <1>1. PICK eligible \in SUBSET Auths :
           \E q : LET next == Filtered(requests[r], eligible) IN
              /\ requests' = [requests EXCEPT ![r] = q]
              /\ \/ requests[r].round < MaxRetries
                    /\ q = [next EXCEPT !.phase = "reconcile", !.tried = {}, !.round = @ + 1]
                 \/ q = [Idle EXCEPT !.phase = "failed"]
                 \/ requests[r].binding = NoBinding /\ q = [next EXCEPT !.phase = "lookup"]
                 \/ requests[r].binding # NoBinding /\ q = UseOrMove(next, requests[r].binding)
    BY FilterBecomes
  <1> DEFINE next == Filtered(requests[r], eligible)
  <1>2. PICK q :
              /\ requests' = [requests EXCEPT ![r] = q]
              /\ \/ requests[r].round < MaxRetries
                    /\ q = [next EXCEPT !.phase = "reconcile", !.tried = {}, !.round = @ + 1]
                 \/ q = [Idle EXCEPT !.phase = "failed"]
                 \/ requests[r].binding = NoBinding /\ q = [next EXCEPT !.phase = "lookup"]
                 \/ requests[r].binding # NoBinding /\ q = UseOrMove(next, requests[r].binding)
    BY <1>1
  <1>3. /\ next \in Request /\ next.digests = requests[r].digests
        /\ next.binding = requests[r].binding /\ next.round = requests[r].round
    BY <1>0, FilteredIsRequest
  <1> HIDE DEF next
  <1>4. requests[r].phase = "clean"
    BY DEF CleanAndFilter, At
  <1>5. requests[r].digests # {} /\ next.digests # {}
    BY <1>0, <1>3, <1>4 DEF Shaped, Over
  <1>6. q \in Request /\ Shaped(q) /\ (Keeps(r, q) \/ Uses(r, q))
    <2>1. CASE /\ requests[r].round < MaxRetries
               /\ q = [next EXCEPT !.phase = "reconcile", !.tried = {}, !.round = @ + 1]
      <3>1. next.round \in 0..MaxRetries
        BY <1>3 DEF Request
      <3>2. next.round + 1 \in 0..MaxRetries
        BY <3>1, <2>1, <1>3, SelectionAssumption
      <3>3. q = [next EXCEPT !.phase = "reconcile", !.tried = {}, !.round = next.round + 1]
        BY <2>1
      <3>4. q \in Request
        BY <1>3, <3>2, <3>3 DEF Request, Phases
      <3>5. q.phase = "reconcile" /\ q.digests = next.digests /\ q.binding = next.binding
        BY <1>3, <3>3 DEF Request
      <3>6. Shaped(q)
        BY <1>0, <1>3, <1>5, <3>5 DEF Shaped
      <3>7. Keeps(r, q)
        BY <1>3, <1>4, <3>5 DEF Keeps, Transacting
      <3>8. QED
        BY <3>4, <3>6, <3>7
    <2>2. CASE q = [Idle EXCEPT !.phase = "failed"]
      <3>1. [Idle EXCEPT !.phase = "failed"] \in Request
        BY IdleIsRequest DEF Phases
      <3>2. Shaped([Idle EXCEPT !.phase = "failed"])
        BY DEF Idle, Shaped, Over
      <3>3. Keeps(r, [Idle EXCEPT !.phase = "failed"])
        BY DEF Idle, Keeps
      <3>4. QED
        BY <3>1, <3>2, <3>3, <2>2
    <2>3. CASE requests[r].binding = NoBinding /\ q = [next EXCEPT !.phase = "lookup"]
      <3>1. q \in Request
        BY <1>3, <2>3 DEF Request, Phases
      <3>2. q.phase = "lookup" /\ q.digests = next.digests /\ q.binding = next.binding
        BY <1>3, <2>3 DEF Request
      <3>3. Shaped(q)
        BY <1>3, <1>5, <2>3, <3>2 DEF Shaped
      <3>4. Keeps(r, q)
        BY <1>3, <2>3, <3>2 DEF Keeps
      <3>5. QED
        BY <3>1, <3>3, <3>4
    <2>4. CASE requests[r].binding # NoBinding /\ q = UseOrMove(next, requests[r].binding)
      <3>1. requests[r].binding \in Binding /\ next.digests \subseteq requests[r].binding.digests
        BY <1>0, <1>3, <2>4 DEF Request, Shaped
      <3>2. q \in Request /\ Shaped(q)
        BY <3>1, <2>4, <1>3, <1>5, Given
      <3>3. HasAuth(q, requests[r].binding.auth) /\ q.digests \subseteq requests[r].digests
        BY <3>1, <2>4, <1>3, GivenAuth
      <3>4. Uses(r, q)
        BY <3>3, <2>4, <1>4 DEF Uses, Transacting
      <3>5. QED
        BY <3>2, <3>4
    <2>5. QED
      BY <1>2, <2>1, <2>2, <2>3, <2>4
  <1>7. QED
    BY <1>2, <1>6 DEF Becomes

\* The first query of a lookup takes the rows of the digests and the clock.
LEMMA LookupTypes ==
    ASSUME SelectionTypes, AffinityTypeOK, NEW r \in Requests, LookupDigests(r)
    PROVE  \E q : /\ Becomes(r, q) /\ q.phase = "groups" /\ q.binding = NoBinding
                  /\ q.digests = requests[r].digests /\ q.asked = now
                  /\ DOMAIN q.read = requests[r].digests \cap DOMAIN table
                  /\ \A d \in DOMAIN q.read : q.read[d] = table[d]
  <1> DEFINE rows == [d \in requests[r].digests \cap DOMAIN table |-> table[d]]
             q == [requests[r] EXCEPT !.read = rows, !.asked = now, !.phase = "groups"]
  <1>1. requests[r] \in Request /\ Shaped(requests[r]) /\ requests[r].phase = "lookup"
    BY DEF SelectionTypes, LookupDigests, At
  <1>2. rows \in [requests[r].digests \cap DOMAIN table -> Row]
    BY DEF AffinityTypeOK
  <1>3. requests[r].digests \cap DOMAIN table \in SUBSET Digests
    BY DEF AffinityTypeOK
  <1>4. DOMAIN rows = requests[r].digests \cap DOMAIN table /\ \A d \in DOMAIN rows : rows[d] = table[d]
    OBVIOUS
  <1>5. requests' = [requests EXCEPT ![r] = q]
    BY DEF LookupDigests, SelectionTypes
  <1> HIDE DEF rows
  <1>6. rows \in UNION {[S -> Row] : S \in SUBSET Digests}
    BY <1>2, <1>3
  <1>7. now \in 0..MaxTime
    BY DEF AffinityTypeOK
  <1>8. q \in Request
    BY <1>1, <1>6, <1>7 DEF Request, Phases
  <1>9. /\ q.phase = "groups" /\ q.digests = requests[r].digests /\ q.binding = requests[r].binding
        /\ q.read = rows /\ q.asked = now
    BY <1>1 DEF Request
  <1>10. Shaped(q) /\ q.binding = NoBinding
    BY <1>1, <1>9 DEF Shaped, Over
  <1> HIDE DEF q
  <1>11. QED
    BY <1>4, <1>5, <1>8, <1>9, <1>10 DEF Becomes

\* A row that one of the two queries of r's lookup read says that digest d is
\* bound to auth a.
Told(r, d, a) ==
    \/ /\ d \in DOMAIN table /\ table[d].auth = a
       /\ Expires(table[d]) > requests[r].asked
    \/ /\ d \in DOMAIN requests[r].read /\ requests[r].read[d].auth = a
       /\ Expires(requests[r].read[d]) > requests[r].asked

\* The rows of the groups of the rows that were read, and these, if they are
\* gone; and the request once it has used them.
GroupRows(read) ==
    LET groups == {read[d].group : d \in DOMAIN read}
        inGroups == {d \in DOMAIN table : table[d].group \in groups}
    IN  [d \in inGroups \cup DOMAIN read |-> IF d \in inGroups THEN table[d] ELSE read[d]]

Emptied(q) == [q EXCEPT !.read = NoRows, !.asked = 0]

Settled(q, rows, row) ==
    IF NeedsWrite(rows, q.digests, row, q.asked)
    THEN [Emptied(q) EXCEPT !.phase = "refresh"]
    ELSE UseOrMove(Emptied(q), BindingOf(q.digests \cup DOMAIN rows, row))

LEMMA GroupsSettle ==
    ASSUME NEW r, LookupGroups(r)
    PROVE  \/ requests' = [requests EXCEPT ![r] = [Emptied(requests[r]) EXCEPT !.phase = "bind"]]
           \/ \E w \in DOMAIN GroupRows(requests[r].read) :
                 requests' = [requests EXCEPT ![r] =
                   Settled(requests[r], GroupRows(requests[r].read), GroupRows(requests[r].read)[w])]
  BY Zenon DEF LookupGroups, GroupRows, Emptied, Settled

LEMMA ReadIsRows ==
    ASSUME NEW q \in Request
    PROVE  /\ DOMAIN q.read \subseteq Digests
           /\ \A d \in DOMAIN q.read : q.read[d] \in Row
  <1>1. PICK S \in SUBSET Digests : q.read \in [S -> Row]
    BY DEF Request
  <1>2. QED
    BY <1>1

LEMMA EmptiedTypes ==
    ASSUME NEW q \in Request
    PROVE  /\ Emptied(q) \in Request
           /\ Emptied(q).digests = q.digests /\ Emptied(q).binding = q.binding
           /\ Emptied(q).eligible = q.eligible
  <1>1. NoRows \in [{} -> Row]
    BY DEF NoRows
  <1>2. NoRows \in UNION {[S -> Row] : S \in SUBSET Digests}
    BY <1>1
  <1>3. 0 \in 0..MaxTime
    BY AffinityAssumption
  <1>4. Emptied(q) \in Request
    BY <1>2, <1>3 DEF Request, Emptied
  <1>5. QED
    BY <1>4 DEF Request, Emptied

LEMMA GroupRowsTypes ==
    ASSUME AffinityTypeOK, NEW read, DOMAIN read \subseteq Digests,
           \A d \in DOMAIN read : read[d] \in Row
    PROVE  LET rows == GroupRows(read) IN
           /\ DOMAIN rows \subseteq Digests
           /\ \A d \in DOMAIN rows : rows[d] \in Row
           /\ \A d \in DOMAIN rows : \/ d \in DOMAIN table /\ rows[d] = table[d]
                                     \/ d \in DOMAIN read /\ rows[d] = read[d]
  <1> DEFINE groups == {read[d].group : d \in DOMAIN read}
             inGroups == {d \in DOMAIN table : table[d].group \in groups}
             rows == [d \in inGroups \cup DOMAIN read |->
                        IF d \in inGroups THEN table[d] ELSE read[d]]
  <1>1. GroupRows(read) = rows
    BY DEF GroupRows
  <1>2. DOMAIN table \subseteq Digests /\ \A d \in DOMAIN table : table[d] \in Row
    BY DEF AffinityTypeOK
  <1>3. inGroups \subseteq DOMAIN table
    OBVIOUS
  <1> HIDE DEF inGroups
  <1>4. /\ DOMAIN rows = inGroups \cup DOMAIN read
        /\ \A d \in DOMAIN rows : rows[d] = IF d \in inGroups THEN table[d] ELSE read[d]
    OBVIOUS
  <1> HIDE DEF rows
  <1>5. /\ DOMAIN rows \subseteq Digests
        /\ \A d \in DOMAIN rows : rows[d] \in Row
        /\ \A d \in DOMAIN rows : \/ d \in DOMAIN table /\ rows[d] = table[d]
                                  \/ d \in DOMAIN read /\ rows[d] = read[d]
    BY <1>2, <1>3, <1>4
  <1>6. QED
    BY <1>1, <1>5

\* A lookup that does not write: every digest is told the auth it uses.
LEMMA GroupsTypes ==
    ASSUME SelectionTypes, AffinityTypeOK, NEW r \in Requests, LookupGroups(r)
    PROVE  \E q : /\ Becomes(r, q) /\ q.digests \subseteq requests[r].digests
                  /\ \/ q.phase \in {"bind", "refresh"} /\ q.binding = NoBinding
                     \/ \E a \in Auths : /\ HasAuth(q, a)
                                         /\ \A d \in requests[r].digests : Told(r, d, a)
  <1> DEFINE req == requests[r]
             rows == GroupRows(req.read)
             done == Emptied(req)
  <1>1. req \in Request /\ Shaped(req) /\ req.phase = "groups"
    BY Zenon DEF SelectionTypes, LookupGroups, At
  <1>2. req.binding = NoBinding /\ req.digests # {}
    BY <1>1 DEF Shaped, Over
  <1>3. done \in Request
    BY <1>1, EmptiedTypes
  <1>4. /\ done.digests = req.digests /\ done.binding = req.binding
        /\ done.eligible = req.eligible
    BY <1>1, EmptiedTypes
  <1>5. /\ DOMAIN req.read \subseteq Digests
        /\ \A d \in DOMAIN req.read : req.read[d] \in Row
    BY <1>1, ReadIsRows
  <1>6. /\ DOMAIN rows \subseteq Digests
        /\ \A d \in DOMAIN rows : rows[d] \in Row
        /\ \A d \in DOMAIN rows : \/ d \in DOMAIN table /\ rows[d] = table[d]
                                  \/ d \in DOMAIN req.read /\ rows[d] = req.read[d]
    BY <1>5, GroupRowsTypes
  <1>7. \/ requests' = [requests EXCEPT ![r] = [done EXCEPT !.phase = "bind"]]
        \/ \E w \in DOMAIN rows : requests' = [requests EXCEPT ![r] = Settled(req, rows, rows[w])]
    BY GroupsSettle
  <1> HIDE DEF rows, done
  <1>9. ASSUME NEW phase \in {"bind", "refresh"},
               requests' = [requests EXCEPT ![r] = [done EXCEPT !.phase = phase]]
        PROVE  \E q : /\ Becomes(r, q) /\ q.digests \subseteq req.digests
                      /\ q.phase \in {"bind", "refresh"} /\ q.binding = NoBinding
    <2> DEFINE q == [done EXCEPT !.phase = phase]
    <2>1. q \in Request
      BY <1>3 DEF Request, Phases
    <2>2. q.phase = phase /\ q.digests = req.digests /\ q.binding = NoBinding
      BY <1>2, <1>3, <1>4 DEF Request
    <2>3. Shaped(q)
      BY <1>2, <2>2 DEF Shaped
    <2>4. requests' = [requests EXCEPT ![r] = q]
      BY <1>9
    <2> HIDE DEF q
    <2>5. QED
      BY <2>1, <2>2, <2>3, <2>4 DEF Becomes
  <1>10. ASSUME NEW w \in DOMAIN rows, ~NeedsWrite(rows, req.digests, rows[w], req.asked),
                requests' = [requests EXCEPT ![r] =
                  UseOrMove(done, BindingOf(req.digests \cup DOMAIN rows, rows[w]))]
         PROVE  \E q : /\ Becomes(r, q) /\ q.digests \subseteq req.digests
                       /\ \E a \in Auths : /\ HasAuth(q, a)
                                           /\ \A d \in req.digests : Told(r, d, a)
    <2> DEFINE b == BindingOf(req.digests \cup DOMAIN rows, rows[w])
    <2>1. rows[w] \in Row
      BY <1>6
    <2>2. req.digests \subseteq Digests
      BY <1>1 DEF Request
    <2>3. b \in Binding /\ b.auth = rows[w].auth /\ req.digests \subseteq b.digests
      BY <2>1, <2>2, <1>6 DEF BindingOf, Binding, Row
    <2>4. \A d \in req.digests : /\ d \in DOMAIN rows /\ rows[d].auth = rows[w].auth
                                 /\ ~(Expires(rows[d]) <= req.asked)
      BY <1>10 DEF NeedsWrite
    <2>5. \A d \in req.digests : Expires(rows[d]) \in Int /\ req.asked \in Int
      BY <1>1, <1>6, <2>4, AffinityAssumption DEF Expires, Row, Request
    <2>6. \A d \in req.digests : Expires(rows[d]) > req.asked
      BY <2>4, <2>5
    <2>7. \A d \in req.digests : Told(r, d, b.auth)
      BY <1>6, <2>3, <2>4, <2>6 DEF Told
    <2>8. b.auth \in Auths
      BY <2>3 DEF Binding
    <2> HIDE DEF b
    <2>9. UseOrMove(done, b) \in Request /\ Shaped(UseOrMove(done, b))
      BY <1>2, <1>3, <1>4, <2>3, Given
    <2>10. HasAuth(UseOrMove(done, b), b.auth) /\ UseOrMove(done, b).digests \subseteq req.digests
      BY <1>3, <1>4, <2>3, GivenAuth
    <2>11. requests' = [requests EXCEPT ![r] = UseOrMove(done, b)]
      BY <1>10 DEF b
    <2>12. QED
      BY <2>7, <2>8, <2>9, <2>10, <2>11 DEF Becomes
  <1>11. ASSUME NEW w \in DOMAIN rows, requests' = [requests EXCEPT ![r] = Settled(req, rows, rows[w])]
         PROVE  \/ requests' = [requests EXCEPT ![r] = [done EXCEPT !.phase = "refresh"]]
                \/ /\ ~NeedsWrite(rows, req.digests, rows[w], req.asked)
                   /\ requests' = [requests EXCEPT ![r] =
                        UseOrMove(done, BindingOf(req.digests \cup DOMAIN rows, rows[w]))]
    BY <1>11, Zenon DEF Settled, done
  <1> DEFINE LearnsAuth(q) == \E a \in Auths : /\ HasAuth(q, a)
                                               /\ \A d \in req.digests : Told(r, d, a)
             Unbound(q) == q.phase \in {"bind", "refresh"} /\ q.binding = NoBinding
  <1>12. \E q : Becomes(r, q) /\ q.digests \subseteq req.digests /\ (Unbound(q) \/ LearnsAuth(q))
    <2>1. CASE \E phase \in {"bind", "refresh"} : requests' = [requests EXCEPT ![r] = [done EXCEPT !.phase = phase]]
      <3>1. \E q : Becomes(r, q) /\ q.digests \subseteq req.digests /\ Unbound(q)
        BY <1>9, <2>1
      <3>2. QED
        BY <3>1
    <2>2. CASE \E w \in DOMAIN rows :
                 /\ ~NeedsWrite(rows, req.digests, rows[w], req.asked)
                 /\ requests' = [requests EXCEPT ![r] =
                      UseOrMove(done, BindingOf(req.digests \cup DOMAIN rows, rows[w]))]
      <3>1. \E q : Becomes(r, q) /\ q.digests \subseteq req.digests /\ LearnsAuth(q)
        BY <1>10, <2>2
      <3>2. QED
        BY <3>1
    <2>3. QED
      BY <1>7, <1>11, <2>1, <2>2
  <1>13. QED
    BY <1>12

-----------------------------------------------------------------------------
(***************************************************************************)
(* The transactions that give a request its binding: the row they write     *)
(* under all aliases is the one the request goes on with.                   *)
(***************************************************************************)

\* The oldest active row is one row, and so is the row a transaction writes.
LEMMA OneWinner ==
    ASSUME AffinityTypeOK, NEW rows, NEW v \in Winners(rows), NEW w \in Winners(rows)
    PROVE  v = w
  <1>1. Earlier(v, w) /\ Earlier(w, v) /\ v \in DOMAIN table /\ w \in DOMAIN table
    BY DEF Winners, Active
  <1>2. /\ v \in Nat /\ w \in Nat /\ table[v].created \in Nat /\ table[w].created \in Nat
    BY <1>1, AffinityAssumption DEF AffinityTypeOK, Row
  <1>3. QED
    BY <1>1, <1>2 DEF Earlier

LEMMA OneFresh ==
    ASSUME NEW aliases \in SUBSET Nat, NEW a, NEW x \in Fresh(aliases, a), NEW y \in Fresh(aliases, a)
    PROVE  x = y
  <1>1. PICK g \in Canonical(aliases) :
           x = [group |-> g, auth |-> a, created |-> now, updated |-> now]
    BY DEF Fresh
  <1>2. PICK h \in Canonical(aliases) :
           y = [group |-> h, auth |-> a, created |-> now, updated |-> now]
    BY DEF Fresh
  <1>3. g <= h /\ h <= g /\ g \in Nat /\ h \in Nat
    BY DEF Canonical
  <1>4. g = h
    BY <1>3
  <1>5. QED
    BY <1>1, <1>2, <1>4

LEMMA LoadedDigests ==
    ASSUME AffinityTypeOK, NEW digests \in SUBSET Digests, NEW groups
    PROVE  digests \cup Loaded(digests, groups) \in SUBSET Nat
  BY AffinityAssumption DEF Loaded, AffinityTypeOK

LEMMA OneBindRow ==
    ASSUME AffinityTypeOK, NEW digests \in SUBSET Digests, NEW a,
           NEW x \in BindRows(digests, a), NEW y \in BindRows(digests, a)
    PROVE  x = y
  <1>1. CASE Loaded(digests, {}) \cap Active = {}
    <2>1. Winners(Loaded(digests, {})) = {}
      BY <1>1 DEF Winners
    <2>2. /\ x \in Fresh(digests \cup Loaded(digests, {}), a)
          /\ y \in Fresh(digests \cup Loaded(digests, {}), a)
      BY <1>1, <2>1 DEF BindRows
    <2>3. QED
      BY <2>2, LoadedDigests, OneFresh
  <1>2. CASE Loaded(digests, {}) \cap Active # {}
    <2>1. \E v, w \in Winners(Loaded(digests, {})) : x = table[v] /\ y = table[w]
      BY <1>2 DEF BindRows
    <2>2. QED
      BY <2>1, OneWinner
  <1>3. QED
    BY <1>1, <1>2

LEMMA OneRebindRow ==
    ASSUME AffinityTypeOK, NEW digests \in SUBSET Digests, NEW group, NEW expected, NEW a,
           NEW x \in RebindRows(digests, group, expected, a),
           NEW y \in RebindRows(digests, group, expected, a)
    PROVE  x = y
  <1> DEFINE moved(row) == IF row.auth = expected
                           THEN [row EXCEPT !.auth = a, !.updated = now]
                           ELSE row
  <1>1. CASE Loaded(digests, {group}) \cap Active = {}
    <2>1. Winners(Loaded(digests, {group})) = {}
      BY <1>1 DEF Winners
    <2>2. /\ x \in Fresh(digests \cup Loaded(digests, {group}), a)
          /\ y \in Fresh(digests \cup Loaded(digests, {group}), a)
      BY <1>1, <2>1 DEF RebindRows
    <2>3. QED
      BY <2>2, LoadedDigests, OneFresh
  <1>2. CASE Loaded(digests, {group}) \cap Active # {}
    <2>1. \E v, w \in Winners(Loaded(digests, {group})) :
             x = moved(table[v]) /\ y = moved(table[w])
      BY <1>2 DEF RebindRows
    <2> HIDE DEF moved
    <2>2. QED
      BY <2>1, OneWinner
  <1>3. QED
    BY <1>1, <1>2

LEMMA OneRefreshRow ==
    ASSUME AffinityTypeOK, NEW digests,
           NEW x \in RefreshRows(digests), NEW y \in RefreshRows(digests)
    PROVE  x = y
  <1>1. \E v, w \in Winners(Loaded(digests, {})) : x = Renewed(table[v]) /\ y = Renewed(table[w])
    BY DEF RefreshRows
  <1>2. QED
    BY <1>1, OneWinner

\* Where the auth of the written row is from: nothing loaded was live, or it
\* is the winner's, or the winner had the auth that r holds and cannot use.
Sourced(r, rows, auth) ==
    \/ Active \cap rows = {}
    \/ \E w \in Winners(rows) :
          \/ auth = table[w].auth
          \/ /\ requests[r].phase \in {"rebind", "rebindAgain"}
             /\ requests[r].binding.auth = table[w].auth
             /\ table[w].auth \notin requests[r].eligible

\* Request r writes a row for its digests and goes on with the row's auth.
GivenStep(r) ==
    \E digests \in (SUBSET Digests) \ {{}}, groups \in SUBSET Digests, row \in Row :
        /\ Writable(row, digests, groups)
        /\ WriteAliases(digests \cup Loaded(digests, groups), row)
        /\ UNCHANGED <<now, nextCleanup, torn>>
        /\ requests[r].digests \subseteq digests
        /\ Sourced(r, Loaded(digests, groups), row.auth)
        /\ \E q : /\ Becomes(r, q) /\ HasAuth(q, row.auth)
                  /\ q.digests \subseteq requests[r].digests

LEMMA RowBinding ==
    ASSUME AffinityTypeOK, NEW digests \in SUBSET Digests, NEW groups, NEW row \in Row
    PROVE  LET b == BindingOf(digests \cup Loaded(digests, groups), row)
           IN  b \in Binding /\ b.auth = row.auth /\ digests \subseteq b.digests
  BY DEF BindingOf, Binding, Row, Loaded, AffinityTypeOK

LEMMA RefreshGives ==
    ASSUME SelectionTypes, AffinityInv, NEW r \in Requests, RefreshBinding(r)
    PROVE  \/ /\ UNCHANGED affinityVars
              /\ \E q : Becomes(r, q) /\ q.phase = "bind" /\ q.binding = NoBinding
           \/ GivenStep(r)
  <1> DEFINE req == requests[r]
  <1>1. req \in Request /\ Shaped(req) /\ req.phase = "refresh"
    BY DEF SelectionTypes, RefreshBinding, At
  <1>2. req.binding = NoBinding /\ req.digests # {} /\ req.digests \in SUBSET Digests
    BY <1>1 DEF Shaped, Over, Request
  <1>3. CASE Goto(r, "bind") /\ UNCHANGED affinityVars
    <2> DEFINE q == [req EXCEPT !.phase = "bind"]
    <2>1. q \in Request /\ q.phase = "bind" /\ q.digests = req.digests /\ q.binding = NoBinding
      BY <1>1, <1>2 DEF Request, Phases
    <2>2. Shaped(q)
      BY <1>2, <2>1 DEF Shaped
    <2>3. requests' = [requests EXCEPT ![r] = q]
      BY <1>3 DEF Goto, SelectionTypes
    <2> HIDE DEF q
    <2>4. QED
      BY <1>3, <2>1, <2>2, <2>3 DEF Becomes
  <1>4. ASSUME NEW row \in RefreshRows(req.digests),
               RefreshSessionAffinity(req.digests),
               requests' = [requests EXCEPT ![r] =
                 UseOrMove(req, BindingOf(req.digests \cup Loaded(req.digests, {}), row))]
        PROVE  GivenStep(r)
    <2> DEFINE b == BindingOf(req.digests \cup Loaded(req.digests, {}), row)
    <2>1. AffinityTypeOK
      BY DEF AffinityInv
    <2>2. WriteAliases(req.digests \cup Loaded(req.digests, {}), row) /\ UNCHANGED <<now, nextCleanup, torn>>
      BY <1>4, <2>1, OneRefreshRow DEF RefreshSessionAffinity
    <2>3. Writable(row, req.digests, {})
      BY <1>2, RefreshWritable
    <2>4. row \in Row
      BY <2>3 DEF Writable
    <2>5. b \in Binding /\ b.auth = row.auth /\ req.digests \subseteq b.digests
      BY <1>2, <2>1, <2>4, RowBinding
    <2>6. Sourced(r, Loaded(req.digests, {}), row.auth)
      <3>1. PICK w \in Winners(Loaded(req.digests, {})) : row = Renewed(table[w])
        BY DEF RefreshRows
      <3>2. table[w] \in Row
        BY <2>1 DEF Winners, Active, AffinityTypeOK
      <3>3. row.auth = table[w].auth
        BY <3>1, <3>2 DEF Renewed, Row
      <3>4. QED
        BY <3>3 DEF Sourced
    <2> HIDE DEF b
    <2>7. UseOrMove(req, b) \in Request /\ Shaped(UseOrMove(req, b))
      BY <1>1, <1>2, <2>5, Given
    <2>8. HasAuth(UseOrMove(req, b), row.auth) /\ UseOrMove(req, b).digests \subseteq req.digests
      BY <1>1, <2>5, GivenAuth
    <2>9. requests' = [requests EXCEPT ![r] = UseOrMove(req, b)]
      BY <1>4 DEF b
    <2>10. \E q : /\ Becomes(r, q) /\ HasAuth(q, row.auth) /\ q.digests \subseteq req.digests
      BY <2>7, <2>8, <2>9 DEF Becomes
    <2>11. QED
      BY <1>2, <2>2, <2>3, <2>4, <2>6, <2>10 DEF GivenStep
  <1>5. QED
    BY <1>3, <1>4 DEF RefreshBinding

LEMMA OfferGives ==
    ASSUME SelectionTypes, AffinityInv, NEW r \in Requests, OfferBinding(r)
    PROVE  GivenStep(r)
  <1> DEFINE req == requests[r]
  <1>1. req \in Request /\ Shaped(req) /\ req.phase = "bind"
    BY DEF SelectionTypes, OfferBinding, At
  <1>2. req.digests # {} /\ req.digests \in SUBSET Digests /\ req.eligible \subseteq Auths
    BY <1>1 DEF Shaped, Over, Request
  <1>0. PICK a \in req.eligible : \E row \in BindRows(req.digests, a) :
           /\ BindSessionAffinity(req.digests, a)
           /\ requests' = [requests EXCEPT ![r] =
                UseOrRetry(req, BindingOf(req.digests \cup Loaded(req.digests, {}), row))]
    BY DEF OfferBinding
  <1>3. PICK row \in BindRows(req.digests, a) :
           /\ BindSessionAffinity(req.digests, a)
           /\ requests' = [requests EXCEPT ![r] =
                UseOrRetry(req, BindingOf(req.digests \cup Loaded(req.digests, {}), row))]
    BY <1>0
  <1>4. a \in Auths /\ AffinityTypeOK
    BY <1>2 DEF AffinityInv
  <1> DEFINE b == BindingOf(req.digests \cup Loaded(req.digests, {}), row)
  <1>5. WriteAliases(req.digests \cup Loaded(req.digests, {}), row) /\ UNCHANGED <<now, nextCleanup, torn>>
    BY <1>2, <1>3, <1>4, OneBindRow DEF BindSessionAffinity
  <1>6. Writable(row, req.digests, {})
    BY <1>2, <1>3, <1>4, BindWritable
  <1>7. row \in Row
    BY <1>6 DEF Writable
  <1>8. b \in Binding /\ b.auth = row.auth /\ req.digests \subseteq b.digests
    BY <1>2, <1>4, <1>7, RowBinding
  <1>9. Sourced(r, Loaded(req.digests, {}), row.auth)
    BY <1>3 DEF BindRows, Sourced
  <1> HIDE DEF b
  <1>10. UseOrRetry(req, b) \in Request /\ Shaped(UseOrRetry(req, b))
    BY <1>1, <1>2, <1>8, Given
  <1>11. HasAuth(UseOrRetry(req, b), row.auth) /\ UseOrRetry(req, b).digests \subseteq req.digests
    BY <1>1, <1>8, GivenAuth
  <1>12. requests' = [requests EXCEPT ![r] = UseOrRetry(req, b)]
    BY <1>3 DEF b
  <1>13. \E q : /\ Becomes(r, q) /\ HasAuth(q, row.auth) /\ q.digests \subseteq req.digests
    BY <1>10, <1>11, <1>12 DEF Becomes
  <1>14. QED
    BY <1>2, <1>5, <1>6, <1>7, <1>9, <1>13 DEF GivenStep

\* A rebind replaces the auth that the request holds, found unusable, or
\* follows the winner.
LEMMA RebindSourced ==
    ASSUME SelectionTypes, AffinityTypeOK, NEW r \in Requests,
           requests[r].phase = "rebind" \/ requests[r].phase = "rebindAgain",
           NEW digests, NEW group, NEW expected, NEW a, NEW row,
           expected = requests[r].binding.auth,
           row \in RebindRows(digests, group, expected, a)
    PROVE  Sourced(r, Loaded(digests, {group}), row.auth)
  <1>1. requests[r].binding.auth \notin requests[r].eligible
    BY DEF SelectionTypes, Shaped
  <1>2. CASE Loaded(digests, {group}) \cap Active = {}
    BY <1>2 DEF Sourced
  <1>3. CASE \E w \in Winners(Loaded(digests, {group})) :
               row = IF table[w].auth = expected
                     THEN [table[w] EXCEPT !.auth = a, !.updated = now]
                     ELSE table[w]
    <2>1. PICK w \in Winners(Loaded(digests, {group})) :
               row = IF table[w].auth = expected
                     THEN [table[w] EXCEPT !.auth = a, !.updated = now]
                     ELSE table[w]
      BY <1>3
    <2>2. row.auth = table[w].auth \/ table[w].auth = expected
      BY <2>1
    <2>3. QED
      BY <1>1, <2>2 DEF Sourced
  <1>4. QED
    BY <1>2, <1>3 DEF RebindRows

LEMMA RebindGives ==
    ASSUME SelectionTypes, AffinityInv, NEW r \in Requests, MoveBinding(r) \/ MoveBindingAgain(r)
    PROVE  GivenStep(r)
  <1> DEFINE req == requests[r]
             old == req.binding
             aliases == old.digests \cup Loaded(old.digests, {old.group})
  <1>1. req \in Request /\ Shaped(req) /\ req.phase \in {"rebind", "rebindAgain"}
    BY DEF SelectionTypes, MoveBinding, MoveBindingAgain, At
  <1>2. req.digests # {} /\ req.eligible \subseteq Auths /\ old \in Binding
    BY <1>1 DEF Shaped, Over, Request
  <1>3. old.digests \in SUBSET Digests /\ old.group \in Digests /\ old.auth \in Auths
    BY <1>2 DEF Binding
  <1>4. req.digests \subseteq old.digests /\ old.digests # {}
    BY <1>1, <1>2 DEF Shaped
  <1>5. ASSUME NEW a \in req.eligible, NEW row \in RebindRows(old.digests, old.group, old.auth, a),
               RebindSessionAffinity(old.digests, old.group, old.auth, a),
               NEW q, requests' = [requests EXCEPT ![r] = q],
               q = UseOrRetry(req, BindingOf(aliases, row)) \/ q = UseOrFail(req, BindingOf(aliases, row))
        PROVE  GivenStep(r)
    <2> DEFINE b == BindingOf(aliases, row)
    <2>1. a \in Auths /\ AffinityTypeOK
      BY <1>2 DEF AffinityInv
    <2>2. WriteAliases(aliases, row) /\ UNCHANGED <<now, nextCleanup, torn>>
      BY <1>3, <1>5, <2>1, OneRebindRow DEF RebindSessionAffinity
    <2>3. Writable(row, old.digests, {old.group})
      BY <1>3, <2>1, RebindWritable
    <2>4. row \in Row
      BY <2>3 DEF Writable
    <2>5. b \in Binding /\ b.auth = row.auth /\ old.digests \subseteq b.digests
      BY <1>3, <2>1, <2>4, RowBinding
    <2>6. Sourced(r, Loaded(old.digests, {old.group}), row.auth)
      <3>1. row \in RebindRows(old.digests, old.group, old.auth, a)
        BY <1>5
      <3>2. requests[r].phase = "rebind" \/ requests[r].phase = "rebindAgain"
        BY <1>1
      <3>3. old.auth = requests[r].binding.auth
        OBVIOUS
      <3> HIDE DEF old, req
      <3>4. QED
        BY <2>1, <3>1, <3>2, <3>3, RebindSourced
    <2>7. q = UseOrRetry(req, b) \/ q = UseOrFail(req, b)
      BY <1>5
    <2> HIDE DEF b
    <2>8. req.digests \subseteq b.digests
      BY <1>4, <2>5
    <2>9. q \in Request /\ Shaped(q)
      BY <1>1, <1>2, <2>5, <2>7, <2>8, Given
    <2>10. HasAuth(q, row.auth) /\ q.digests \subseteq req.digests
      BY <1>1, <2>5, <2>7, GivenAuth
    <2>11. \E p : /\ Becomes(r, p) /\ HasAuth(p, row.auth) /\ p.digests \subseteq req.digests
      BY <1>5, <2>9, <2>10 DEF Becomes
    <2>12. {old.group} \in SUBSET Digests /\ old.digests \in (SUBSET Digests) \ {{}}
      BY <1>3, <1>4
    <2> HIDE DEF req, old
    <2>13. QED
      BY <1>4, <2>2, <2>3, <2>4, <2>6, <2>11, <2>12 DEF GivenStep, req, old
  <1>6. \E a \in req.eligible : \E row \in RebindRows(old.digests, old.group, old.auth, a) :
           /\ RebindSessionAffinity(old.digests, old.group, old.auth, a)
           /\ \E q : /\ requests' = [requests EXCEPT ![r] = q]
                     /\ \/ q = UseOrRetry(req, BindingOf(aliases, row))
                        \/ q = UseOrFail(req, BindingOf(aliases, row))
    <2>1. CASE MoveBinding(r)
      BY <2>1 DEF MoveBinding, Rebind
    <2>2. CASE MoveBindingAgain(r)
      BY <2>2 DEF MoveBindingAgain, Rebind
    <2>3. QED
      BY <2>1, <2>2
  <1>7. QED
    BY <1>5, <1>6

\* The upstream's answer.
LEMMA SucceedTypes ==
    ASSUME SelectionTypes, NEW r \in Requests, Succeed(r)
    PROVE  \E q : Becomes(r, q) /\ Uses(r, q)
  <1> DEFINE q == [Idle EXCEPT !.phase = "answered",
                     !.digests = requests[r].digests, !.auth = requests[r].auth]
  <1>1. requests[r] \in Request /\ Shaped(requests[r]) /\ requests[r].phase = "attempt"
    BY DEF SelectionTypes, Succeed, At
  <1>2. requests' = [requests EXCEPT ![r] = q]
    BY DEF Succeed
  <1>3. [Idle EXCEPT !.phase = "answered"] \in Request
    BY IdleIsRequest DEF Phases
  <1>4. q = [[Idle EXCEPT !.phase = "answered"] EXCEPT
               !.digests = requests[r].digests, !.auth = requests[r].auth]
    BY DEF Idle
  <1>5. q \in Request
    BY <1>1, <1>3, <1>4 DEF Request
  <1>6. /\ q.phase = "answered" /\ q.digests = requests[r].digests
        /\ q.auth = requests[r].auth /\ q.binding = NoBinding
    BY DEF Idle
  <1>7. Shaped(q)
    BY <1>6 DEF Shaped, Over
  <1>8. Uses(r, q)
    BY <1>1, <1>6 DEF Uses, Transacting
  <1> HIDE DEF q
  <1>9. QED
    BY <1>2, <1>5, <1>7, <1>8 DEF Becomes

LEMMA FailTypes ==
    ASSUME SelectionTypes, NEW r \in Requests, Fail(r)
    PROVE  \E q : Becomes(r, q) /\ Keeps(r, q)
  <1>1. requests[r] \in Request /\ Shaped(requests[r]) /\ requests[r].phase = "attempt"
    BY DEF SelectionTypes, Fail, At
  <1>2. CASE Abandon(r)
    BY <1>2, Abandons
  <1>3. CASE Goto(r, "reconcile")
    <2> DEFINE q == [requests[r] EXCEPT !.phase = "reconcile"]
    <2>1. requests' = [requests EXCEPT ![r] = q]
      BY <1>3 DEF Goto, SelectionTypes
    <2>2. q \in Request
      BY <1>1 DEF Request, Phases
    <2>3. /\ q.phase = "reconcile" /\ q.digests = requests[r].digests
          /\ q.binding = requests[r].binding
      BY <1>1 DEF Request
    <2>4. Shaped(q) /\ Keeps(r, q)
      BY <1>1, <2>3 DEF Shaped, Over, Keeps, Transacting
    <2> HIDE DEF q
    <2>5. QED
      BY <2>1, <2>2, <2>4 DEF Becomes
  <1>4. QED
    BY <1>2, <1>3 DEF Fail

\* The first query, and the second when it does not lead to a write.
Asks(r, q) ==
    /\ requests[r].phase = "lookup" /\ q.phase = "groups" /\ q.binding = NoBinding
    /\ q.digests = requests[r].digests /\ q.asked = now
    /\ DOMAIN q.read = requests[r].digests \cap DOMAIN table
    /\ \A d \in DOMAIN q.read : q.read[d] = table[d]

Finds(r, q) ==
    /\ requests[r].phase = "groups" /\ q.digests \subseteq requests[r].digests
    /\ \E a \in Auths : HasAuth(q, a) /\ \A d \in requests[r].digests : Told(r, d, a)

\* Every step of a request keeps the types, and learns its auth in a
\* transaction, asks for it, finds it, uses it, or none of these.
OwnStep(r) ==
    \/ GivenStep(r)
    \/ /\ UNCHANGED table /\ UNCHANGED now
       /\ \E q : Becomes(r, q) /\ (Asks(r, q) \/ Finds(r, q))
    \/ \E q : Becomes(r, q) /\ (Uses(r, q) \/ Keeps(r, q))

LEMMA OwnSteps ==
    ASSUME SelectionTypes, AffinityInv, NEW r \in Requests, Step(r)
    PROVE  OwnStep(r) /\ known' \subseteq Auths
  <1>0. AffinityTypeOK /\ known \subseteq Auths
    BY DEF AffinityInv, SelectionTypes
  <1>1. ASSUME NEW digests \in (SUBSET Digests) \ {{}}, Arrive(r, digests)
        PROVE  OwnStep(r) /\ known' = known
    BY <1>1, ArriveTypes DEF OwnStep, Arrive
  <1>2. CASE ReconcileFirst(r)
    <2>1. PICK allowed \in {Present} \cup {supporting \cap Enabled : supporting \in Catalogs} :
             ScanFiles(r, "invalidateFirst", "reconcile", allowed)
      BY <1>2 DEF ReconcileFirst
    <2>2. Present \subseteq Auths /\ Enabled \subseteq Auths
      BY DEF Present, Enabled
    <2>3. allowed \in SUBSET Auths
      BY <2>2
    <2>4. requests[r].phase = "arrived"
      BY <1>2 DEF ReconcileFirst, At
    <2>5. QED
      BY <2>1, <2>3, <2>4, ScanTypes DEF OwnStep
  <1>3. CASE ReconcileFiles(r)
    <2>1. requests[r].allowed \in SUBSET Auths /\ requests[r].phase = "reconcile"
      BY <1>3 DEF SelectionTypes, Request, ReconcileFiles, At
    <2>2. QED
      BY <1>3, <2>1, ScanTypes DEF OwnStep, ReconcileFiles
  <1>4. CASE InvalidateRemoved(r)
    BY <1>0, <1>4, InvalidateTypes DEF OwnStep, InvalidateRemoved
  <1>5. CASE CleanAndFilter(r)
    BY <1>0, <1>5, FilterTypes, Zenon DEF OwnStep, CleanAndFilter
  <1>6. CASE LookupDigests(r)
    <2>1. /\ requests[r].phase = "lookup" /\ known' = known
          /\ UNCHANGED table /\ UNCHANGED now
      BY <1>6 DEF LookupDigests, At, affinityVars
    <2>2. QED
      BY <1>0, <1>6, <2>1, LookupTypes DEF OwnStep, Asks
  <1>7. CASE LookupGroups(r)
    <2>1. /\ requests[r].phase = "groups" /\ known' = known
          /\ UNCHANGED table /\ UNCHANGED now
      BY <1>7, Zenon DEF LookupGroups, At, affinityVars
    <2>2. PICK q : /\ Becomes(r, q) /\ q.digests \subseteq requests[r].digests
                   /\ \/ q.phase \in {"bind", "refresh"} /\ q.binding = NoBinding
                      \/ \E a \in Auths : /\ HasAuth(q, a)
                                          /\ \A d \in requests[r].digests : Told(r, d, a)
      BY <1>0, <1>7, GroupsTypes
    <2>3. Keeps(r, q) \/ Finds(r, q)
      BY <2>1, <2>2 DEF Keeps, Finds
    <2>4. QED
      BY <1>0, <2>1, <2>2, <2>3 DEF OwnStep
  <1>8. CASE RefreshBinding(r)
    <2>1. \/ \E q : Becomes(r, q) /\ q.phase = "bind" /\ q.binding = NoBinding
          \/ GivenStep(r)
      BY <1>8, RefreshGives
    <2>2. known' = known
      BY <1>8 DEF RefreshBinding
    <2>3. QED
      BY <1>0, <2>1, <2>2 DEF OwnStep, Keeps
  <1>9. CASE OfferBinding(r)
    BY <1>0, <1>9, OfferGives DEF OwnStep, OfferBinding
  <1>10. CASE MoveBinding(r) \/ MoveBindingAgain(r)
    BY <1>0, <1>10, RebindGives DEF OwnStep, MoveBinding, MoveBindingAgain, Rebind
  <1>11. CASE Succeed(r)
    BY <1>0, <1>11, SucceedTypes DEF OwnStep, Succeed
  <1>12. CASE Fail(r)
    BY <1>0, <1>12, FailTypes DEF OwnStep, Fail
  <1>13. CASE Cancel(r)
    BY <1>0, <1>13, Abandons DEF OwnStep, Cancel
  <1>14. QED
    BY <1>0, <1>1, <1>2, <1>3, <1>4, <1>5, <1>6, <1>7, <1>8, <1>9, <1>10, <1>11, <1>12, <1>13
    DEF Step

-----------------------------------------------------------------------------
\* What a request or a disturbance does to the table is a step of the table,
\* so the table's invariants hold under every selection.
LEMMA OwnTableStep ==
    ASSUME SelectionTypes, NEW r \in Requests, Step(r)
    PROVE  [Next]_affinityVars
  <1>0. requests[r] \in Request /\ Shaped(requests[r])
    BY DEF SelectionTypes
  <1>1. CASE UNCHANGED affinityVars
    BY <1>1
  <1>2. CASE InvalidateRemoved(r)
    <2>1. requests[r].removed \in SUBSET Auths
      BY <1>0 DEF Request
    <2>2. DeleteByAuthIDs(requests[r].removed)
      BY <1>2 DEF InvalidateRemoved
    <2>3. QED
      BY <2>1, <2>2 DEF Next
  <1>3. CASE CleanAndFilter(r)
    <2>1. CleanupExpired \/ UNCHANGED affinityVars
      BY <1>3 DEF CleanAndFilter
    <2>2. QED
      BY <2>1 DEF Next
  <1>4. CASE RefreshBinding(r)
    <2>1. requests[r].digests \in (SUBSET Digests) \ {{}}
      BY <1>0, <1>4 DEF Request, Shaped, Over, RefreshBinding, At
    <2>2. RefreshSessionAffinity(requests[r].digests) \/ UNCHANGED affinityVars
      BY <1>4 DEF RefreshBinding
    <2>3. QED
      BY <2>1, <2>2 DEF Next
  <1>5. CASE OfferBinding(r)
    <2>1. requests[r].digests \in (SUBSET Digests) \ {{}}
      BY <1>0, <1>5 DEF Request, Shaped, Over, OfferBinding, At
    <2>2. PICK a \in requests[r].eligible : BindSessionAffinity(requests[r].digests, a)
      BY <1>5 DEF OfferBinding
    <2>3. a \in Auths
      BY <1>0 DEF Request
    <2>4. QED
      BY <2>1, <2>2, <2>3 DEF Next
  <1>6. CASE MoveBinding(r) \/ MoveBindingAgain(r)
    <2> DEFINE old == requests[r].binding
    <2>1. requests[r].phase \in {"rebind", "rebindAgain"}
      BY <1>6 DEF MoveBinding, MoveBindingAgain, At
    <2>2. /\ old \in Binding /\ requests[r].digests \subseteq old.digests
          /\ requests[r].digests # {}
      BY <1>0, <2>1 DEF Shaped, Over
    <2>3. old.digests \in (SUBSET Digests) \ {{}} /\ old.group \in Digests /\ old.auth \in Auths
      BY <2>2 DEF Binding
    <2>4. PICK a \in requests[r].eligible :
             RebindSessionAffinity(old.digests, old.group, old.auth, a)
      BY <1>6 DEF MoveBinding, MoveBindingAgain, Rebind
    <2>5. a \in Auths
      BY <1>0 DEF Request
    <2> HIDE DEF old
    <2>6. QED
      BY <2>3, <2>4, <2>5 DEF Next
  <1>7. QED
    BY <1>1, <1>2, <1>3, <1>4, <1>5, <1>6, Zenon
    DEF Step, Arrive, ReconcileFirst, ReconcileFiles, ScanFiles, LookupDigests, LookupGroups,
        Succeed, Fail, Cancel

LEMMA DisturbTableStep ==
    ASSUME Disturb
    PROVE  [Next]_affinityVars /\ UNCHANGED <<known, requests>>
  <1>1. ASSUME NEW d \in Digests, DeleteByTenantSession({d})
        PROVE  Next
    <2>1. {d} \in (SUBSET Digests) \ {{}}
      OBVIOUS
    <2>2. QED
      BY <1>1, <2>1 DEF Next
  <1>2. ASSUME NEW a \in Auths, DeleteByAuthIDs({a})
        PROVE  Next
    <2>1. {a} \in SUBSET Auths
      OBVIOUS
    <2>2. QED
      BY <1>2, <2>1 DEF Next
  <1>3. QED
    BY <1>1, <1>2 DEF Disturb, AuthChanges, OperatorClears, TimePasses, Next

\* A row that is there after a step was there before as it is, or is live.
LEMMA RowsStayOrLive ==
    ASSUME AffinityInv, [Next]_affinityVars
    PROVE  \A d \in DOMAIN table' : (d \in DOMAIN table /\ table'[d] = table[d]) \/ d \in Active'
  <1>1. CASE WritingStep
    <2>1. PICK digests \in (SUBSET Digests) \ {{}}, groups \in SUBSET Digests, row \in Row :
             /\ Writable(row, digests, groups)
             /\ WriteAliases(digests \cup Loaded(digests, groups), row)
             /\ UNCHANGED <<now, nextCleanup, torn>>
      BY <1>1 DEF WritingStep
    <2>2. WriteEffect(digests \cup Loaded(digests, groups), row)
      BY <2>1, WriteFacts
    <2>3. QED
      BY <2>1, <2>2 DEF WriteEffect, WriteAliases
  <1>2. CASE DeletingStep
    BY <1>2 DEF DeletingStep, Delete
  <1>3. CASE Tick \/ UNCHANGED affinityVars
    BY <1>3 DEF Tick, affinityVars
  <1>4. QED
    BY <1>1, <1>2, <1>3, Steps

SelectionInv == AffinityInv /\ SelectionTypes

LEMMA BecomesTypes ==
    ASSUME SelectionTypes, known' \subseteq Auths, steady' \subseteq Requests,
           NEW r \in Requests, NEW q, Becomes(r, q)
    PROVE  SelectionTypes'
  <1>1. requests' = [requests EXCEPT ![r] = q] /\ q \in Request /\ Shaped(q)
    BY DEF Becomes
  <1>2. requests' \in [Requests -> Request]
    BY <1>1 DEF SelectionTypes
  <1>3. \A p \in Requests : Shaped(requests'[p])
    BY <1>1 DEF SelectionTypes
  <1>4. ASSUME NEW p \in Requests PROVE Shaped(requests[p])'
    BY <1>3 DEF Shaped
  <1>5. QED
    BY <1>2, <1>4 DEF SelectionTypes

LEMMA SelectionInvInit == SelectionInit => SelectionInv
  <1> SUFFICES ASSUME SelectionInit PROVE SelectionInv
    OBVIOUS
  <1>1. AffinityInv
    BY AffinityInvInit DEF SelectionInit
  <1>2. Idle \in Request
    <2>1. Idle = [Idle EXCEPT !.phase = "idle"] /\ "idle" \in Phases
      BY DEF Idle, Phases
    <2>2. QED
      BY <2>1, IdleIsRequest
  <1>3. Shaped(Idle)
    BY DEF Shaped, Idle, Over
  <1>4. QED
    BY <1>1, <1>2, <1>3 DEF SelectionInit, SelectionInv, SelectionTypes

LEMMA SelectionInvStep ==
    ASSUME SelectionInv, [SelectionNext]_selectionVars
    PROVE  SelectionInv' /\ [Next]_affinityVars
  <1>1. CASE UNCHANGED selectionVars
    <2>1. UNCHANGED affinityVars /\ UNCHANGED <<known, requests, steady>>
      BY <1>1 DEF selectionVars
    <2>2. AffinityInv'
      BY <2>1, AffinityInvStep DEF SelectionInv
    <2>3. SelectionTypes'
      BY <2>1 DEF SelectionInv, SelectionTypes, Shaped
    <2>4. QED
      BY <2>1, <2>2, <2>3 DEF SelectionInv
  <1>2. CASE SelectionNext
    <2>1. steady' \subseteq Requests
      BY <1>2 DEF SelectionNext, RecordSteady
    <2>2. CASE Disturb
      <3>1. [Next]_affinityVars /\ UNCHANGED <<known, requests>>
        BY <2>2, DisturbTableStep
      <3>2. AffinityInv'
        BY <3>1, AffinityInvStep DEF SelectionInv
      <3>3. SelectionTypes'
        BY <2>1, <3>1 DEF SelectionInv, SelectionTypes, Shaped
      <3>4. QED
        BY <3>1, <3>2, <3>3 DEF SelectionInv
    <2>3. ASSUME NEW r \in Requests, Step(r)
          PROVE  SelectionInv' /\ [Next]_affinityVars
      <3>1. [Next]_affinityVars
        BY <2>3, OwnTableStep DEF SelectionInv
      <3>2. AffinityInv'
        BY <3>1, AffinityInvStep DEF SelectionInv
      <3>3. OwnStep(r) /\ known' \subseteq Auths
        BY <2>3, OwnSteps DEF SelectionInv
      <3>4. PICK q : Becomes(r, q)
        BY <3>3 DEF OwnStep, GivenStep
      <3>5. SelectionTypes'
        BY <2>1, <3>3, <3>4, BecomesTypes DEF SelectionInv
      <3>6. QED
        BY <3>1, <3>2, <3>5 DEF SelectionInv
    <2>4. QED
      BY <1>2, <2>2, <2>3 DEF SelectionNext
  <1>3. QED
    BY <1>1, <1>2

-----------------------------------------------------------------------------
(***************************************************************************)
(* Sessions stick.  What a steady request knows of its session's auth, from *)
(* the first query of its lookup on, is what the table says.                *)
(***************************************************************************)

\* What the first query of r's lookup said of digest d.
AskedAuth(r, d) ==
    IF d \in DOMAIN requests[r].read /\ Expires(requests[r].read[d]) > requests[r].asked
    THEN requests[r].read[d].auth ELSE NoAuth

\* Between the two queries a digest keeps the auth it was read with, and a row
\* that is not live was not live for the first query either.
Stuck(r) ==
    \A d \in requests[r].digests :
        /\ requests[r].phase \in {"attempt", "answered"} => LiveAuth(d) = requests[r].auth
        /\ requests[r].binding # NoBinding => LiveAuth(d) = requests[r].binding.auth
        /\ requests[r].phase = "groups" =>
             /\ LiveAuth(d) = AskedAuth(r, d)
             /\ \/ d \in Active
                \/ d \notin DOMAIN table
                \/ Expires(table[d]) <= requests[r].asked

StickInv == \A r \in steady : Stuck(r)

LEMMA LiveAuths ==
    ASSUME AffinityTypeOK, NEW d
    PROVE  d \in Active <=> LiveAuth(d) # NoAuth
  BY SelectionAssumption DEF LiveAuth, Active, AffinityTypeOK, Row

LEMMA StuckKept ==
    ASSUME SelectionInv, SelectionInv', [Next]_affinityVars,
           NEW r \in Requests, Stuck(r), requests'[r] = requests[r], Undisturbed(r)
    PROVE  Stuck(r)'
  <1> SUFFICES ASSUME NEW d \in requests[r].digests
               PROVE  /\ requests[r].phase \in {"attempt", "answered"} => LiveAuth(d)' = requests[r].auth
                      /\ requests[r].binding # NoBinding => LiveAuth(d)' = requests[r].binding.auth
                      /\ requests[r].phase = "groups" =>
                           /\ LiveAuth(d)' = AskedAuth(r, d)
                           /\ \/ d \in Active'
                              \/ d \notin DOMAIN table'
                              \/ Expires(table'[d]) <= requests[r].asked
    BY DEF Stuck, AskedAuth, Expires
  <1>1. LiveAuth(d)' = LiveAuth(d)
    BY DEF Undisturbed
  <1>2. d \in Active' <=> d \in Active
    <2>1. d \in Active <=> LiveAuth(d) # NoAuth
      BY LiveAuths DEF SelectionInv, AffinityInv
    <2>2. d \in Active' <=> LiveAuth(d)' # NoAuth
      BY SelectionAssumption DEF LiveAuth, SelectionInv, AffinityInv, AffinityTypeOK, Row, Active
    <2>3. QED
      BY <1>1, <2>1, <2>2
  <1>3. d \in DOMAIN table' => \/ d \in DOMAIN table /\ table'[d] = table[d]
                              \/ d \in Active'
    BY RowsStayOrLive DEF SelectionInv
  <1>4. QED
    BY <1>1, <1>2, <1>3 DEF Stuck

LEMMA StuckByWrite ==
    ASSUME SelectionInv, NEW r \in Requests, GivenStep(r)
    PROVE  Stuck(r)'
  <1>1. PICK digests \in (SUBSET Digests) \ {{}}, groups \in SUBSET Digests, row \in Row :
           /\ Writable(row, digests, groups)
           /\ WriteAliases(digests \cup Loaded(digests, groups), row)
           /\ UNCHANGED <<now, nextCleanup, torn>>
           /\ requests[r].digests \subseteq digests
           /\ \E q : /\ Becomes(r, q) /\ HasAuth(q, row.auth)
                     /\ q.digests \subseteq requests[r].digests
    BY DEF GivenStep
  <1>2. PICK q : /\ Becomes(r, q) /\ HasAuth(q, row.auth)
                 /\ q.digests \subseteq requests[r].digests
    BY <1>1
  <1>3. requests'[r] = q
    BY <1>2 DEF Becomes, SelectionInv, SelectionTypes
  <1>4. WriteEffect(digests \cup Loaded(digests, groups), row)
    BY <1>1, WriteFacts DEF SelectionInv
  <1>5. \A d \in q.digests : LiveAuth(d)' = row.auth
    BY <1>1, <1>2, <1>4 DEF WriteEffect, LiveAuth
  <1>6. QED
    BY <1>2, <1>3, <1>5 DEF Stuck, HasAuth

LEMMA StuckByAsking ==
    ASSUME SelectionInv, NEW r \in Requests, NEW q, Becomes(r, q), Asks(r, q),
           UNCHANGED table, UNCHANGED now
    PROVE  Stuck(r)'
  <1>1. requests'[r] = q
    BY DEF Becomes, SelectionInv, SelectionTypes
  <1>2. \A d : LiveAuth(d)' = LiveAuth(d) /\ (d \in Active' <=> d \in Active)
    BY DEF LiveAuth, Active, ActiveRow, Expires
  <1>3. AffinityTypeOK
    BY DEF SelectionInv, AffinityInv
  <1> SUFFICES ASSUME NEW d \in q.digests
               PROVE  /\ LiveAuth(d) = IF d \in DOMAIN q.read /\ Expires(q.read[d]) > q.asked
                                       THEN q.read[d].auth ELSE NoAuth
                      /\ \/ d \in Active \/ d \notin DOMAIN table
                         \/ Expires(table[d]) <= q.asked
    BY <1>1, <1>2 DEF Stuck, Asks, AskedAuth, Expires
  <1>4. /\ d \in DOMAIN q.read <=> d \in DOMAIN table
        /\ d \in DOMAIN q.read => q.read[d] = table[d]
        /\ q.asked = now
    BY DEF Asks
  <1>5. d \in Active <=> d \in DOMAIN table /\ Expires(table[d]) > now
    BY DEF Active, ActiveRow
  <1>6. d \in DOMAIN table => Expires(table[d]) \in Int /\ now \in Int
    BY <1>3, AffinityAssumption DEF AffinityTypeOK, Row, Expires
  <1>7. QED
    BY <1>4, <1>5, <1>6 DEF LiveAuth

LEMMA StuckByFinding ==
    ASSUME SelectionInv, NEW r \in Requests, NEW q, Becomes(r, q), Finds(r, q),
           Stuck(r), Undisturbed(r)
    PROVE  Stuck(r)'
  <1>1. requests'[r] = q
    BY DEF Becomes, SelectionInv, SelectionTypes
  <1>2. PICK a \in Auths : HasAuth(q, a) /\ \A d \in requests[r].digests : Told(r, d, a)
    BY DEF Finds
  <1>3. ASSUME NEW d \in requests[r].digests PROVE LiveAuth(d) = a
    <2>1. /\ LiveAuth(d) = AskedAuth(r, d)
          /\ \/ d \in Active
             \/ d \notin DOMAIN table
             \/ Expires(table[d]) <= requests[r].asked
      BY DEF Stuck, Finds
    <2>2. CASE /\ d \in DOMAIN table /\ table[d].auth = a
               /\ Expires(table[d]) > requests[r].asked
      <3>1. Expires(table[d]) \in Int /\ requests[r].asked \in Int
        BY <2>2, AffinityAssumption
        DEF SelectionInv, SelectionTypes, Request, AffinityInv, AffinityTypeOK, Row, Expires
      <3>2. d \in Active
        BY <2>1, <2>2, <3>1
      <3>3. QED
        BY <2>2, <3>2 DEF LiveAuth
    <2>3. CASE /\ d \in DOMAIN requests[r].read /\ requests[r].read[d].auth = a
               /\ Expires(requests[r].read[d]) > requests[r].asked
      BY <2>1, <2>3 DEF AskedAuth
    <2>4. QED
      BY <1>2, <2>2, <2>3 DEF Told
  <1>4. \A d \in q.digests : LiveAuth(d)' = a
    BY <1>3 DEF Undisturbed, Finds
  <1>5. QED
    BY <1>1, <1>2, <1>4 DEF Stuck, HasAuth

LEMMA StuckByUsing ==
    ASSUME SelectionInv, NEW r \in Requests, NEW q, Becomes(r, q), Uses(r, q),
           Stuck(r), Undisturbed(r)
    PROVE  Stuck(r)'
  <1>1. requests'[r] = q
    BY DEF Becomes, SelectionInv, SelectionTypes
  <1>2. \A d \in q.digests : d \in requests[r].digests /\ LiveAuth(d)' = LiveAuth(d)
    BY DEF Undisturbed, Uses
  <1>3. CASE requests[r].binding # NoBinding /\ HasAuth(q, requests[r].binding.auth)
    BY <1>1, <1>2, <1>3 DEF Stuck, HasAuth
  <1>4. CASE /\ requests[r].phase = "attempt" /\ q.phase = "answered"
             /\ q.auth = requests[r].auth /\ q.binding = NoBinding
    BY <1>1, <1>2, <1>4 DEF Stuck
  <1>5. QED
    BY <1>3, <1>4 DEF Uses

LEMMA StuckByKeeping ==
    ASSUME SelectionInv, NEW r \in Requests, NEW q, Becomes(r, q), Keeps(r, q),
           requests[r].phase \notin Transacting => Stuck(r) /\ Undisturbed(r)
    PROVE  Stuck(r)'
  <1>1. requests'[r] = q
    BY DEF Becomes, SelectionInv, SelectionTypes
  <1>2. CASE q.binding = NoBinding
    BY <1>1, <1>2 DEF Stuck, Keeps
  <1>3. CASE /\ q.binding = requests[r].binding /\ q.digests \subseteq requests[r].digests
             /\ requests[r].phase \notin Transacting
    BY <1>1, <1>3 DEF Stuck, Keeps, Undisturbed
  <1>4. QED
    BY <1>2, <1>3 DEF Keeps

\* A request that is steady after a step of its own without learning anything
\* was steady before, and its session is undisturbed.
LEMMA OwnStuck ==
    ASSUME SelectionInv, StickInv, NEW r \in Requests, OwnStep(r), RecordSteady, r \in steady'
    PROVE  Stuck(r)'
  <1>1. requests[r].phase \notin Transacting /\ (requests[r].phase = "groups" \/ requests'[r].phase # "groups")
          => Stuck(r) /\ Undisturbed(r)
    BY DEF RecordSteady, Learns, Transacting, At, StickInv
  <1>2. CASE GivenStep(r)
    BY <1>2, StuckByWrite
  <1>3. ASSUME NEW q, Becomes(r, q), Asks(r, q), UNCHANGED table, UNCHANGED now
        PROVE  Stuck(r)'
    BY <1>3, StuckByAsking
  <1>4. ASSUME NEW q, Becomes(r, q), Finds(r, q)
        PROVE  Stuck(r)'
    <2>1. Stuck(r) /\ Undisturbed(r)
      BY <1>1, <1>4 DEF Finds, Transacting
    <2>2. QED
      BY <1>4, <2>1, StuckByFinding
  <1>5. ASSUME NEW q, Becomes(r, q), Uses(r, q)
        PROVE  Stuck(r)'
    <2>1. requests'[r] = q
      BY <1>5 DEF Becomes, SelectionInv, SelectionTypes
    <2>2. Stuck(r) /\ Undisturbed(r)
      BY <1>1, <1>5, <2>1 DEF Uses, HasAuth
    <2>3. QED
      BY <1>5, <2>2, StuckByUsing
  <1>6. ASSUME NEW q, Becomes(r, q), Keeps(r, q)
        PROVE  Stuck(r)'
    <2>1. requests'[r] = q
      BY <1>6 DEF Becomes, SelectionInv, SelectionTypes
    <2>2. requests[r].phase \notin Transacting => Stuck(r) /\ Undisturbed(r)
      BY <1>1, <1>6, <2>1 DEF Keeps
    <2>3. QED
      BY <1>6, <2>2, StuckByKeeping
  <1>7. QED
    BY <1>2, <1>3, <1>4, <1>5, <1>6 DEF OwnStep

LEMMA StickStep ==
    ASSUME SelectionInv, SelectionInv', StickInv, [Next]_affinityVars,
           [SelectionNext]_selectionVars
    PROVE  StickInv'
  <1> SUFFICES ASSUME NEW r \in steady' PROVE Stuck(r)'
    BY DEF StickInv
  <1>0. r \in Requests
    BY DEF SelectionInv, SelectionTypes
  <1>1. CASE UNCHANGED selectionVars
    <2>1. r \in steady /\ Stuck(r) /\ requests' = requests
      BY <1>1 DEF selectionVars, StickInv
    <2>2. Undisturbed(r)
      BY <1>1 DEF selectionVars, affinityVars, Undisturbed, LiveAuth, Active, ActiveRow, Expires
    <2>3. QED
      BY <1>0, <2>1, <2>2, StuckKept
  <1>2. CASE SelectionNext /\ requests'[r] = requests[r]
    <2>1. r \in steady /\ Undisturbed(r)
      BY <1>2 DEF SelectionNext, RecordSteady
    <2>2. Stuck(r)
      BY <2>1 DEF StickInv
    <2>3. QED
      BY <1>0, <1>2, <2>1, <2>2, StuckKept
  <1>3. CASE SelectionNext /\ requests'[r] # requests[r]
    <2>1. RecordSteady
      BY <1>3 DEF SelectionNext
    <2>2. Step(r)
      <3>1. ~Disturb
        BY <1>3, DisturbTableStep
      <3>2. PICK p \in Requests : Step(p)
        BY <1>3, <3>1 DEF SelectionNext
      <3>3. PICK q : Becomes(p, q)
        BY <3>2, OwnSteps DEF SelectionInv, OwnStep, GivenStep
      <3>4. p = r
        BY <1>0, <1>3, <3>3 DEF Becomes, SelectionInv, SelectionTypes
      <3>5. QED
        BY <3>2, <3>4
    <2>3. OwnStep(r)
      BY <1>0, <2>2, OwnSteps DEF SelectionInv
    <2>4. QED
      BY <1>0, <2>1, <2>3, OwnStuck
  <1>4. QED
    BY <1>1, <1>2, <1>3

\* As long as the session of a request has not changed hands since the request
\* learnt its auth, every digest of the request is bound to the auth that it
\* attempted or that answered it: however the reads of a lookup, concurrent
\* binds and failovers, clears and cleanups interleave (lookupSessionAffinity,
\* bindSessionAffinity and RebindSessionAffinity under selectProxyAuthCandidate).
THEOREM RequestsOfASessionAgree == SelectionSpec => []SessionsStick
  <1>1. SelectionInit => SelectionInv /\ StickInv
    BY SelectionInvInit DEF SelectionInit, StickInv
  <1>2. SelectionInv /\ StickInv /\ [SelectionNext]_selectionVars
          => (SelectionInv /\ StickInv)'
    BY SelectionInvStep, StickStep
  <1>3. StickInv => SessionsStick
    BY DEF StickInv, Stuck, SessionsStick
  <1>4. QED
    BY <1>1, <1>2, <1>3, PTL DEF SelectionSpec

-----------------------------------------------------------------------------
\* Only a transaction that gives a request its binding writes rows.
RowsOnlyLeave == \A d \in DOMAIN table' : d \in DOMAIN table /\ table'[d] = table[d]

LEMMA OthersOnlyDelete ==
    ASSUME SelectionTypes, AffinityInv, NEW r \in Requests, Step(r)
    PROVE  GivenStep(r) \/ RowsOnlyLeave
  <1>1. CASE UNCHANGED affinityVars
    BY <1>1 DEF affinityVars, RowsOnlyLeave
  <1>2. CASE InvalidateRemoved(r)
    BY <1>2 DEF InvalidateRemoved, DeleteByAuthIDs, Delete, RowsOnlyLeave
  <1>3. CASE CleanAndFilter(r)
    <2>1. CASE CleanupExpired
      BY <2>1 DEF CleanupExpired, Delete, RowsOnlyLeave
    <2>2. CASE UNCHANGED affinityVars
      BY <2>2, <1>1
    <2>3. QED
      BY <1>3, <2>1, <2>2 DEF CleanAndFilter
  <1>4. CASE RefreshBinding(r)
    BY <1>4, <1>1, RefreshGives
  <1>5. CASE OfferBinding(r)
    BY <1>5, OfferGives
  <1>6. CASE MoveBinding(r) \/ MoveBindingAgain(r)
    BY <1>6, RebindGives
  <1>7. QED
    BY <1>1, <1>2, <1>3, <1>4, <1>5, <1>6, Zenon
    DEF Step, Arrive, ReconcileFirst, ReconcileFiles, ScanFiles, LookupDigests, LookupGroups,
        Succeed, Fail, Cancel

LEMMA DisturbOnlyDeletes ==
    ASSUME Disturb
    PROVE  RowsOnlyLeave
  <1>1. CASE OperatorClears
    BY <1>1 DEF OperatorClears, DeleteByTenantSession, DeleteByAuthIDs, Delete, RowsOnlyLeave
  <1>2. QED
    BY <1>1 DEF Disturb, AuthChanges, TimePasses, Tick, affinityVars, RowsOnlyLeave

\* A live row that a request's transaction gives another auth: the winner it
\* follows is of an older session, or had the auth that the request holds.
LEMMA MovedByGiving ==
    ASSUME SelectionInv, NEW r \in Requests, GivenStep(r), NEW d \in Active,
           d \in DOMAIN table', table'[d].auth # table[d].auth
    PROVE  \/ \E e \in Active : Earlier(e, d) /\ table[e] # table[d]
           \/ /\ At(r, "rebind") \/ At(r, "rebindAgain")
              /\ requests[r].binding.auth = table[d].auth
              /\ table[d].auth \notin requests[r].eligible
  <1>1. PICK digests \in (SUBSET Digests) \ {{}}, groups \in SUBSET Digests, row \in Row :
           /\ Writable(row, digests, groups)
           /\ WriteAliases(digests \cup Loaded(digests, groups), row)
           /\ UNCHANGED <<now, nextCleanup, torn>>
           /\ Sourced(r, Loaded(digests, groups), row.auth)
    BY DEF GivenStep
  <1> DEFINE S == digests \cup Loaded(digests, groups)
  <1>2. WriteEffect(S, row) /\ Active \cap S = Active \cap Loaded(digests, groups)
    BY <1>1, WriteFacts DEF SelectionInv
  <1>3. d \in S
    <2>1. CASE d \notin S
      BY <1>2, <2>1 DEF WriteEffect
    <2>2. QED
      BY <2>1
  <1>4. table'[d] = row
    BY <1>2, <1>3 DEF WriteEffect
  <1>5. d \in Active \cap Loaded(digests, groups)
    BY <1>2, <1>3
  <1>6. PICK w \in Winners(Loaded(digests, groups)) :
           \/ row.auth = table[w].auth
           \/ /\ requests[r].phase \in {"rebind", "rebindAgain"}
              /\ requests[r].binding.auth = table[w].auth
              /\ table[w].auth \notin requests[r].eligible
    BY <1>1, <1>5 DEF Sourced
  <1>7. w \in Active /\ Earlier(w, d)
    BY <1>5, <1>6 DEF Winners
  <1>8. CASE table[w] # table[d]
    BY <1>7, <1>8
  <1>9. CASE table[w] = table[d]
    BY <1>4, <1>6, <1>9 DEF At
  <1>10. QED
    BY <1>8, <1>9

\* A live session moves to another auth only by a request that holds the auth
\* it leaves and found it unusable, or by joining an older session: no
\* concurrent bind or late failover pulls it away (bindSessionAffinity and the
\* compare-and-swap of RebindSessionAffinity).
THEOREM SessionsMoveForCause == SelectionSpec => MovesOnlyOffUnusable
  <1> DEFINE Caused ==
        \A d \in Active :
          (d \in DOMAIN table' /\ table'[d].auth # table[d].auth) =>
             \/ \E e \in Active : Earlier(e, d) /\ table[e] # table[d]
             \/ \E r \in Requests :
                   /\ At(r, "rebind") \/ At(r, "rebindAgain")
                   /\ requests[r].binding.auth = table[d].auth
                   /\ table[d].auth \notin requests[r].eligible
  <1>1. SelectionInv /\ [SelectionNext]_selectionVars => [Caused]_selectionVars
    <2> SUFFICES ASSUME SelectionInv, SelectionNext PROVE Caused
      OBVIOUS
    <2>1. CASE RowsOnlyLeave
      BY <2>1 DEF RowsOnlyLeave
    <2>2. ASSUME NEW r \in Requests, GivenStep(r)
          PROVE  Caused
      BY <2>2, MovedByGiving
    <2>3. CASE Disturb
      BY <2>1, <2>3, DisturbOnlyDeletes
    <2>4. ASSUME NEW r \in Requests, Step(r)
          PROVE  Caused
      <3>1. GivenStep(r) \/ RowsOnlyLeave
        BY <2>4, OthersOnlyDelete DEF SelectionInv
      <3> HIDE DEF Caused
      <3>2. QED
        BY <2>1, <2>2, <3>1
    <2> HIDE DEF Caused
    <2>5. QED
      BY <2>3, <2>4 DEF SelectionNext
  <1>2. SelectionInv /\ [SelectionNext]_selectionVars => SelectionInv'
    BY SelectionInvStep
  <1>3. [][Caused]_selectionVars => MovesOnlyOffUnusable
    BY PTL DEF MovesOnlyOffUnusable
  <1> HIDE DEF Caused
  <1>4. QED
    BY <1>1, <1>2, <1>3, SelectionInvInit, PTL DEF SelectionSpec
=============================================================================
