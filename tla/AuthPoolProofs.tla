---------------------------- MODULE AuthPoolProofs ----------------------------
(* Proofs about AuthPool, for any sets of files, accounts and callers.        *)
EXTENDS AuthPool, FiniteSetTheorems, WellFoundedInduction, TLAPS

(* The phases in which a caller holds mutationMu.                             *)
Holding == {"scan", "rescan", "check", "save", "undo", "renew"}

(* The phases in which it has read the sources it is about to replace.        *)
Sourced == {"check", "save", "undo", "renew"}

(* The variables have their types.                                            *)
TypesInv ==
  /\ disk \in [Files -> Contents \cup {Absent, Broken}]
  /\ files \in [Files -> Entries \cup {NoFile}]
  /\ lock \in Callers \cup {NoCaller}
  /\ ops \in [Callers -> Operations]
  /\ issued \in 1 .. MaxIssued
  /\ standing \in [Accounts -> BOOLEAN]
  /\ steady \subseteq Files
  /\ DOMAIN auths \subseteq Ids
  /\ edits \in Nat

LockInv == \A c \in Callers : ops[c].phase \in Holding <=> lock = c

(* An operation has what its phase needs, and nothing else is left of an      *)
(* earlier phase.                                                             *)
PhaseOK(c) ==
  /\ ~At(c, "tell") => ops[c].news = {}
  /\ ~Scanning(c) => ops[c].seen = NothingSeen
  /\ At(c, "scan") /\ ops[c].kind = "set" => ops[c].id \in Accounts
  /\ At(c, "check") => ops[c].left # {} /\ ops[c].done = {}
  /\ At(c, "save") => Unsaved(c) # {}
  /\ At(c, "undo") => ops[c].done # {}
  /\ ops[c].phase \in {"check", "save", "undo"} =>
       /\ ops[c].id \in Accounts
       /\ ops[c].done \subseteq DOMAIN ops[c].originals
       /\ \A f \in DOMAIN ops[c].originals : ops[c].originals[f].account = ops[c].id

PhaseInv == \A c \in Callers : PhaseOK(c)

-----------------------------------------------------------------------------
(* Min and Max of FiniteSetsExt choose, so they need a set that has one.      *)

LEMMA MaxIsIn ==
  ASSUME NEW S, IsFiniteSet(S), S \subseteq Nat, S # {}
  PROVE  Max(S) \in S
  <1> DEFINE Unbounded == {T \in SUBSET S : T # {} /\ ~\E x \in T : \A y \in T : x >= y}
  <1>1. Unbounded = {}
    <2> SUFFICES ASSUME Unbounded # {} PROVE FALSE
      OBVIOUS
    <2>1. IsWellFoundedOn(StrictSubsetOrdering(S), FiniteSubsetsOf(S))
      BY FS_StrictSubsetOrderingWellFounded
    <2>2. Unbounded \subseteq FiniteSubsetsOf(S)
      BY FS_Subset DEF FiniteSubsetsOf
    <2>3. PICK T \in Unbounded : \A U \in Unbounded : ~(<<U, T>> \in StrictSubsetOrdering(S))
      BY <2>1, <2>2, WFMin
    <2>4. PICK x \in T : TRUE
      OBVIOUS
    <2>5. T \ {x} \notin Unbounded
      BY <2>3, <2>4 DEF StrictSubsetOrdering
    <2>6. CASE T = {x}
      BY <2>6, <2>4
    <2>7. CASE T # {x}
      <3>1. PICK z \in T \ {x} : \A y \in T \ {x} : z >= y
        BY <2>5, <2>7, <2>4
      <3>2. x \in Nat /\ z \in Nat /\ \A y \in T : y \in Nat
        BY <3>1, <2>4
      <3>3. x >= z => \A y \in T : x >= y
        BY <3>1, <3>2
      <3>4. ~(x >= z) => \A y \in T : z >= y
        BY <3>1, <3>2
      <3>5. QED
        BY <3>1, <3>3, <3>4, <2>4
    <2>8. QED
      BY <2>6, <2>7
  <1>2. \E x \in S : \A y \in S : x >= y
    BY <1>1
  <1>3. QED
    BY <1>2 DEF Max

LEMMA MinIsIn ==
  ASSUME NEW S, IsFiniteSet(S), S \subseteq Nat, S # {}
  PROVE  Min(S) \in S
  <1> DEFINE Unbounded == {T \in SUBSET S : T # {} /\ ~\E x \in T : \A y \in T : x <= y}
  <1>1. Unbounded = {}
    <2> SUFFICES ASSUME Unbounded # {} PROVE FALSE
      OBVIOUS
    <2>1. IsWellFoundedOn(StrictSubsetOrdering(S), FiniteSubsetsOf(S))
      BY FS_StrictSubsetOrderingWellFounded
    <2>2. Unbounded \subseteq FiniteSubsetsOf(S)
      BY FS_Subset DEF FiniteSubsetsOf
    <2>3. PICK T \in Unbounded : \A U \in Unbounded : ~(<<U, T>> \in StrictSubsetOrdering(S))
      BY <2>1, <2>2, WFMin
    <2>4. PICK x \in T : TRUE
      OBVIOUS
    <2>5. T \ {x} \notin Unbounded
      BY <2>3, <2>4 DEF StrictSubsetOrdering
    <2>6. CASE T = {x}
      BY <2>6, <2>4
    <2>7. CASE T # {x}
      <3>1. PICK z \in T \ {x} : \A y \in T \ {x} : z <= y
        BY <2>5, <2>7, <2>4
      <3>2. x \in Nat /\ z \in Nat /\ \A y \in T : y \in Nat
        BY <3>1, <2>4
      <3>3. x <= z => \A y \in T : x <= y
        BY <3>1, <3>2
      <3>4. ~(x <= z) => \A y \in T : z <= y
        BY <3>1, <3>2
      <3>5. QED
        BY <3>1, <3>3, <3>4, <2>4
    <2>8. QED
      BY <2>6, <2>7
  <1>2. \E x \in S : \A y \in S : x <= y
    BY <1>1
  <1>3. QED
    BY <1>2 DEF Min

LEMMA FirstFile ==
  ASSUME NEW S, S \subseteq Files, S # {}
  PROVE  Min(S) \in S /\ Max(S) \in S
  <1>1. IsFiniteSet(S) /\ S \subseteq Nat
    BY FS_Subset, PoolAssumption
  <1>2. QED
    BY <1>1, MinIsIn, MaxIsIn

-----------------------------------------------------------------------------
(* What an operation is made of.                                              *)

LEMMA OperationFields ==
  ASSUME NEW op \in Operations
  PROVE  /\ op.phase \in {"idle", "scan", "check", "save", "undo", "rescan", "renew", "tell", "use"}
         /\ op.kind \in {"reconcile", "set", "refresh"}
         /\ op.id \in Ids \cup {NoFile} /\ op.flag \in BOOLEAN
         /\ op.left \subseteq Files
         /\ op.seen \in [Files -> Entries \cup {NoFile}]
         /\ DOMAIN op.originals \subseteq Files
         /\ op.originals \in [DOMAIN op.originals -> Contents]
         /\ op.done \subseteq Files
         /\ op.news \subseteq Ids /\ op.have \subseteq Ids
  <1>1. op.originals \in Subfunctions
    BY DEF Operations
  <1>2. PICK S \in SUBSET Files : op.originals \in [S -> Contents]
    BY <1>1 DEF Subfunctions
  <1>3. QED
    BY <1>2 DEF Operations

LEMMA IdleOpFields ==
  /\ IdleOp \in Operations
  /\ IdleOp.phase = "idle" /\ IdleOp.kind = "reconcile" /\ IdleOp.id = NoFile
  /\ IdleOp.left = {} /\ IdleOp.seen = NothingSeen /\ IdleOp.originals = <<>>
  /\ IdleOp.done = {} /\ IdleOp.news = {} /\ IdleOp.have = {}
  <1>1. <<>> \in [{} -> Contents]
    OBVIOUS
  <1>2. <<>> \in Subfunctions
    BY <1>1 DEF Subfunctions
  <1>3. NothingSeen \in [Files -> Entries \cup {NoFile}]
    BY DEF NothingSeen
  <1>4. QED
    BY <1>2, <1>3 DEF IdleOp, Operations

LEMMA OthersStay ==
  ASSUME ops \in [Callers -> Operations], NEW c \in Callers, NEW op \in Operations,
         ops' = [ops EXCEPT ![c] = op]
  PROVE  /\ ops' \in [Callers -> Operations] /\ ops'[c] = op
         /\ \A d \in Callers \ {c} : ops'[d] = ops[d]
  OBVIOUS

-----------------------------------------------------------------------------
(* What the steps of an operation make of it.                                 *)

Begins(c) ==
  \/ BeginReconcile(c)
  \/ \E a \in Accounts, disabled \in BOOLEAN : BeginSetAccountDisabled(c, a, disabled)
  \/ \E i \in Ids, force \in BOOLEAN : BeginRefresh(c, i, force)

LEMMA BeginsOp ==
  ASSUME TypesInv, NEW c \in Callers, Begins(c)
  PROVE  /\ ops' \in [Callers -> Operations]
         /\ \A d \in Callers \ {c} : ops'[d] = ops[d]
         /\ ops'[c].phase = "scan" /\ ops'[c].left = Listed /\ ops'[c].seen = NothingSeen
         /\ ops'[c].news = {}
         /\ ops'[c].kind = "set" => ops'[c].id \in Accounts
         /\ ops[c].phase = "idle" /\ lock = NoCaller /\ lock' = c
         /\ UNCHANGED <<disk, storeVars, issued, kept, edits, edited, historyVars>>
  <1> USE IdleOpFields
  <1>1. ASSUME NEW op \in Operations, Begin(c, op), op.seen = NothingSeen, op.news = {},
               op.kind = "set" => op.id \in Accounts
        PROVE  /\ ops' \in [Callers -> Operations]
               /\ \A d \in Callers \ {c} : ops'[d] = ops[d]
               /\ ops'[c].phase = "scan" /\ ops'[c].left = Listed /\ ops'[c].seen = NothingSeen
               /\ ops'[c].news = {}
               /\ ops'[c].kind = "set" => ops'[c].id \in Accounts
               /\ ops[c].phase = "idle" /\ lock = NoCaller /\ lock' = c
               /\ UNCHANGED <<disk, storeVars, issued, kept, edits, edited, historyVars>>
    <2> DEFINE begun == [op EXCEPT !.phase = "scan", !.left = Listed]
    <2>1. Listed \subseteq Files
      BY DEF Listed
    <2>2. /\ begun \in Operations
          /\ begun.phase = "scan" /\ begun.left = Listed /\ begun.seen = op.seen
          /\ begun.news = op.news /\ begun.kind = op.kind /\ begun.id = op.id
      BY <2>1 DEF Operations
    <2>3. ops' = [ops EXCEPT ![c] = begun]
      BY <1>1 DEF Begin
    <2> HIDE DEF begun
    <2>4. /\ ops' \in [Callers -> Operations] /\ ops'[c] = begun
          /\ \A d \in Callers \ {c} : ops'[d] = ops[d]
      BY <2>2, <2>3, OthersStay DEF TypesInv
    <2>5. QED
      BY <1>1, <2>2, <2>4 DEF Begin, At, Free
  <1>2. CASE BeginReconcile(c)
    BY <1>1, <1>2 DEF BeginReconcile
  <1>3. ASSUME NEW a \in Accounts, NEW disabled \in BOOLEAN,
               BeginSetAccountDisabled(c, a, disabled)
        PROVE  /\ ops' \in [Callers -> Operations]
               /\ \A d \in Callers \ {c} : ops'[d] = ops[d]
               /\ ops'[c].phase = "scan" /\ ops'[c].left = Listed /\ ops'[c].seen = NothingSeen
               /\ ops'[c].news = {}
               /\ ops'[c].kind = "set" => ops'[c].id \in Accounts
               /\ ops[c].phase = "idle" /\ lock = NoCaller /\ lock' = c
               /\ UNCHANGED <<disk, storeVars, issued, kept, edits, edited, historyVars>>
    <2> DEFINE op == [IdleOp EXCEPT !.kind = "set", !.id = a, !.flag = disabled]
    <2>1. op \in Operations /\ op.seen = NothingSeen /\ op.news = {} /\ op.id = a
      BY DEF Operations, Ids
    <2>2. Begin(c, op)
      BY <1>3 DEF BeginSetAccountDisabled
    <2> HIDE DEF op
    <2>3. QED
      BY <1>1, <2>1, <2>2
  <1>4. ASSUME NEW i \in Ids, NEW force \in BOOLEAN, BeginRefresh(c, i, force)
        PROVE  /\ ops' \in [Callers -> Operations]
               /\ \A d \in Callers \ {c} : ops'[d] = ops[d]
               /\ ops'[c].phase = "scan" /\ ops'[c].left = Listed /\ ops'[c].seen = NothingSeen
               /\ ops'[c].news = {}
               /\ ops'[c].kind = "set" => ops'[c].id \in Accounts
               /\ ops[c].phase = "idle" /\ lock = NoCaller /\ lock' = c
               /\ UNCHANGED <<disk, storeVars, issued, kept, edits, edited, historyVars>>
    <2> DEFINE op == [IdleOp EXCEPT !.kind = "refresh", !.id = i, !.flag = force]
    <2>1. op \in Operations /\ op.seen = NothingSeen /\ op.news = {} /\ op.kind = "refresh"
      BY DEF Operations
    <2>2. Begin(c, op)
      BY <1>4 DEF BeginRefresh
    <2> HIDE DEF op
    <2>3. QED
      BY <1>1, <2>1, <2>2
  <1>5. QED
    BY <1>2, <1>3, <1>4 DEF Begins

LEMMA LeaveOp ==
  ASSUME TypesInv, NEW c \in Callers, ops' = [ops EXCEPT ![c] = IdleOp]
  PROVE  /\ ops' \in [Callers -> Operations] /\ ops'[c] = IdleOp
         /\ \A d \in Callers \ {c} : ops'[d] = ops[d]
  BY OthersStay, IdleOpFields DEF TypesInv

LEMMA EntryType ==
  ASSUME TypesInv, NEW f \in Files
  PROVE  /\ Entry(f) \in Entries \cup {NoFile}
         /\ Readable(f) => /\ Entry(f) # NoFile /\ Entry(f).auth = disk[f]
                           /\ Entry(f).parse = "ok" /\ disk[f] \in Contents
         /\ ~Readable(f) /\ Entry(f) # NoFile =>
              /\ disk[f] = Broken /\ files[f] # NoFile /\ Entry(f).auth = files[f].auth
              /\ Entry(f).parse = IF files[f].parse = "ok" THEN "grace" ELSE files[f].parse
         /\ disk[f] = Broken /\ files[f] # NoFile => Entry(f) # NoFile
  <1>1. CASE Readable(f)
    <2>1. disk[f] \in Contents
      BY <1>1 DEF TypesInv, Readable
    <2>2. Entry(f) = [auth |-> disk[f], parse |-> "ok"]
      BY <1>1 DEF Entry
    <2>3. Entry(f) \in Entries
      BY <2>1, <2>2 DEF Entries
    <2>4. QED
      BY <1>1, <2>1, <2>2, <2>3, PoolAssumption DEF Readable
  <1>2. CASE ~Readable(f) /\ disk[f] = Broken /\ files[f] # NoFile
    <2>1. Entry(f) = [files[f] EXCEPT !.parse = IF @ = "ok" THEN "grace" ELSE @]
      BY <1>2 DEF Entry
    <2>2. files[f] \in Entries
      BY <1>2 DEF TypesInv
    <2>3. /\ Entry(f) \in Entries /\ Entry(f).auth = files[f].auth
          /\ Entry(f).parse = IF files[f].parse = "ok" THEN "grace" ELSE files[f].parse
      BY <2>1, <2>2 DEF Entries
    <2>4. QED
      BY <1>2, <2>3, PoolAssumption
  <1>3. CASE ~Readable(f) /\ ~(disk[f] = Broken /\ files[f] # NoFile)
    BY <1>3 DEF Entry
  <1>4. QED
    BY <1>1, <1>2, <1>3

LEMMA ReadFileOp ==
  ASSUME TypesInv, NEW c \in Callers, ReadFile(c)
  PROVE  \E f \in ops[c].left :
           /\ ops' \in [Callers -> Operations]
           /\ \A d \in Callers \ {c} : ops'[d] = ops[d]
           /\ ops'[c].left = ops[c].left \ {f} /\ f \in Files
           /\ ops'[c].seen = [ops[c].seen EXCEPT ![f] = Entry(f)]
           /\ ops'[c].phase = ops[c].phase /\ ops'[c].kind = ops[c].kind
           /\ ops'[c].id = ops[c].id /\ ops'[c].news = ops[c].news
  <1> DEFINE f == Min(ops[c].left)
             op == [ops[c] EXCEPT !.left = @ \ {f}, !.seen = [@ EXCEPT ![f] = Entry(f)]]
  <1>0. ops[c] \in Operations
    BY DEF TypesInv
  <1>1. f \in ops[c].left /\ f \in Files
    BY <1>0, OperationFields, FirstFile DEF ReadFile
  <1> HIDE DEF f
  <1>2. Entry(f) \in Entries \cup {NoFile}
    BY <1>1, EntryType
  <1>3. /\ op \in Operations
        /\ op.left = ops[c].left \ {f} /\ op.seen = [ops[c].seen EXCEPT ![f] = Entry(f)]
        /\ op.phase = ops[c].phase /\ op.kind = ops[c].kind
        /\ op.id = ops[c].id /\ op.news = ops[c].news
    BY <1>0, <1>1, <1>2 DEF Operations
  <1>4. ops' = [ops EXCEPT ![c] = op]
    BY DEF ReadFile, f
  <1> HIDE DEF op
  <1>5. QED
    BY <1>1, <1>3, <1>4, OthersStay DEF TypesInv

LEMMA GroupedSources ==
  ASSUME NEW seen \in [Files -> Entries \cup {NoFile}]
  PROVE  /\ Served(seen) \subseteq Files
         /\ \A f \in Served(seen) : seen[f] \in Entries /\ seen[f].auth \in Contents
         /\ DOMAIN Grouped(seen) = {Id(f, seen[f].auth) : f \in Served(seen)}
         /\ DOMAIN Grouped(seen) \subseteq Ids
         /\ ActiveIds(Grouped(seen)) \subseteq DOMAIN Grouped(seen)
         /\ \A i \in DOMAIN Grouped(seen) :
              LET sources == Grouped(seen)[i].sources IN
              /\ sources = {f \in Served(seen) : Id(f, seen[f].auth) = i}
              /\ sources # {} /\ sources \subseteq Files
              /\ Representative(seen, sources) \in sources
  <1>1. Served(seen) \subseteq Files
    BY DEF Served
  <1>2. \A f \in Served(seen) : seen[f] \in Entries
    BY DEF Served
  <1>3. \A f \in Served(seen) : seen[f].auth \in Contents
    BY <1>2 DEF Entries
  <1>4. DOMAIN Grouped(seen) = {Id(f, seen[f].auth) : f \in Served(seen)}
    BY DEF Grouped
  <1>5. DOMAIN Grouped(seen) \subseteq Ids
    <2>1. \A f \in Served(seen) : Id(f, seen[f].auth) \in Ids
      BY <1>1, <1>3 DEF Id, Ids, Contents
    <2>2. QED
      BY <1>4, <2>1
  <1>6. ASSUME NEW i \in DOMAIN Grouped(seen)
        PROVE  LET sources == Grouped(seen)[i].sources IN
               /\ sources = {f \in Served(seen) : Id(f, seen[f].auth) = i}
               /\ sources # {} /\ sources \subseteq Files
               /\ Representative(seen, sources) \in sources
    <2> DEFINE sources == Grouped(seen)[i].sources
    <2>1. sources = {f \in Served(seen) : Id(f, seen[f].auth) = i}
      BY <1>4 DEF Grouped
    <2>2. sources # {} /\ sources \subseteq Files
      BY <1>1, <1>4, <2>1
    <2> HIDE DEF sources
    <2>3. Representative(seen, sources) \in sources
      <3> DEFINE enabled == {f \in sources : ~seen[f].auth.disabled}
                 pick == IF enabled = {} THEN sources ELSE enabled
      <3>1. pick \subseteq sources /\ pick # {}
        BY <2>2
      <3>2. Representative(seen, sources) = Min(pick)
        BY DEF Representative
      <3> HIDE DEF pick
      <3>3. QED
        BY <2>2, <3>1, <3>2, FirstFile
    <2>4. QED
      BY <2>1, <2>2, <2>3 DEF sources
  <1>7. ActiveIds(Grouped(seen)) \subseteq DOMAIN Grouped(seen)
    BY DEF ActiveIds
  <1>8. QED
    BY <1>1, <1>2, <1>3, <1>4, <1>5, <1>6, <1>7

(* What a complete scan leads to, told apart by the phase it leads to.        *)
LEMMA PublishOp ==
  ASSUME TypesInv, PhaseInv, NEW c \in Callers, Publish(c)
  PROVE  LET seen == ops[c].seen IN
         /\ seen \in [Files -> Entries \cup {NoFile}] /\ files' = seen /\ auths' = Grouped(seen)
         /\ Scanning(c) /\ ops[c].left = {}
         /\ ops' \in [Callers -> Operations]
         /\ \A d \in Callers \ {c} : ops'[d] = ops[d]
         /\ ops'[c].seen = NothingSeen
         /\ \/ /\ ops'[c].phase = "tell" /\ ops'[c].news = Removed(auths, auths')
               /\ lock' = NoCaller
            \/ /\ ops'[c].phase = "check" /\ ops'[c].id = ops[c].id /\ ops[c].id \in Accounts
               /\ ops[c].id \in DOMAIN auths' /\ ops'[c].left = auths'[ops[c].id].sources
               /\ ops'[c].originals = <<>> /\ ops'[c].done = {} /\ ops'[c].news = {}
               /\ UNCHANGED <<lock, edited>>
            \/ /\ ops'[c].phase = "renew" /\ ops'[c].news = {}
               /\ \E source \in Served(seen) :
                    ops'[c].originals = [f \in {source} |-> seen[f].auth]
               /\ UNCHANGED <<lock, edited>>
            \/ ops'[c] = IdleOp /\ lock' = NoCaller
  <1> DEFINE old     == ops[c]
             seen    == old.seen
             logical == Grouped(seen)
             op      == Continued(c, logical)
             next    == [old EXCEPT !.seen = NothingSeen, !.originals = <<>>, !.done = {}]
  <1>1. old \in Operations /\ (old.phase \in {"scan", "rescan"})
    BY DEF TypesInv, Publish, Scanning, At
  <1>2. seen \in [Files -> Entries \cup {NoFile}]
    BY <1>1, OperationFields
  <1>3. files' = seen /\ auths' = logical /\ ops' = [ops EXCEPT ![c] = op] /\ old.left = {}
    BY DEF Publish
  <1>4. old.news = {} /\ (old.phase = "scan" /\ old.kind = "set" => old.id \in Accounts)
    BY <1>1 DEF PhaseInv, PhaseOK, At
  <1>5. /\ next \in Operations /\ next.seen = NothingSeen /\ next.originals = <<>>
        /\ next.done = {} /\ next.id = old.id /\ next.news = {}
    BY <1>1, <1>4, IdleOpFields DEF Operations
  <1> DEFINE told   == [next EXCEPT !.phase = "tell", !.news = Removed(auths, logical),
                                    !.have = ActiveIds(logical)]
             check  == [next EXCEPT !.phase = "check", !.left = logical[old.id].sources]
             source == Representative(seen, logical[old.id].sources)
             renew  == [next EXCEPT !.phase = "renew", !.originals = [f \in {source} |-> seen[f].auth]]
             eligible == old.id \in (IF old.flag THEN DOMAIN logical ELSE ActiveIds(logical))
  <1>6. op = IF old.kind = "reconcile" THEN told
             ELSE IF old.kind = "set" /\ old.phase = "scan" /\ old.id \in DOMAIN logical THEN check
             ELSE IF old.kind = "refresh" /\ eligible THEN renew
             ELSE IdleOp
    BY DEF Continued
  <1>7. old.seen = seen /\ logical = Grouped(seen)
    OBVIOUS
  <1> DEFINE Out ==
    \/ op.phase = "tell" /\ op.news = Removed(auths, logical)
    \/ /\ op.phase = "check" /\ op.id = old.id /\ old.id \in Accounts
       /\ old.id \in DOMAIN logical /\ op.left = logical[old.id].sources
       /\ op.originals = <<>> /\ op.done = {} /\ op.news = {}
    \/ /\ op.phase = "renew" /\ op.news = {}
       /\ \E s \in Served(seen) : op.originals = [f \in {s} |-> seen[f].auth]
    \/ op = IdleOp
  <1>8. op \in Operations /\ op.seen = NothingSeen /\ Out
    <2> HIDE DEF next, old, seen, logical
    <2>1. CASE old.kind = "reconcile"
      <3>1. Removed(auths, logical) \subseteq Ids /\ ActiveIds(logical) \subseteq Ids
        BY <1>2, <1>7, GroupedSources DEF TypesInv, Removed
      <3>2. told \in Operations /\ told.seen = NothingSeen /\ told.phase = "tell"
            /\ told.news = Removed(auths, logical)
        BY <1>5, <3>1 DEF Operations
      <3>3. QED
        BY <1>6, <2>1, <3>2
    <2>2. CASE old.kind = "set" /\ old.phase = "scan" /\ old.id \in DOMAIN logical
      <3>1. logical[old.id].sources \subseteq Files
        BY <1>2, <1>7, <2>2, GroupedSources
      <3>2. check \in Operations /\ check.seen = NothingSeen /\ check.phase = "check"
            /\ check.left = logical[old.id].sources /\ check.originals = <<>> /\ check.done = {}
            /\ check.news = {} /\ check.id = old.id
        BY <1>5, <3>1 DEF Operations
      <3>3. op = check
        BY <1>6, <2>2
      <3>4. QED
        BY <1>4, <2>2, <3>2, <3>3
    <2>3. CASE old.kind = "refresh" /\ eligible
      <3>1. old.id \in DOMAIN logical
        BY <1>2, <1>7, <2>3, GroupedSources
      <3> DEFINE sources == logical[old.id].sources
      <3>2. source \in sources /\ sources \subseteq Files /\ sources \subseteq Served(seen)
        <4>1. logical = Grouped(seen) /\ old.id \in DOMAIN Grouped(seen)
          BY <1>7, <3>1
        <4>2. LET group == Grouped(seen)[old.id].sources IN
              /\ group = {f \in Served(seen) : Id(f, seen[f].auth) = old.id} /\ group \subseteq Files
              /\ Representative(seen, group) \in group
          BY <1>2, <4>1, GroupedSources
        <4>3. QED
          BY <4>1, <4>2
      <3>3. seen[source].auth \in Contents
        BY <1>2, <3>2, GroupedSources
      <3> HIDE DEF source, sources, eligible
      <3>4. [f \in {source} |-> seen[f].auth] \in Subfunctions
        <4>1. [f \in {source} |-> seen[f].auth] \in [{source} -> Contents]
          BY <3>3
        <4>2. QED
          BY <3>2, <4>1 DEF Subfunctions
      <3>5. renew \in Operations /\ renew.seen = NothingSeen /\ renew.phase = "renew"
            /\ renew.originals = [f \in {source} |-> seen[f].auth] /\ renew.news = {}
        BY <1>5, <3>4 DEF Operations
      <3>6. op = renew
        BY <1>6, <2>3
      <3>7. QED
        BY <3>2, <3>5, <3>6
    <2>4. CASE op = IdleOp
      BY <2>4, IdleOpFields
    <2>5. QED
      BY <1>6, <2>1, <2>2, <2>3, <2>4
  <1>9. IF op.phase \in {"tell", "idle"} THEN lock' = NoCaller ELSE UNCHANGED <<lock, edited>>
    BY DEF Publish
  <1>10. Scanning(c)
    BY DEF Publish
  <1> HIDE DEF op, logical, seen, old
  <1>11. ops' \in [Callers -> Operations] /\ ops'[c] = op /\ \A d \in Callers \ {c} : ops'[d] = ops[d]
    BY <1>3, <1>8, OthersStay DEF TypesInv
  <1>12. /\ op.phase = "tell" \/ op = IdleOp => lock' = NoCaller
         /\ op.phase \in {"check", "renew"} => UNCHANGED <<lock, edited>>
    BY <1>9, IdleOpFields
  <1>13. /\ auths' = Grouped(seen) /\ ops'[c].seen = NothingSeen
         /\ \/ op.phase = "tell" /\ op.news = Removed(auths, auths') /\ lock' = NoCaller
            \/ /\ op.phase = "check" /\ op.id = old.id /\ old.id \in Accounts
               /\ old.id \in DOMAIN auths' /\ op.left = auths'[old.id].sources
               /\ op.originals = <<>> /\ op.done = {} /\ op.news = {}
               /\ UNCHANGED <<lock, edited>>
            \/ /\ op.phase = "renew" /\ op.news = {}
               /\ \E s \in Served(seen) : op.originals = [f \in {s} |-> seen[f].auth]
               /\ UNCHANGED <<lock, edited>>
            \/ op = IdleOp /\ lock' = NoCaller
    BY <1>3, <1>7, <1>8, <1>11, <1>12
  <1>14. QED
    BY <1>2, <1>3, <1>10, <1>11, <1>13 DEF seen, old

LEMMA CheckSourceOp ==
  ASSUME TypesInv, NEW c \in Callers, CheckSource(c)
  PROVE  \E f \in ops[c].left :
           /\ f \in Files /\ Readable(f) /\ disk[f].account = ops[c].id /\ disk[f] \in Contents
           /\ ops' \in [Callers -> Operations]
           /\ \A d \in Callers \ {c} : ops'[d] = ops[d]
           /\ ops'[c].phase = (IF ops'[c].left = {} THEN "save" ELSE "check")
           /\ ops'[c].left = ops[c].left \ {f}
           /\ DOMAIN ops'[c].originals = (DOMAIN ops[c].originals) \cup {f}
           /\ \A g \in DOMAIN ops'[c].originals :
                ops'[c].originals[g] = IF g = f THEN disk[f] ELSE ops[c].originals[g]
           /\ ops'[c].id = ops[c].id /\ ops'[c].flag = ops[c].flag /\ ops'[c].done = ops[c].done
           /\ ops'[c].seen = ops[c].seen /\ ops'[c].news = ops[c].news
  <1> DEFINE f    == Min(ops[c].left)
             rest == ops[c].left \ {f}
             read == [g \in (DOMAIN ops[c].originals) \cup {f} |->
                        IF g = f THEN disk[f] ELSE ops[c].originals[g]]
             op   == [ops[c] EXCEPT !.left = rest, !.originals = read,
                                    !.phase = IF rest = {} THEN "save" ELSE "check"]
  <1>1. ops[c] \in Operations
    BY DEF TypesInv
  <1>2. /\ f \in ops[c].left /\ f \in Files
        /\ DOMAIN ops[c].originals \subseteq Files
        /\ ops[c].originals \in [DOMAIN ops[c].originals -> Contents]
    BY <1>1, OperationFields, FirstFile DEF CheckSource
  <1>3. ops' = [ops EXCEPT ![c] = op] /\ Readable(f) /\ disk[f].account = ops[c].id
    BY DEF CheckSource
  <1> HIDE DEF f
  <1>4. disk[f] \in Contents
    BY <1>2, <1>3 DEF TypesInv, Readable
  <1>5. read \in [(DOMAIN ops[c].originals) \cup {f} -> Contents]
    BY <1>2, <1>4
  <1>6. read \in Subfunctions
    BY <1>2, <1>5 DEF Subfunctions
  <1>7. /\ DOMAIN read = (DOMAIN ops[c].originals) \cup {f}
        /\ \A g \in DOMAIN read : read[g] = IF g = f THEN disk[f] ELSE ops[c].originals[g]
    OBVIOUS
  <1> HIDE DEF read
  <1>8. /\ op \in Operations
        /\ op.phase = (IF op.left = {} THEN "save" ELSE "check")
        /\ op.left = ops[c].left \ {f} /\ op.originals = read
        /\ op.id = ops[c].id /\ op.flag = ops[c].flag /\ op.done = ops[c].done
        /\ op.seen = ops[c].seen /\ op.news = ops[c].news
    BY <1>1, <1>6, Zenon DEF Operations
  <1> HIDE DEF op
  <1>9. ops' \in [Callers -> Operations] /\ ops'[c] = op /\ \A d \in Callers \ {c} : ops'[d] = ops[d]
    BY <1>3, <1>8, OthersStay DEF TypesInv
  <1>10. QED
    BY <1>2, <1>3, <1>4, <1>7, <1>8, <1>9

(* What SetAccountDisabled writes into a source.                              *)
LEMMA SaveSourceOp ==
  ASSUME TypesInv, PhaseInv, NEW c \in Callers, SaveSource(c)
  PROVE  \E f \in Unsaved(c) :
           LET old == ops[c]
               op  == ops'[c]
           IN
           /\ f \in Files /\ f \in DOMAIN old.originals /\ old.originals[f] \in Contents
           /\ disk' \in [Files -> Contents \cup {Absent, Broken}]
           /\ \A g \in Files \ {f} : disk'[g] = disk[g]
           /\ disk'[f] \in Contents /\ disk'[f].account = old.originals[f].account
           /\ disk'[f].token = old.originals[f].token /\ disk'[f].disabled = old.flag
           /\ ops' \in [Callers -> Operations]
           /\ \A d \in Callers \ {c} : ops'[d] = ops[d]
           /\ op.done = old.done \cup {f} /\ op.originals = old.originals
           /\ op.id = old.id /\ op.flag = old.flag /\ op.seen = old.seen /\ op.news = old.news
           /\ \/ /\ Unsaved(c) = {f} /\ op.phase = "rescan" /\ op.left = Listed \cup {f}
                 /\ standing' = [standing EXCEPT ![old.id] = old.flag]
              \/ Unsaved(c) # {f} /\ op.phase = "save" /\ standing' = standing
  <1> DEFINE f    == Min(Unsaved(c))
             last == Unsaved(c) = {f}
             old  == ops[c]
             op   == [ops[c] EXCEPT !.done = @ \cup {f},
                                    !.phase = IF last THEN "rescan" ELSE "save",
                                    !.left = IF last THEN Listed \cup {f} ELSE {}]
             written == [old.originals[f] EXCEPT !.disabled = old.flag]
  <1>1. old \in Operations
    BY DEF TypesInv
  <1>2. DOMAIN old.originals \subseteq Files /\ old.originals \in [DOMAIN old.originals -> Contents]
        /\ old.flag \in BOOLEAN /\ old.done \subseteq Files
    BY <1>1, OperationFields
  <1>3. Unsaved(c) \subseteq DOMAIN old.originals /\ Unsaved(c) # {}
    BY DEF PhaseInv, PhaseOK, SaveSource, Unsaved
  <1>4. f \in Unsaved(c) /\ f \in Files /\ f \in DOMAIN old.originals
    BY <1>2, <1>3, FirstFile
  <1>5. disk' = [disk EXCEPT ![f] = written] /\ ops' = [ops EXCEPT ![c] = op]
        /\ standing' = IF last THEN [standing EXCEPT ![old.id] = old.flag] ELSE standing
    BY DEF SaveSource
  <1> HIDE DEF f
  <1>6. old.originals[f] \in Contents
    BY <1>2, <1>4
  <1>7. /\ written \in Contents /\ written.account = old.originals[f].account
        /\ written.token = old.originals[f].token /\ written.disabled = old.flag
    BY <1>2, <1>6 DEF Contents
  <1>8. Listed \subseteq Files
    BY DEF Listed
  <1>9. /\ op \in Operations /\ op.done = old.done \cup {f} /\ op.originals = old.originals
        /\ op.phase = (IF last THEN "rescan" ELSE "save")
        /\ op.left = (IF last THEN Listed \cup {f} ELSE {})
        /\ op.id = old.id /\ op.flag = old.flag /\ op.seen = old.seen /\ op.news = old.news
    BY <1>1, <1>2, <1>4, <1>8, Zenon DEF Operations
  <1> HIDE DEF op, written, last
  <1>10. ops' \in [Callers -> Operations] /\ ops'[c] = op /\ \A d \in Callers \ {c} : ops'[d] = ops[d]
    BY <1>5, <1>9, OthersStay DEF TypesInv
  <1>11. /\ disk' \in [Files -> Contents \cup {Absent, Broken}] /\ disk'[f] = written
         /\ \A g \in Files \ {f} : disk'[g] = disk[g]
    BY <1>4, <1>5, <1>7 DEF TypesInv
  <1>12. last <=> Unsaved(c) = {f}
    BY DEF last
  <1>13. QED
    BY <1>4, <1>5, <1>6, <1>7, <1>9, <1>10, <1>11, <1>12

LEMMA SaveFailsOp ==
  ASSUME TypesInv, NEW c \in Callers, SaveFails(c)
  PROVE  \/ ops' = [ops EXCEPT ![c] = IdleOp] /\ lock' = NoCaller /\ ops[c].done = {}
         \/ /\ ops' \in [Callers -> Operations]
            /\ \A d \in Callers \ {c} : ops'[d] = ops[d]
            /\ ops'[c].phase = "undo" /\ ops[c].done # {}
            /\ ops'[c].done = ops[c].done /\ ops'[c].originals = ops[c].originals
            /\ ops'[c].id = ops[c].id /\ ops'[c].flag = ops[c].flag
            /\ ops'[c].seen = ops[c].seen /\ ops'[c].news = ops[c].news
            /\ UNCHANGED <<lock, edited>>
  <1> DEFINE op == [ops[c] EXCEPT !.phase = "undo"]
  <1>1. CASE ops[c].done = {}
    BY <1>1 DEF SaveFails, NothingToPutBack, Leave
  <1>2. CASE ops[c].done # {}
    <2>1. ops' = [ops EXCEPT ![c].phase = "undo"] /\ UNCHANGED <<lock, edited>>
      BY <1>2 DEF SaveFails, NothingToPutBack
    <2>2. ops[c] \in Operations
      BY DEF TypesInv
    <2>3. /\ op \in Operations /\ op.phase = "undo" /\ op.done = ops[c].done
          /\ op.originals = ops[c].originals /\ op.id = ops[c].id /\ op.flag = ops[c].flag
          /\ op.seen = ops[c].seen /\ op.news = ops[c].news
      BY <2>2 DEF Operations
    <2>4. ops' = [ops EXCEPT ![c] = op]
      BY <2>1
    <2> HIDE DEF op
    <2>5. ops' \in [Callers -> Operations] /\ ops'[c] = op /\ \A d \in Callers \ {c} : ops'[d] = ops[d]
      BY <2>3, <2>4, OthersStay DEF TypesInv
    <2>6. QED
      BY <1>2, <2>1, <2>3, <2>5
  <1>3. QED
    BY <1>1, <1>2

LEMMA PutBackOp ==
  ASSUME TypesInv, PhaseInv, NEW c \in Callers, PutBack(c)
  PROVE  \E f \in ops[c].done :
           /\ f \in Files /\ f \in DOMAIN ops[c].originals /\ ops[c].originals[f] \in Contents
           /\ disk' \in [Files -> Contents \cup {Absent, Broken}]
           /\ \A g \in Files \ {f} : disk'[g] = disk[g]
           /\ \/ disk'[f] = ops[c].originals[f] /\ touched' = touched
              \/ disk' = disk /\ touched' = touched \cup {ops[c].id}
           /\ \/ /\ ops' = [ops EXCEPT ![c] = IdleOp] /\ lock' = NoCaller
                 /\ ops[c].done = {f}
              \/ /\ ops' \in [Callers -> Operations]
                 /\ \A d \in Callers \ {c} : ops'[d] = ops[d]
                 /\ ops'[c].done = ops[c].done \ {f} /\ ops'[c].done # {}
                 /\ ops'[c].phase = "undo" /\ ops'[c].originals = ops[c].originals
                 /\ ops'[c].id = ops[c].id /\ ops'[c].flag = ops[c].flag
                 /\ ops'[c].seen = ops[c].seen /\ ops'[c].news = ops[c].news
                 /\ UNCHANGED <<lock, edited>>
  <1> DEFINE f  == Max(ops[c].done)
             op == [ops[c] EXCEPT !.done = PutBackRest(c)]
  <1>1. ops[c] \in Operations /\ ops[c].phase = "undo"
    BY DEF TypesInv, PutBack, At
  <1>2. /\ DOMAIN ops[c].originals \subseteq Files /\ ops[c].done \subseteq DOMAIN ops[c].originals
        /\ ops[c].originals \in [DOMAIN ops[c].originals -> Contents]
        /\ ops[c].done # {}
    BY <1>1, OperationFields DEF PhaseInv, PhaseOK, At
  <1>3. f \in ops[c].done /\ f \in DOMAIN ops[c].originals /\ f \in Files
    BY <1>2, FirstFile
  <1>4. /\ \/ disk' = [disk EXCEPT ![f] = ops[c].originals[f]] /\ touched' = touched
           \/ disk' = disk /\ touched' = touched \cup {ops[c].id}
        /\ IF PutBackRest(c) = {} THEN Leave(c)
           ELSE ops' = [ops EXCEPT ![c].done = PutBackRest(c)] /\ UNCHANGED <<lock, edited>>
        /\ PutBackRest(c) = ops[c].done \ {f}
    BY DEF PutBack, PutBackRest
  <1> HIDE DEF f
  <1>5. ops[c].originals[f] \in Contents
    BY <1>2, <1>3
  <1>6. /\ disk' \in [Files -> Contents \cup {Absent, Broken}]
        /\ \A g \in Files \ {f} : disk'[g] = disk[g]
        /\ \/ disk'[f] = ops[c].originals[f] /\ touched' = touched
           \/ disk' = disk /\ touched' = touched \cup {ops[c].id}
    BY <1>3, <1>4, <1>5 DEF TypesInv
  <1>7. CASE PutBackRest(c) = {}
    <2>1. ops[c].done = {f}
      BY <1>3, <1>4, <1>7
    <2>2. ops' = [ops EXCEPT ![c] = IdleOp] /\ lock' = NoCaller
      BY <1>4, <1>7 DEF Leave
    <2>3. QED
      BY <1>3, <1>5, <1>6, <2>1, <2>2
  <1>8. CASE PutBackRest(c) # {}
    <2>1. op \in Operations /\ op.done = PutBackRest(c) /\ op.phase = "undo"
          /\ op.originals = ops[c].originals /\ op.id = ops[c].id /\ op.flag = ops[c].flag
          /\ op.seen = ops[c].seen /\ op.news = ops[c].news
      BY <1>1, <1>2, <1>4 DEF Operations
    <2>2. ops' = [ops EXCEPT ![c] = op] /\ UNCHANGED <<lock, edited>>
      BY <1>4, <1>8
    <2> HIDE DEF op
    <2>3. ops' \in [Callers -> Operations] /\ ops'[c] = op /\ \A d \in Callers \ {c} : ops'[d] = ops[d]
      BY <2>1, <2>2, OthersStay DEF TypesInv
    <2>4. QED
      BY <1>3, <1>4, <1>5, <1>6, <1>8, <2>1, <2>2, <2>3
  <1>9. QED
    BY <1>7, <1>8

LEMMA TellOp ==
  ASSUME TypesInv, NEW c \in Callers, Tell(c)
  PROVE  /\ ops' \in [Callers -> Operations]
         /\ \A d \in Callers \ {c} : ops'[d] = ops[d]
         /\ ops'[c].phase = "use" /\ ops'[c].news = {} /\ ops'[c].seen = ops[c].seen
  <1> DEFINE op == [ops[c] EXCEPT !.phase = "use", !.news = {}]
  <1>1. ops[c] \in Operations
    BY DEF TypesInv
  <1>2. op \in Operations /\ op.phase = "use" /\ op.news = {} /\ op.seen = ops[c].seen
    BY <1>1 DEF Operations
  <1>3. ops' = [ops EXCEPT ![c] = op]
    BY DEF Tell
  <1> HIDE DEF op
  <1>4. QED
    BY <1>2, <1>3, OthersStay DEF TypesInv

LEMMA RenewOp ==
  ASSUME TypesInv, NEW c \in Callers, Renew(c)
  PROVE  \E f \in DOMAIN ops[c].originals :
           /\ f \in Files /\ ops[c].originals[f] \in Contents
           /\ disk' \in [Files -> Contents \cup {Absent, Broken}]
           /\ \A g \in Files \ {f} : disk'[g] = disk[g]
           /\ disk'[f] \in Contents /\ disk'[f].account = ops[c].originals[f].account
           /\ disk'[f].token = issued + 1 /\ disk'[f].disabled = ops[c].originals[f].disabled
           /\ issued' = issued + 1 /\ issued' \in 1 .. MaxIssued
  <1>1. PICK f \in DOMAIN ops[c].originals :
          disk' = [disk EXCEPT ![f] = [ops[c].originals[f] EXCEPT !.token = issued + 1]]
    BY DEF Renew
  <1>2. f \in Files /\ ops[c].originals[f] \in Contents
    BY <1>1, OperationFields DEF TypesInv
  <1> DEFINE written == [ops[c].originals[f] EXCEPT !.token = issued + 1]
  <1>3. issued + 1 \in 1 .. MaxIssued /\ issued' = issued + 1
    BY PoolAssumption DEF Renew, TypesInv
  <1>4. /\ written \in Contents /\ written.account = ops[c].originals[f].account
        /\ written.token = issued + 1 /\ written.disabled = ops[c].originals[f].disabled
    BY <1>2, <1>3 DEF Contents
  <1>5. disk' = [disk EXCEPT ![f] = written]
    BY <1>1
  <1> HIDE DEF written
  <1>6. QED
    BY <1>2, <1>3, <1>4, <1>5 DEF TypesInv

LEMMA EditOp ==
  ASSUME TypesInv, NEW f \in Files, NEW content \in Edits(f), Edit(f, content)
  PROVE  /\ content \in Contents \cup {Absent, Broken}
         /\ disk' \in [Files -> Contents \cup {Absent, Broken}]
         /\ \A g \in Files \ {f} : disk'[g] = disk[g]
         /\ disk'[f] = content
         /\ issued' \in 1 .. MaxIssued /\ issued <= issued'
         /\ content \notin {Absent, Broken} => content.token <= issued'
  <1>1. content \in Contents \cup {Absent, Broken}
    BY DEF Edits
  <1>2. content \in Contents => content.token \in 1 .. MaxIssued
    BY DEF Contents
  <1>3. content \notin {Absent, Broken} => content \in Contents
    BY <1>1
  <1>4. QED
    BY <1>1, <1>2, <1>3, PoolAssumption DEF Edit, TypesInv

LEMMA FirstScan ==
  ASSUME disk \in [Files -> Contents \cup {Absent, Broken}]
  PROVE  /\ FirstSeen \in [Files -> Entries \cup {NoFile}]
         /\ \A f \in Files :
              /\ Readable(f) => /\ disk[f] \in Contents /\ FirstSeen[f] # NoFile
                                /\ FirstSeen[f].auth = disk[f] /\ FirstSeen[f].parse = "ok"
              /\ ~Readable(f) => FirstSeen[f] = NoFile
         /\ Served(FirstSeen) = {f \in Files : Readable(f)}
  <1>1. ASSUME NEW f \in Files
        PROVE  /\ FirstSeen[f] \in Entries \cup {NoFile}
               /\ Readable(f) => /\ disk[f] \in Contents /\ FirstSeen[f] # NoFile
                                 /\ FirstSeen[f].auth = disk[f]
                                 /\ FirstSeen[f].parse = "ok"
               /\ ~Readable(f) => FirstSeen[f] = NoFile
    <2>1. CASE Readable(f)
      <3>1. disk[f] \in Contents
        BY <2>1 DEF Readable
      <3>2. FirstSeen[f] = [auth |-> disk[f], parse |-> "ok"]
        BY <2>1 DEF FirstSeen
      <3>3. FirstSeen[f] \in Entries
        BY <3>1, <3>2 DEF Entries
      <3>4. QED
        BY <2>1, <3>1, <3>2, <3>3, PoolAssumption
    <2>2. CASE ~Readable(f)
      BY <2>2 DEF FirstSeen
    <2>3. QED
      BY <2>1, <2>2
  <1>2. FirstSeen \in [Files -> Entries \cup {NoFile}]
    BY <1>1 DEF FirstSeen
  <1>3. \A f \in Files : f \in Served(FirstSeen) <=> Readable(f)
    BY <1>1 DEF Served
  <1>4. Served(FirstSeen) \subseteq Files
    BY DEF Served
  <1>5. QED
    BY <1>1, <1>2, <1>3, <1>4

-----------------------------------------------------------------------------
LEMMA TypesInit == PoolInit => TypesInv /\ LockInv /\ PhaseInv
  <1> SUFFICES ASSUME PoolInit PROVE TypesInv /\ LockInv /\ PhaseInv
    OBVIOUS
  <1>1. disk \in [Files -> Contents \cup {Absent, Broken}]
    <2>1. Initial \subseteq Contents \cup {Absent, Broken}
      <3>1. 1 \in 1 .. MaxIssued
        BY PoolAssumption
      <3>2. QED
        BY <3>1, PoolAssumption DEF Contents
    <2>2. QED
      BY <2>1 DEF PoolInit
  <1>2. /\ FirstSeen \in [Files -> Entries \cup {NoFile}]
        /\ Served(FirstSeen) \subseteq Files /\ DOMAIN Grouped(FirstSeen) \subseteq Ids
    BY <1>1, FirstScan, GroupedSources
  <1>3. standing \in [Accounts -> BOOLEAN]
    BY DEF PoolInit
  <1>4. TypesInv
    BY <1>1, <1>2, <1>3, IdleOpFields, PoolAssumption DEF PoolInit, TypesInv
  <1>5. \A c \in Callers : ops[c] = IdleOp
    BY DEF PoolInit
  <1>6. LockInv
    BY <1>5, IdleOpFields, PoolAssumption DEF PoolInit, LockInv, Holding
  <1>7. PhaseInv
    BY <1>5, IdleOpFields DEF PhaseInv, PhaseOK, At, Scanning
  <1>8. QED
    BY <1>4, <1>6, <1>7

LEMMA TypesStep ==
  ASSUME TypesInv, PhaseInv, [PoolNext]_poolVars
  PROVE  TypesInv'
  <1>1. ASSUME NEW c \in Callers, Begins(c)
        PROVE  TypesInv'
    BY <1>1, BeginsOp DEF TypesInv, storeVars, historyVars
  <1>2. ASSUME NEW c \in Callers, ReadFile(c)
        PROVE  TypesInv'
    BY <1>2, ReadFileOp DEF ReadFile, TypesInv, storeVars, historyVars
  <1>3. ASSUME NEW c \in Callers, ScanFails(c) \/ CheckFails(c) \/ RenewNothing(c)
        PROVE  TypesInv'
    BY <1>3, LeaveOp DEF ScanFails, CheckFails, RenewNothing, Leave, TypesInv, storeVars, historyVars
  <1>4. ASSUME NEW c \in Callers, Publish(c)
        PROVE  TypesInv'
    <2>1. /\ ops' \in [Callers -> Operations] /\ files' \in [Files -> Entries \cup {NoFile}]
          /\ auths' = Grouped(files') /\ files' = ops[c].seen
          /\ lock' \in Callers \cup {NoCaller}
      BY <1>4, PublishOp DEF TypesInv
    <2>2. DOMAIN auths' \subseteq Ids /\ Served(files') \subseteq Files
      BY <2>1, GroupedSources
    <2>3. steady' \subseteq Files
      BY <1>4, <2>1, <2>2 DEF Publish, TypesInv
    <2>4. QED
      BY <1>4, <2>1, <2>2, <2>3 DEF Publish, TypesInv
  <1>5. ASSUME NEW c \in Callers, CheckSource(c)
        PROVE  TypesInv'
    BY <1>5, CheckSourceOp DEF CheckSource, TypesInv, storeVars, historyVars
  <1>6. ASSUME NEW c \in Callers, SaveSource(c)
        PROVE  TypesInv'
    <2>1. /\ disk' \in [Files -> Contents \cup {Absent, Broken}] /\ ops' \in [Callers -> Operations]
          /\ standing' = [standing EXCEPT ![ops[c].id] = ops[c].flag] \/ standing' = standing
      BY <1>6, SaveSourceOp
    <2>2. ops[c].flag \in BOOLEAN
      BY OperationFields DEF TypesInv
    <2>3. standing' \in [Accounts -> BOOLEAN]
      BY <2>1, <2>2 DEF TypesInv
    <2>4. QED
      BY <1>6, <2>1, <2>3 DEF SaveSource, TypesInv, storeVars
  <1>7. ASSUME NEW c \in Callers, SaveFails(c)
        PROVE  TypesInv'
    <2>1. ops' \in [Callers -> Operations] /\ lock' \in Callers \cup {NoCaller}
      BY <1>7, SaveFailsOp, LeaveOp DEF TypesInv
    <2>2. QED
      BY <1>7, <2>1 DEF SaveFails, TypesInv, storeVars, historyVars
  <1>8. ASSUME NEW c \in Callers, PutBack(c)
        PROVE  TypesInv'
    <2>1. /\ ops' \in [Callers -> Operations] /\ lock' \in Callers \cup {NoCaller}
          /\ disk' \in [Files -> Contents \cup {Absent, Broken}]
      BY <1>8, PutBackOp, LeaveOp DEF TypesInv
    <2>2. QED
      BY <1>8, <2>1 DEF PutBack, TypesInv, storeVars
  <1>9. ASSUME NEW c \in Callers, Renew(c)
        PROVE  TypesInv'
    <2>1. disk' \in [Files -> Contents \cup {Absent, Broken}] /\ issued' \in 1 .. MaxIssued
      BY <1>9, RenewOp
    <2>2. QED
      BY <1>9, <2>1, LeaveOp DEF Renew, Leave, TypesInv, storeVars, historyVars
  <1>10. ASSUME NEW c \in Callers, Tell(c)
         PROVE  TypesInv'
    BY <1>10, TellOp DEF Tell, TypesInv, storeVars
  <1>11. ASSUME NEW c \in Callers, TellFails(c) \/ UseNothing(c) \/ \E i \in Ids : UseAuth(c, i)
         PROVE  TypesInv'
    <2>1. ops' = [ops EXCEPT ![c] = IdleOp]
          /\ UNCHANGED <<disk, storeVars, lock, issued, edits, standing, steady>>
      BY <1>11 DEF TellFails, UseNothing, UseAuth, historyVars
    <2>2. QED
      BY <2>1, LeaveOp DEF TypesInv, storeVars
  <1>12. ASSUME NEW f \in Files, GraceEnds(f)
         PROVE  TypesInv'
    <2>1. files[f] \in Entries /\ files' = [files EXCEPT ![f].parse = "over"]
      BY <1>12 DEF GraceEnds, TypesInv
    <2>2. [files[f] EXCEPT !.parse = "over"] \in Entries
      BY <2>1 DEF Entries
    <2>3. files' \in [Files -> Entries \cup {NoFile}]
      BY <2>1, <2>2 DEF TypesInv
    <2>4. QED
      BY <1>12, <2>3 DEF GraceEnds, TypesInv
  <1>13. ASSUME NEW f \in Files, NEW content \in Edits(f), Edit(f, content)
         PROVE  TypesInv'
    <2>1. disk' \in [Files -> Contents \cup {Absent, Broken}] /\ issued' \in 1 .. MaxIssued
      BY <1>13, EditOp
    <2>2. steady' \subseteq steady
      BY <1>13 DEF Edit
    <2>3. QED
      BY <1>13, <2>1, <2>2 DEF Edit, TypesInv, storeVars
  <1>14. CASE Restart
    <2>1. FirstSeen \in [Files -> Entries \cup {NoFile}] /\ Served(FirstSeen) \subseteq Files
      BY FirstScan DEF TypesInv
    <2>2. DOMAIN Grouped(FirstSeen) \subseteq Ids
      BY <2>1, GroupedSources
    <2>3. ops' \in [Callers -> Operations]
      BY <1>14, IdleOpFields DEF Restart
    <2>4. QED
      BY <1>14, <2>1, <2>2, <2>3 DEF Restart, TypesInv
  <1>15. CASE UNCHANGED poolVars
    BY <1>15 DEF poolVars, storeVars, historyVars, TypesInv
  <1>16. QED
    BY <1>1, <1>2, <1>3, <1>4, <1>5, <1>6, <1>7, <1>8, <1>9, <1>10, <1>11, <1>12, <1>13, <1>14, <1>15
       DEF PoolNext, Around, Step, Begins

LEMMA PhaseOKStays ==
  ASSUME NEW c, ops'[c] = ops[c], PhaseOK(c)
  PROVE  PhaseOK(c)'
  BY DEF PhaseOK, At, Scanning, Unsaved

LEMMA IdleIsOK ==
  ASSUME NEW c, ops'[c] = IdleOp
  PROVE  PhaseOK(c)'
  BY IdleOpFields DEF PhaseOK, At, Scanning, Unsaved

LEMMA PhaseStep ==
  ASSUME TypesInv, PhaseInv, [PoolNext]_poolVars
  PROVE  PhaseInv'
  <1> USE PhaseOKStays DEF PhaseInv
  <1>1. ASSUME NEW c \in Callers, Begins(c)
        PROVE  PhaseInv'
    <2>1. PhaseOK(c)'
      BY <1>1, BeginsOp DEF PhaseOK, At, Scanning, Unsaved
    <2>2. QED
      BY <1>1, <2>1, BeginsOp
  <1>2. ASSUME NEW c \in Callers, ReadFile(c)
        PROVE  PhaseInv'
    <2>1. Scanning(c)
      BY <1>2 DEF ReadFile
    <2>2. PhaseOK(c)'
      BY <1>2, <2>1, ReadFileOp, ZenonT(30) DEF PhaseOK, At, Scanning, Unsaved
    <2>3. \A d \in Callers \ {c} : ops'[d] = ops[d]
      BY <1>2, ReadFileOp
    <2>4. QED
      BY <2>2, <2>3
  <1>3. ASSUME NEW c \in Callers, ops' = [ops EXCEPT ![c] = IdleOp]
        PROVE  PhaseInv'
    BY <1>3, LeaveOp, IdleIsOK
  <1>4. ASSUME NEW c \in Callers, Publish(c)
        PROVE  PhaseInv'
    <2>1. PhaseOK(c)'
      <3> DEFINE seen == ops[c].seen
                 sources == auths'[ops[c].id].sources
      <3>1. seen \in [Files -> Entries \cup {NoFile}] /\ auths' = Grouped(seen)
            /\ ops'[c].seen = NothingSeen
        BY <1>4, PublishOp
      <3>2. CASE ops'[c].phase = "tell"
        BY <3>1, <3>2 DEF PhaseOK, At, Scanning
      <3>3. CASE /\ ops'[c].phase = "check" /\ ops'[c].id = ops[c].id /\ ops[c].id \in Accounts
                 /\ ops[c].id \in DOMAIN auths' /\ ops'[c].left = sources
                 /\ ops'[c].originals = <<>> /\ ops'[c].done = {} /\ ops'[c].news = {}
        <4>1. sources # {}
          BY <3>1, <3>3, GroupedSources
        <4>2. DOMAIN ops'[c].originals = {}
          BY <3>3
        <4>3. QED
          BY <3>1, <3>3, <4>1, <4>2 DEF PhaseOK, At, Scanning
      <3>4. CASE ops'[c].phase = "renew" /\ ops'[c].news = {}
        BY <3>1, <3>4 DEF PhaseOK, At, Scanning
      <3>5. CASE ops'[c] = IdleOp
        BY <3>5, IdleIsOK
      <3>6. QED
        BY <1>4, <3>2, <3>3, <3>4, <3>5, PublishOp
    <2>2. QED
      BY <1>4, <2>1, PublishOp
  <1>5. ASSUME NEW c \in Callers, CheckSource(c)
        PROVE  PhaseInv'
    <2>1. At(c, "check") /\ PhaseOK(c)
      BY <1>5 DEF CheckSource
    <2>2. PhaseOK(c)'
      BY <1>5, <2>1, CheckSourceOp, SMTT(30) DEF PhaseOK, At, Scanning, Unsaved
    <2>3. QED
      BY <1>5, <2>2, CheckSourceOp
  <1>6. ASSUME NEW c \in Callers, SaveSource(c)
        PROVE  PhaseInv'
    <2>1. At(c, "save") /\ PhaseOK(c)
      BY <1>6 DEF SaveSource
    <2>2. PhaseOK(c)'
      BY <1>6, <2>1, SaveSourceOp DEF PhaseOK, At, Scanning, Unsaved
    <2>3. QED
      BY <1>6, <2>2, SaveSourceOp
  <1>7. ASSUME NEW c \in Callers, SaveFails(c)
        PROVE  PhaseInv'
    <2>1. At(c, "save") /\ PhaseOK(c)
      BY <1>7 DEF SaveFails
    <2>2. CASE ops' = [ops EXCEPT ![c] = IdleOp]
      BY <2>2, <1>3
    <2>3. CASE ops' # [ops EXCEPT ![c] = IdleOp]
      <3>1. PhaseOK(c)'
        BY <1>7, <2>1, <2>3, SaveFailsOp DEF PhaseOK, At, Scanning, Unsaved
      <3>2. QED
        BY <1>7, <2>3, <3>1, SaveFailsOp
    <2>4. QED
      BY <2>2, <2>3
  <1>8. ASSUME NEW c \in Callers, PutBack(c)
        PROVE  PhaseInv'
    <2>1. At(c, "undo") /\ PhaseOK(c)
      BY <1>8 DEF PutBack
    <2>2. CASE ops' = [ops EXCEPT ![c] = IdleOp]
      BY <2>2, <1>3
    <2>3. CASE ops' # [ops EXCEPT ![c] = IdleOp]
      <3>1. PhaseOK(c)'
        BY <1>8, <2>1, <2>3, PutBackOp DEF PhaseOK, At, Scanning, Unsaved
      <3>2. QED
        BY <1>8, <2>3, <3>1, PutBackOp
    <2>4. QED
      BY <2>2, <2>3
  <1>9. ASSUME NEW c \in Callers, Tell(c)
        PROVE  PhaseInv'
    <2>1. At(c, "tell") /\ PhaseOK(c)
      BY <1>9 DEF Tell
    <2>2. PhaseOK(c)'
      BY <1>9, <2>1, TellOp DEF PhaseOK, At, Scanning
    <2>3. QED
      BY <1>9, <2>2, TellOp
  <1>10. ASSUME NEW c \in Callers,
                \/ ScanFails(c) \/ CheckFails(c) \/ RenewNothing(c) \/ Renew(c)
                \/ TellFails(c) \/ UseNothing(c) \/ \E i \in Ids : UseAuth(c, i)
         PROVE  PhaseInv'
    <2>1. ops' = [ops EXCEPT ![c] = IdleOp]
      BY <1>10 DEF ScanFails, CheckFails, RenewNothing, Renew, Leave, TellFails, UseNothing, UseAuth
    <2>2. QED
      BY <2>1, <1>3
  <1>11. CASE Restart
    <2>1. \A c \in Callers : ops'[c] = IdleOp
      BY <1>11 DEF Restart
    <2>2. QED
      BY <2>1, IdleIsOK
  <1>12. CASE UNCHANGED ops
    BY <1>12
  <1>13. ASSUME NEW f \in Files, GraceEnds(f) \/ \E content \in Edits(f) : Edit(f, content)
         PROVE  PhaseInv'
    BY <1>12, <1>13 DEF GraceEnds, Edit
  <1>14. CASE UNCHANGED poolVars
    BY <1>12, <1>14 DEF poolVars
  <1>15. QED
    BY <1>1, <1>2, <1>4, <1>5, <1>6, <1>7, <1>8, <1>9, <1>10, <1>11, <1>13, <1>14
       DEF PoolNext, Around, Step, Begins

(* mutationMu: who holds it is in one of the phases under it.                 *)
LEMMA LockStep ==
  ASSUME TypesInv, LockInv, PhaseInv, [PoolNext]_poolVars
  PROVE  LockInv'
  <1> USE PoolAssumption DEF LockInv
  <1>1. ASSUME NEW c \in Callers, Begins(c)
        PROVE  LockInv'
    <2>1. \A d \in Callers : ops[d].phase \notin Holding
      BY <1>1, BeginsOp
    <2>2. ops'[c].phase \in Holding
      BY <1>1, BeginsOp DEF Holding
    <2>3. QED
      BY <1>1, <2>1, <2>2, BeginsOp
  <1>2. ASSUME NEW c \in Callers, lock' = lock,
               \A d \in Callers \ {c} : ops'[d] = ops[d],
               ops'[c].phase \in Holding <=> ops[c].phase \in Holding
        PROVE  LockInv'
    BY <1>2
  <1>3. ASSUME NEW c \in Callers, ops[c].phase \in Holding, lock' = NoCaller,
               \A d \in Callers \ {c} : ops'[d] = ops[d], ops'[c].phase \notin Holding
        PROVE  LockInv'
    BY <1>3
  <1>4. ASSUME NEW c \in Callers, ops[c].phase \in Holding, ops' = [ops EXCEPT ![c] = IdleOp],
               lock' = NoCaller
        PROVE  LockInv'
    BY <1>3, <1>4, LeaveOp, IdleOpFields DEF Holding
  <1>5. ASSUME NEW c \in Callers, ScanFails(c) \/ CheckFails(c) \/ RenewNothing(c) \/ Renew(c)
        PROVE  LockInv'
    BY <1>4, <1>5 DEF ScanFails, CheckFails, RenewNothing, Renew, Leave, Scanning, At, Holding
  <1>6. ASSUME NEW c \in Callers, ReadFile(c)
        PROVE  LockInv'
    BY <1>2, <1>6, ReadFileOp DEF ReadFile
  <1>7. ASSUME NEW c \in Callers, Publish(c)
        PROVE  LockInv'
    <2>1. ops[c].phase \in Holding
      BY <1>7, PublishOp DEF Scanning, At, Holding
    <2>2. \/ lock' = lock /\ ops'[c].phase \in Holding
          \/ lock' = NoCaller /\ ops'[c].phase \notin Holding
      BY <1>7, PublishOp, IdleOpFields DEF Holding
    <2>3. QED
      BY <1>2, <1>3, <1>7, <2>1, <2>2, PublishOp
  <1>8. ASSUME NEW c \in Callers, CheckSource(c)
        PROVE  LockInv'
    <2>1. ops[c].phase \in Holding /\ ops'[c].phase \in Holding
      BY <1>8, CheckSourceOp, ZenonT(60) DEF CheckSource, At, Holding
    <2>2. QED
      BY <1>2, <1>8, <2>1, CheckSourceOp, ZenonT(30) DEF CheckSource
  <1>9. ASSUME NEW c \in Callers, SaveSource(c)
        PROVE  LockInv'
    <2>1. ops[c].phase \in Holding /\ ops'[c].phase \in Holding
      BY <1>9, SaveSourceOp, ZenonT(30) DEF SaveSource, At, Holding
    <2>2. QED
      BY <1>2, <1>9, <2>1, SaveSourceOp, ZenonT(30) DEF SaveSource
  <1>10. ASSUME NEW c \in Callers, SaveFails(c)
         PROVE  LockInv'
    <2>1. ops[c].phase \in Holding
      BY <1>10 DEF SaveFails, At, Holding
    <2>2. CASE ops' = [ops EXCEPT ![c] = IdleOp] /\ lock' = NoCaller
      BY <1>4, <2>1, <2>2
    <2>3. CASE ~(ops' = [ops EXCEPT ![c] = IdleOp] /\ lock' = NoCaller)
      <3>1. lock' = lock /\ ops'[c].phase \in Holding
        BY <1>10, <2>3, SaveFailsOp DEF Holding
      <3>2. QED
        BY <1>2, <1>10, <2>1, <2>3, <3>1, SaveFailsOp
    <2>4. QED
      BY <2>2, <2>3
  <1>11. ASSUME NEW c \in Callers, PutBack(c)
         PROVE  LockInv'
    <2>1. ops[c].phase \in Holding
      BY <1>11 DEF PutBack, At, Holding
    <2>2. CASE ops' = [ops EXCEPT ![c] = IdleOp] /\ lock' = NoCaller
      BY <1>4, <2>1, <2>2
    <2>3. CASE ~(ops' = [ops EXCEPT ![c] = IdleOp] /\ lock' = NoCaller)
      <3>1. lock' = lock /\ ops'[c].phase \in Holding
        BY <1>11, <2>3, PutBackOp DEF Holding
      <3>2. QED
        BY <1>2, <1>11, <2>1, <2>3, <3>1, PutBackOp
    <2>4. QED
      BY <2>2, <2>3
  <1>12. ASSUME NEW c \in Callers, Tell(c)
         PROVE  LockInv'
    <2>1. ops[c].phase \notin Holding /\ ops'[c].phase \notin Holding
      BY <1>12, TellOp DEF Tell, At, Holding
    <2>2. QED
      BY <1>2, <1>12, <2>1, TellOp DEF Tell
  <1>13. ASSUME NEW c \in Callers, TellFails(c) \/ UseNothing(c) \/ \E i \in Ids : UseAuth(c, i)
         PROVE  LockInv'
    <2>1. ops' = [ops EXCEPT ![c] = IdleOp] /\ lock' = lock /\ ops[c].phase \notin Holding
      BY <1>13 DEF TellFails, UseNothing, UseAuth, At, Holding
    <2>2. ops'[c].phase \notin Holding
      BY <2>1, LeaveOp, IdleOpFields DEF Holding
    <2>3. QED
      BY <1>2, <2>1, <2>2, LeaveOp
  <1>14. CASE Restart
    <2>1. \A c \in Callers : ops'[c].phase \notin Holding
      BY <1>14, IdleOpFields DEF Restart, Holding
    <2>2. QED
      BY <1>14, <2>1 DEF Restart
  <1>15. CASE UNCHANGED <<ops, lock>>
    BY <1>15
  <1>16. ASSUME NEW f \in Files, GraceEnds(f) \/ \E content \in Edits(f) : Edit(f, content)
         PROVE  LockInv'
    BY <1>15, <1>16 DEF GraceEnds, Edit
  <1>17. CASE UNCHANGED poolVars
    BY <1>15, <1>17 DEF poolVars
  <1>18. QED
    BY <1>1, <1>5, <1>6, <1>7, <1>8, <1>9, <1>10, <1>11, <1>12, <1>13, <1>14, <1>16, <1>17
       DEF PoolNext, Around, Step, Begins

-----------------------------------------------------------------------------
(* Removals.                                                                  *)

News == UNION {ops[c].news : c \in Callers}

LEMMA NewsStay ==
  ASSUME NEW c \in Callers, \A d \in Callers \ {c} : ops'[d] = ops[d]
  PROVE  /\ \A i \in News : i \in News' \/ i \in ops[c].news
         /\ \A i \in ops'[c].news : i \in News'
  BY DEF News

LEMMA RemovalsStep ==
  ASSUME TypesInv, PhaseInv, RemovalsHeard, [PoolNext]_poolVars
  PROVE  RemovalsHeard'
  <1>0. /\ kept \subseteq DOMAIN auths \cup unheard \cup News
        /\ kept' \subseteq DOMAIN auths' \cup unheard' \cup News' => RemovalsHeard'
    BY DEF RemovalsHeard, News
  <1>1. ASSUME NEW c \in Callers, \A d \in Callers \ {c} : ops'[d] = ops[d], ops[c].news = {},
               UNCHANGED <<kept, auths, unheard>>
        PROVE  RemovalsHeard'
    BY <1>0, <1>1, NewsStay
  <1>2. ASSUME NEW c \in Callers, UNCHANGED <<kept, auths, unheard>>, ops[c].phase # "tell",
               ops' = [ops EXCEPT ![c] = IdleOp]
        PROVE  RemovalsHeard'
    BY <1>1, <1>2, LeaveOp DEF PhaseInv, PhaseOK, At
  <1>3. ASSUME NEW c \in Callers, Begins(c)
        PROVE  RemovalsHeard'
    <2>1. ops[c].news = {} /\ UNCHANGED <<kept, auths, unheard>>
      BY <1>3, BeginsOp DEF PhaseInv, PhaseOK, At, historyVars, storeVars
    <2>2. QED
      BY <1>1, <1>3, <2>1, BeginsOp
  <1>4. ASSUME NEW c \in Callers, ScanFails(c) \/ CheckFails(c) \/ RenewNothing(c) \/ Renew(c)
        PROVE  RemovalsHeard'
    BY <1>2, <1>4 DEF ScanFails, CheckFails, RenewNothing, Renew, Leave, Scanning, At, historyVars, storeVars
  <1>5. ASSUME NEW c \in Callers, ReadFile(c)
        PROVE  RemovalsHeard'
    <2>1. ops[c].news = {} /\ UNCHANGED <<kept, auths, unheard>>
      BY <1>5 DEF ReadFile, Scanning, PhaseInv, PhaseOK, At, historyVars, storeVars
    <2>2. \A d \in Callers \ {c} : ops'[d] = ops[d]
      BY <1>5, ReadFileOp
    <2>3. QED
      BY <1>1, <2>1, <2>2
  <1>6. ASSUME NEW c \in Callers, Publish(c)
        PROVE  RemovalsHeard'
    <2>1. ops[c].news = {} /\ \A d \in Callers \ {c} : ops'[d] = ops[d]
      BY <1>6, PublishOp DEF Scanning, PhaseInv, PhaseOK, At
    <2>2. /\ kept' = kept
          /\ unheard' = (IF ops'[c].phase = "tell" THEN unheard
                         ELSE unheard \cup (kept \cap DOMAIN auths)) \ DOMAIN auths'
      <3>1. ops'[c] = Continued(c, Grouped(ops[c].seen))
        BY <1>6 DEF Publish, TypesInv
      <3>2. QED
        BY <1>6, <3>1 DEF Publish
    <2>3. ops'[c].phase = "tell" => ops'[c].news = DOMAIN auths \ DOMAIN auths'
      BY <1>6, PublishOp, IdleOpFields DEF Removed
    <2>4. ASSUME NEW i \in kept
          PROVE  i \in DOMAIN auths' \cup unheard' \cup News'
      <3>1. CASE i \in News
        BY <2>1, <3>1, NewsStay
      <3>2. CASE i \in DOMAIN auths /\ i \notin DOMAIN auths'
        BY <2>1, <2>2, <2>3, <2>4, <3>2, NewsStay
      <3>3. CASE i \in unheard /\ i \notin DOMAIN auths'
        BY <2>2, <3>3
      <3>4. QED
        BY <1>0, <2>4, <3>1, <3>2, <3>3
    <2>5. QED
      BY <1>0, <2>2, <2>4
  <1>7. ASSUME NEW c \in Callers, CheckSource(c)
        PROVE  RemovalsHeard'
    <2>1. ops[c].news = {} /\ UNCHANGED <<kept, auths, unheard>>
      BY <1>7 DEF CheckSource, PhaseInv, PhaseOK, At, historyVars, storeVars
    <2>2. \A d \in Callers \ {c} : ops'[d] = ops[d]
      BY <1>7, CheckSourceOp
    <2>3. QED
      BY <1>1, <2>1, <2>2
  <1>8. ASSUME NEW c \in Callers, SaveSource(c)
        PROVE  RemovalsHeard'
    <2>1. ops[c].news = {} /\ UNCHANGED <<kept, auths, unheard>>
      BY <1>8 DEF SaveSource, PhaseInv, PhaseOK, At, storeVars
    <2>2. \A d \in Callers \ {c} : ops'[d] = ops[d]
      BY <1>8, SaveSourceOp
    <2>3. QED
      BY <1>1, <2>1, <2>2
  <1>9. ASSUME NEW c \in Callers, SaveFails(c) \/ PutBack(c)
        PROVE  RemovalsHeard'
    <2>1. ops[c].news = {} /\ UNCHANGED <<kept, auths, unheard>>
      BY <1>9 DEF SaveFails, PutBack, PhaseInv, PhaseOK, At, historyVars, storeVars
    <2>2. \A d \in Callers \ {c} : ops'[d] = ops[d]
      BY <1>9, SaveFailsOp, PutBackOp, LeaveOp
    <2>3. QED
      BY <1>1, <2>1, <2>2
  <1>10. ASSUME NEW c \in Callers, Tell(c)
         PROVE  RemovalsHeard'
    <2>1. \A d \in Callers \ {c} : ops'[d] = ops[d]
      BY <1>10, TellOp
    <2>2. kept' = kept \ ops[c].news /\ unheard' = unheard \ ops[c].news /\ auths' = auths
      BY <1>10 DEF Tell, storeVars
    <2>3. QED
      BY <1>0, <2>1, <2>2, NewsStay
  <1>11. ASSUME NEW c \in Callers, TellFails(c)
         PROVE  RemovalsHeard'
    <2>1. \A d \in Callers \ {c} : ops'[d] = ops[d]
      BY <1>11, LeaveOp DEF TellFails
    <2>2. kept' = kept /\ unheard' = unheard \cup ((kept \cap ops[c].news) \ DOMAIN auths) /\ auths' = auths
      BY <1>11 DEF TellFails, storeVars
    <2>3. QED
      BY <1>0, <2>1, <2>2, NewsStay
  <1>12. ASSUME NEW c \in Callers, NEW i \in Ids, UseAuth(c, i)
         PROVE  RemovalsHeard'
    <2>1. ops[c].news = {} /\ \A d \in Callers \ {c} : ops'[d] = ops[d]
      BY <1>12, LeaveOp DEF UseAuth, PhaseInv, PhaseOK, At
    <2>2. /\ kept' = kept \cup {i} /\ auths' = auths
          /\ unheard' = IF i \in DOMAIN auths THEN unheard ELSE unheard \cup {i}
      BY <1>12 DEF UseAuth, storeVars
    <2>3. QED
      BY <1>0, <2>1, <2>2, NewsStay
  <1>13. ASSUME NEW c \in Callers, UseNothing(c)
         PROVE  RemovalsHeard'
    BY <1>2, <1>13 DEF UseNothing, At, historyVars, storeVars
  <1>14. CASE Restart
    BY <1>14 DEF Restart, RemovalsHeard
  <1>15. CASE UNCHANGED <<kept, auths, unheard, ops>>
    BY <1>0, <1>15 DEF News
  <1>16. ASSUME NEW f \in Files, GraceEnds(f) \/ \E content \in Edits(f) : Edit(f, content)
         PROVE  RemovalsHeard'
    BY <1>15, <1>16 DEF GraceEnds, Edit, storeVars
  <1>17. CASE UNCHANGED poolVars
    BY <1>15, <1>17 DEF poolVars, storeVars, historyVars
  <1>18. QED
    BY <1>3, <1>4, <1>5, <1>6, <1>7, <1>8, <1>9, <1>10, <1>11, <1>12, <1>13, <1>14, <1>16, <1>17
       DEF PoolNext, Around, Step, Begins

(* What is kept for an auth that is gone will be dropped by the reconcile     *)
(* that saw it go (reconcileAuths), whatever the other callers do.            *)
THEOREM RemovalsAreHeard == PoolSpec => []RemovalsHeard
  <1>1. PoolInit => TypesInv /\ PhaseInv /\ RemovalsHeard
    BY TypesInit DEF PoolInit, RemovalsHeard
  <1>2. TypesInv /\ PhaseInv /\ RemovalsHeard /\ [PoolNext]_poolVars
          => (TypesInv /\ PhaseInv /\ RemovalsHeard)'
    BY TypesStep, PhaseStep, RemovalsStep
  <1>3. QED
    BY <1>1, <1>2, PTL DEF PoolSpec

-----------------------------------------------------------------------------
(* The grace of a broken file.                                                *)

(* The sources of an operation are files of the account they had in the scan. *)
SourcesOK(c) ==
  /\ At(c, "check") =>
       \A f \in ops[c].left : files[f] # NoFile /\ files[f].auth.account = ops[c].id
  /\ ops[c].phase \in Sourced =>
       \A f \in DOMAIN ops[c].originals :
         files[f] # NoFile /\ files[f].auth.account = ops[c].originals[f].account

SourcesInv == \A c \in Callers : SourcesOK(c)

(* A scan that has read a steady file has found the same auth in it.          *)
ScanOK(c) ==
  Scanning(c) => \A f \in steady \ ops[c].left :
                   /\ f \in Served(ops[c].seen)
                   /\ ops[c].seen[f].auth.account = files[f].auth.account

GraceInv ==
  /\ GraceServes
  /\ \A f \in steady :
       disk[f] = Broken \/ (Readable(f) /\ disk[f].account = files[f].auth.account)
  /\ \A c \in Callers : ScanOK(c)

LEMMA Alone ==
  ASSUME LockInv, NEW c \in Callers, ops[c].phase \in Holding
  PROVE  \A d \in Callers \ {c} : ops[d].phase \notin Holding
  BY DEF LockInv

LEMMA NotHolding ==
  ASSUME NEW c, ops[c].phase \notin Holding
  PROVE  SourcesOK(c) /\ ScanOK(c)
  BY DEF SourcesOK, ScanOK, Scanning, At, Holding, Sourced

LEMMA IdleNotHolding ==
  ASSUME NEW c, ops'[c] = IdleOp
  PROVE  (SourcesOK(c) /\ ScanOK(c))'
  BY IdleOpFields DEF SourcesOK, ScanOK, Scanning, At, Holding, Sourced

LEMMA GraceEndsFiles ==
  ASSUME TypesInv, NEW f \in Files, GraceEnds(f)
  PROVE  /\ \A g \in Files \ {f} : files'[g] = files[g]
         /\ \A g \in Files :
              /\ files'[g] # NoFile <=> files[g] # NoFile
              /\ files[g] # NoFile => files'[g].auth = files[g].auth
  <1>1. files[f] \in Entries /\ files' = [files EXCEPT ![f].parse = "over"]
    BY DEF GraceEnds, TypesInv
  <1>2. /\ [files[f] EXCEPT !.parse = "over"] \in Entries
        /\ [files[f] EXCEPT !.parse = "over"].auth = files[f].auth
    BY <1>1 DEF Entries
  <1>3. files'[f] = [files[f] EXCEPT !.parse = "over"] /\ \A g \in Files \ {f} : files'[g] = files[g]
    BY <1>1 DEF TypesInv
  <1>4. QED
    BY <1>1, <1>2, <1>3, PoolAssumption

LEMMA SourcesStep ==
  ASSUME TypesInv, LockInv, PhaseInv, SourcesInv, [PoolNext]_poolVars
  PROVE  SourcesInv'
  <1> USE DEF SourcesInv
  <1>1. ASSUME NEW c \in Callers, files' = files, \A d \in Callers \ {c} : ops'[d] = ops[d], SourcesOK(c)'
        PROVE  SourcesInv'
    BY <1>1 DEF SourcesOK, At
  <1>2. ASSUME NEW c \in Callers, files' = files, ops' = [ops EXCEPT ![c] = IdleOp]
        PROVE  SourcesInv'
    BY <1>1, <1>2, LeaveOp, IdleNotHolding
  <1>3. ASSUME NEW c \in Callers, Begins(c)
        PROVE  SourcesInv'
    <2>1. SourcesOK(c)'
      BY <1>3, BeginsOp DEF SourcesOK, At, Sourced
    <2>2. QED
      BY <1>1, <1>3, <2>1, BeginsOp DEF storeVars
  <1>4. ASSUME NEW c \in Callers, ReadFile(c)
        PROVE  SourcesInv'
    <2>1. ops'[c].phase = ops[c].phase /\ \A d \in Callers \ {c} : ops'[d] = ops[d]
      BY <1>4, ReadFileOp
    <2>2. SourcesOK(c)' /\ files' = files
      BY <1>4, <2>1 DEF ReadFile, Scanning, SourcesOK, At, Sourced, storeVars
    <2>3. QED
      BY <1>1, <2>1, <2>2
  <1>5. ASSUME NEW c \in Callers,
               \/ ScanFails(c) \/ CheckFails(c) \/ RenewNothing(c) \/ Renew(c)
               \/ TellFails(c) \/ UseNothing(c) \/ \E i \in Ids : UseAuth(c, i)
        PROVE  SourcesInv'
    <2>1. ops' = [ops EXCEPT ![c] = IdleOp] /\ files' = files
      BY <1>5 DEF ScanFails, CheckFails, RenewNothing, Renew, Leave, TellFails, UseNothing, UseAuth, storeVars
    <2>2. QED
      BY <2>1, <1>2
  <1>6. ASSUME NEW c \in Callers, Publish(c)
        PROVE  SourcesInv'
    <2> DEFINE seen == ops[c].seen
    <2>1. seen \in [Files -> Entries \cup {NoFile}] /\ files' = seen /\ auths' = Grouped(seen)
          /\ \A d \in Callers \ {c} : ops'[d] = ops[d]
      BY <1>6, PublishOp
    <2>2. \A f \in Served(seen) : seen[f] # NoFile
      BY DEF Served
    <2>3. SourcesOK(c)'
      <3>1. CASE ops'[c].phase = "check"
        <4>1. /\ ops'[c].id \in Accounts /\ ops'[c].id \in DOMAIN auths'
              /\ ops'[c].left = auths'[ops'[c].id].sources /\ ops'[c].originals = <<>>
          BY <1>6, <3>1, PublishOp, IdleOpFields
        <4>2. ops'[c].left = {f \in Served(seen) : Id(f, seen[f].auth) = ops'[c].id}
              /\ Served(seen) \subseteq Files
          BY <2>1, <4>1, GroupedSources
        <4>3. \A f \in ops'[c].left : seen[f] # NoFile /\ seen[f].auth.account = ops'[c].id
          BY <2>2, <4>1, <4>2, PoolAssumption DEF Id
        <4>4. DOMAIN ops'[c].originals = {}
          BY <4>1
        <4>5. QED
          BY <2>1, <4>3, <4>4 DEF SourcesOK
      <3>2. CASE ops'[c].phase = "renew"
        <4>1. PICK source \in Served(seen) : ops'[c].originals = [f \in {source} |-> seen[f].auth]
          BY <1>6, <3>2, PublishOp, IdleOpFields
        <4>2. QED
          BY <2>1, <2>2, <3>2, <4>1 DEF SourcesOK, At
      <3>3. CASE ops'[c].phase \notin {"check", "renew"}
        <4>1. ops'[c].phase \notin Sourced
          BY <1>6, <3>3, PublishOp, IdleOpFields DEF Sourced
        <4>2. QED
          BY <4>1 DEF SourcesOK, At, Sourced
      <3>4. QED
        BY <3>1, <3>2, <3>3
    <2>4. \A d \in Callers \ {c} : ops[d].phase \notin Holding
      BY <1>6, PublishOp, Alone DEF Scanning, At, Holding
    <2>5. ASSUME NEW d \in Callers \ {c}
          PROVE  SourcesOK(d)'
      BY <2>1, <2>4 DEF SourcesOK, At, Sourced, Holding
    <2>6. QED
      BY <2>3, <2>5
  <1>7. ASSUME NEW c \in Callers, CheckSource(c)
        PROVE  SourcesInv'
    <2>1. PICK f \in ops[c].left :
            /\ disk[f].account = ops[c].id
            /\ \A d \in Callers \ {c} : ops'[d] = ops[d]
            /\ ops'[c].left = ops[c].left \ {f}
            /\ DOMAIN ops'[c].originals = (DOMAIN ops[c].originals) \cup {f}
            /\ \A g \in DOMAIN ops'[c].originals :
                 ops'[c].originals[g] = IF g = f THEN disk[f] ELSE ops[c].originals[g]
            /\ ops'[c].id = ops[c].id
      BY <1>7, CheckSourceOp
    <2>2. files' = files /\ At(c, "check")
      BY <1>7 DEF CheckSource, storeVars
    <2>3. SourcesOK(c)'
      BY <2>1, <2>2 DEF SourcesOK, At, Sourced
    <2>4. QED
      BY <1>1, <2>1, <2>2, <2>3
  <1>8. ASSUME NEW c \in Callers, SaveSource(c)
        PROVE  SourcesInv'
    <2>1. /\ ops'[c].originals = ops[c].originals /\ ops'[c].phase \in {"save", "rescan"}
          /\ \A d \in Callers \ {c} : ops'[d] = ops[d]
      BY <1>8, SaveSourceOp
    <2>2. files' = files /\ At(c, "save")
      BY <1>8 DEF SaveSource, storeVars
    <2>3. SourcesOK(c)'
      BY <2>1, <2>2 DEF SourcesOK, At, Sourced
    <2>4. QED
      BY <1>1, <2>1, <2>2, <2>3
  <1>9. ASSUME NEW c \in Callers, SaveFails(c)
        PROVE  SourcesInv'
    <2>1. files' = files /\ At(c, "save")
      BY <1>9 DEF SaveFails, storeVars
    <2>2. CASE ops' = [ops EXCEPT ![c] = IdleOp]
      BY <1>2, <2>1, <2>2
    <2>3. CASE ops' # [ops EXCEPT ![c] = IdleOp]
      <3>1. /\ ops'[c].originals = ops[c].originals /\ ops'[c].phase = "undo"
            /\ \A d \in Callers \ {c} : ops'[d] = ops[d]
        BY <1>9, <2>3, SaveFailsOp
      <3>2. SourcesOK(c)'
        BY <2>1, <3>1 DEF SourcesOK, At, Sourced
      <3>3. QED
        BY <1>1, <2>1, <3>1, <3>2
    <2>4. QED
      BY <2>2, <2>3
  <1>10. ASSUME NEW c \in Callers, PutBack(c)
         PROVE  SourcesInv'
    <2>1. files' = files /\ At(c, "undo")
      BY <1>10 DEF PutBack, storeVars
    <2>2. CASE ops' = [ops EXCEPT ![c] = IdleOp]
      BY <1>2, <2>1, <2>2
    <2>3. CASE ops' # [ops EXCEPT ![c] = IdleOp]
      <3>1. /\ ops'[c].originals = ops[c].originals /\ ops'[c].phase = "undo"
            /\ \A d \in Callers \ {c} : ops'[d] = ops[d]
        BY <1>10, <2>3, PutBackOp
      <3>2. SourcesOK(c)'
        BY <2>1, <3>1 DEF SourcesOK, At, Sourced
      <3>3. QED
        BY <1>1, <2>1, <3>1, <3>2
    <2>4. QED
      BY <2>2, <2>3
  <1>11. ASSUME NEW c \in Callers, Tell(c)
         PROVE  SourcesInv'
    <2>1. SourcesOK(c)' /\ files' = files
      BY <1>11, TellOp DEF Tell, SourcesOK, At, Sourced, storeVars
    <2>2. QED
      BY <1>1, <1>11, <2>1, TellOp
  <1>12. ASSUME NEW f \in Files, GraceEnds(f)
         PROVE  SourcesInv'
    <2>1. ops' = ops
      BY <1>12 DEF GraceEnds
    <2>2. ASSUME NEW c \in Callers
          PROVE  SourcesOK(c)'
      <3>1. ops[c].left \subseteq Files /\ DOMAIN ops[c].originals \subseteq Files
        BY OperationFields DEF TypesInv
      <3>2. \A g \in Files : files[g] # NoFile => files'[g] # NoFile /\ files'[g].auth = files[g].auth
        BY <1>12, GraceEndsFiles
      <3>3. SourcesOK(c)
        OBVIOUS
      <3>4. At(c, "check")' => \A g \in ops[c].left :
              files'[g] # NoFile /\ files'[g].auth.account = ops[c].id
        BY <2>1, <3>1, <3>2, <3>3 DEF SourcesOK, At
      <3>5. ops[c].phase \in Sourced => \A g \in DOMAIN ops[c].originals :
              files'[g] # NoFile /\ files'[g].auth.account = ops[c].originals[g].account
        BY <3>1, <3>2, <3>3 DEF SourcesOK
      <3>6. QED
        BY <2>1, <3>4, <3>5 DEF SourcesOK
    <2>3. QED
      BY <2>2
  <1>13. CASE Restart
    BY <1>13, IdleNotHolding DEF Restart
  <1>14. CASE UNCHANGED <<files, ops>>
    BY <1>14 DEF SourcesOK, At
  <1>15. ASSUME NEW f \in Files, \E content \in Edits(f) : Edit(f, content)
         PROVE  SourcesInv'
    BY <1>14, <1>15 DEF Edit, storeVars
  <1>16. CASE UNCHANGED poolVars
    BY <1>14, <1>16 DEF poolVars, storeVars
  <1>17. QED
    BY <1>3, <1>4, <1>5, <1>6, <1>7, <1>8, <1>9, <1>10, <1>11, <1>12, <1>13, <1>15, <1>16
       DEF PoolNext, Around, Step, Begins

LEMMA ScanOKStays ==
  ASSUME NEW c, ScanOK(c), ops'[c] = ops[c], UNCHANGED <<files, steady>>
  PROVE  ScanOK(c)'
  BY DEF ScanOK, Scanning, At, Served

LEMMA NotScanning ==
  ASSUME NEW c, ~Scanning(c)'
  PROVE  ScanOK(c)'
  BY DEF ScanOK

(* A write of the store puts the account that the last scan found.            *)
LEMMA WriteKeepsSteady ==
  ASSUME TypesInv, GraceInv, NEW f \in Files, UNCHANGED <<files, auths, steady>>,
         \A g \in Files \ {f} : disk'[g] = disk[g],
         \/ disk'[f] = disk[f]
         \/ disk'[f] \in Contents /\ disk'[f].account = files[f].auth.account,
         \A c \in Callers : ScanOK(c)'
  PROVE  GraceInv'
  <1>1. GraceServes'
    BY DEF GraceInv, GraceServes, Served
  <1>2. ASSUME NEW g \in steady
        PROVE  disk'[g] = Broken \/ (Readable(g)' /\ disk'[g].account = files[g].auth.account)
    <2>1. disk[g] = Broken \/ (Readable(g) /\ disk[g].account = files[g].auth.account)
      BY DEF GraceInv
    <2>2. CASE disk'[g] = disk[g]
      BY <2>1, <2>2 DEF Readable
    <2>3. CASE g = f /\ disk'[f] \in Contents /\ disk'[f].account = files[f].auth.account
      BY <2>3, PoolAssumption DEF Readable
    <2>4. QED
      BY <2>2, <2>3 DEF TypesInv
  <1>3. QED
    BY <1>1, <1>2 DEF GraceInv

LEMMA GraceStep ==
  ASSUME TypesInv, LockInv, PhaseInv, SourcesInv, GraceInv, [PoolNext]_poolVars
  PROVE  GraceInv'
  <1>0. /\ \A f \in steady : disk[f] = Broken \/ (Readable(f) /\ disk[f].account = files[f].auth.account)
        /\ \A c \in Callers : ScanOK(c)
        /\ steady \subseteq Served(files) /\ steady \subseteq Files
        /\ \A f \in steady : Id(f, files[f].auth) \in DOMAIN auths
    BY DEF GraceInv, GraceServes, TypesInv
  <1>1. \A f \in steady : f \in Listed
    BY <1>0, PoolAssumption DEF Listed, Readable
  <1>2. ASSUME NEW c \in Callers, \A d \in Callers \ {c} : ops'[d] = ops[d], ScanOK(c)',
               UNCHANGED <<disk, files, auths, steady>>
        PROVE  GraceInv'
    <2>1. \A d \in Callers : ScanOK(d)'
      BY <1>0, <1>2, ScanOKStays
    <2>2. QED
      BY <1>0, <1>2, <2>1 DEF GraceInv, GraceServes, Served, Readable
  <1>3. ASSUME NEW c \in Callers, ops' = [ops EXCEPT ![c] = IdleOp],
               UNCHANGED <<disk, files, auths, steady>>
        PROVE  GraceInv'
    BY <1>2, <1>3, LeaveOp, IdleNotHolding
  <1>4. ASSUME NEW c \in Callers, Begins(c)
        PROVE  GraceInv'
    <2>1. ops'[c].left = Listed
      BY <1>4, BeginsOp
    <2>2. ScanOK(c)'
      BY <1>1, <1>4, <2>1, BeginsOp DEF ScanOK, historyVars
    <2>3. QED
      BY <1>2, <1>4, <2>2, BeginsOp DEF storeVars, historyVars
  <1>5. ASSUME NEW c \in Callers, ReadFile(c)
        PROVE  GraceInv'
    <2> DEFINE seen == ops[c].seen
    <2>1. PICK f \in ops[c].left :
            /\ f \in Files /\ \A d \in Callers \ {c} : ops'[d] = ops[d]
            /\ ops'[c].left = ops[c].left \ {f}
            /\ ops'[c].seen = [seen EXCEPT ![f] = Entry(f)]
      BY <1>5, ReadFileOp
    <2>2. seen \in [Files -> Entries \cup {NoFile}] /\ Scanning(c)
          /\ UNCHANGED <<disk, files, auths, steady>>
      BY <1>5, OperationFields DEF TypesInv, ReadFile, storeVars, historyVars
    <2>3. ASSUME NEW g \in steady \ ops'[c].left
          PROVE  /\ g \in Served(ops'[c].seen)
                 /\ ops'[c].seen[g].auth.account = files[g].auth.account
      <3>1. CASE g # f
        <4>1. g \in Served(seen) /\ seen[g].auth.account = files[g].auth.account
          BY <1>0, <2>1, <2>2, <3>1 DEF ScanOK
        <4>2. ops'[c].seen[g] = seen[g]
          BY <1>0, <2>1, <2>2, <3>1
        <4>3. QED
          BY <4>1, <4>2 DEF Served
      <3>2. CASE g = f
        <4>1. ops'[c].seen[g] = Entry(g)
          BY <2>1, <2>2, <3>2
        <4>2. files[g] # NoFile /\ files[g].parse # "over"
          BY <1>0 DEF Served
        <4>3. disk[g] = Broken \/ (Readable(g) /\ disk[g].account = files[g].auth.account)
          BY <1>0
        <4>4. Entry(g) # NoFile /\ Entry(g).parse # "over" /\ Entry(g).auth.account = files[g].auth.account
          <5>1. CASE Readable(g)
            BY <4>3, <5>1, <1>0, EntryType DEF Readable
          <5>2. CASE ~Readable(g)
            BY <4>2, <4>3, <5>2, <1>0, EntryType
          <5>3. QED
            BY <5>1, <5>2
        <4>5. QED
          BY <1>0, <4>1, <4>4 DEF Served
      <3>3. QED
        BY <3>1, <3>2
    <2>4. ScanOK(c)'
      BY <2>2, <2>3 DEF ScanOK
    <2>5. QED
      BY <1>2, <2>1, <2>2, <2>4
  <1>6. ASSUME NEW c \in Callers, ScanFails(c) \/ CheckFails(c) \/ RenewNothing(c)
        PROVE  GraceInv'
    BY <1>3, <1>6 DEF ScanFails, CheckFails, RenewNothing, Leave, storeVars, historyVars
  <1>7. ASSUME NEW c \in Callers, TellFails(c) \/ UseNothing(c) \/ \E i \in Ids : UseAuth(c, i)
        PROVE  GraceInv'
    BY <1>3, <1>7 DEF TellFails, UseNothing, UseAuth, storeVars, historyVars
  <1>8. ASSUME NEW c \in Callers, Publish(c)
        PROVE  GraceInv'
    <2> DEFINE seen == ops[c].seen
    <2>1. /\ seen \in [Files -> Entries \cup {NoFile}] /\ files' = seen /\ auths' = Grouped(seen)
          /\ Scanning(c) /\ ops[c].left = {} /\ ops'[c].seen = NothingSeen
          /\ \A d \in Callers \ {c} : ops'[d] = ops[d]
      BY <1>8, PublishOp
    <2>2. /\ disk' = disk
          /\ steady' = steady \cup
               {f \in Served(seen) : \/ disk[f] = Broken
                                     \/ Readable(f) /\ disk[f].account = seen[f].auth.account}
      BY <1>8 DEF Publish
    <2>3. \A f \in steady : f \in Served(seen) /\ seen[f].auth.account = files[f].auth.account
      BY <1>0, <2>1 DEF ScanOK
    <2>4. \A f \in steady' :
            /\ f \in Served(seen)
            /\ disk[f] = Broken \/ (Readable(f) /\ disk[f].account = seen[f].auth.account)
      BY <1>0, <2>2, <2>3
    <2>5. DOMAIN Grouped(seen) = {Id(f, seen[f].auth) : f \in Served(seen)}
      BY <2>1, GroupedSources
    <2>6. GraceServes'
      BY <2>1, <2>4, <2>5 DEF GraceServes, Served
    <2>7. ~Scanning(c)'
      BY <1>8, PublishOp, IdleOpFields DEF Scanning, At
    <2>8. \A d \in Callers \ {c} : ops[d].phase \notin Holding
      BY <2>1, Alone DEF Scanning, At, Holding
    <2>9. \A d \in Callers : ScanOK(d)'
      BY <2>1, <2>7, <2>8, NotScanning DEF Scanning, At, Holding
    <2>10. QED
      BY <2>1, <2>2, <2>4, <2>6, <2>9 DEF GraceInv, Readable
  <1>9. ASSUME NEW c \in Callers, CheckSource(c)
        PROVE  GraceInv'
    <2>1. ops'[c].phase \in {"check", "save"} /\ \A d \in Callers \ {c} : ops'[d] = ops[d]
      BY <1>9, CheckSourceOp
    <2>2. ScanOK(c)'
      BY <2>1 DEF ScanOK, Scanning, At
    <2>3. QED
      BY <1>2, <1>9, <2>1, <2>2, Zenon DEF CheckSource, storeVars, historyVars
  <1>10. ASSUME NEW c \in Callers, SaveSource(c)
         PROVE  GraceInv'
    <2>1. PICK f \in Unsaved(c) :
            /\ f \in Files /\ f \in DOMAIN ops[c].originals
            /\ \A g \in Files \ {f} : disk'[g] = disk[g]
            /\ disk'[f] \in Contents /\ disk'[f].account = ops[c].originals[f].account
            /\ \A d \in Callers \ {c} : ops'[d] = ops[d]
            /\ \/ ops'[c].phase = "rescan" /\ ops'[c].left = Listed \cup {f}
               \/ ops'[c].phase = "save"
      BY <1>10, SaveSourceOp
    <2>2. ops[c].phase = "save" /\ UNCHANGED <<files, auths, steady>>
      BY <1>10 DEF SaveSource, At, storeVars
    <2>3. disk'[f].account = files[f].auth.account
      BY <2>1, <2>2 DEF SourcesInv, SourcesOK, Sourced
    <2>4. ScanOK(c)'
      BY <1>1, <2>1, <2>2 DEF ScanOK, Scanning, At
    <2>5. \A d \in Callers : ScanOK(d)'
      BY <1>0, <2>1, <2>2, <2>4, ScanOKStays
    <2>6. QED
      BY <2>1, <2>2, <2>3, <2>5, WriteKeepsSteady
  <1>11. ASSUME NEW c \in Callers, SaveFails(c)
         PROVE  GraceInv'
    <2>1. UNCHANGED <<disk, files, auths, steady>>
      BY <1>11 DEF SaveFails, storeVars, historyVars
    <2>2. CASE ops' = [ops EXCEPT ![c] = IdleOp]
      BY <1>3, <2>1, <2>2
    <2>3. CASE ops' # [ops EXCEPT ![c] = IdleOp]
      <3>1. ops'[c].phase = "undo" /\ \A d \in Callers \ {c} : ops'[d] = ops[d]
        BY <1>11, <2>3, SaveFailsOp
      <3>2. ScanOK(c)'
        BY <3>1 DEF ScanOK, Scanning, At
      <3>3. QED
        BY <1>2, <2>1, <3>1, <3>2
    <2>4. QED
      BY <2>2, <2>3
  <1>12. ASSUME NEW c \in Callers, PutBack(c)
         PROVE  GraceInv'
    <2>1. PICK f \in ops[c].done :
            /\ f \in Files /\ f \in DOMAIN ops[c].originals /\ ops[c].originals[f] \in Contents
            /\ \A g \in Files \ {f} : disk'[g] = disk[g]
            /\ disk'[f] = ops[c].originals[f] \/ disk' = disk
            /\ \/ ops' = [ops EXCEPT ![c] = IdleOp]
               \/ ops'[c].phase = "undo" /\ \A d \in Callers \ {c} : ops'[d] = ops[d]
      BY <1>12, PutBackOp
    <2>2. ops[c].phase = "undo" /\ UNCHANGED <<files, auths, steady>>
      BY <1>12 DEF PutBack, At, storeVars
    <2>3. ops[c].originals[f].account = files[f].auth.account
      BY <2>1, <2>2 DEF SourcesInv, SourcesOK, Sourced
    <2>4. ScanOK(c)'
      BY <2>1, LeaveOp, IdleNotHolding DEF ScanOK, Scanning, At
    <2>5. \A d \in Callers \ {c} : ops'[d] = ops[d]
      BY <2>1, LeaveOp
    <2>6. \A d \in Callers : ScanOK(d)'
      BY <1>0, <2>2, <2>4, <2>5, ScanOKStays
    <2>7. disk'[f] = disk[f] \/ (disk'[f] \in Contents /\ disk'[f].account = files[f].auth.account)
      BY <2>1, <2>3
    <2>8. QED
      BY <2>1, <2>2, <2>6, <2>7, WriteKeepsSteady
  <1>13. ASSUME NEW c \in Callers, Renew(c)
         PROVE  GraceInv'
    <2>1. PICK f \in DOMAIN ops[c].originals :
            /\ f \in Files /\ \A g \in Files \ {f} : disk'[g] = disk[g]
            /\ disk'[f] \in Contents /\ disk'[f].account = ops[c].originals[f].account
      BY <1>13, RenewOp
    <2>2. /\ ops[c].phase = "renew" /\ UNCHANGED <<files, auths, steady>>
          /\ ops' = [ops EXCEPT ![c] = IdleOp]
      BY <1>13 DEF Renew, Leave, At, storeVars, historyVars
    <2>3. disk'[f].account = files[f].auth.account
      BY <2>1, <2>2 DEF SourcesInv, SourcesOK, Sourced
    <2>4. \A d \in Callers : ScanOK(d)'
      BY <1>0, <2>2, LeaveOp, IdleNotHolding, ScanOKStays
    <2>5. QED
      BY <2>1, <2>2, <2>3, <2>4, WriteKeepsSteady
  <1>14. ASSUME NEW c \in Callers, Tell(c)
         PROVE  GraceInv'
    <2>1. ScanOK(c)' /\ \A d \in Callers \ {c} : ops'[d] = ops[d]
      BY <1>14, TellOp DEF ScanOK, Scanning, At
    <2>2. QED
      BY <1>2, <1>14, <2>1 DEF Tell, storeVars
  <1>15. ASSUME NEW f \in Files, GraceEnds(f)
         PROVE  GraceInv'
    <2>1. \A g \in Files \ {f} : files'[g] = files[g]
      BY <1>15, GraceEndsFiles
    <2>2. UNCHANGED <<disk, auths, ops>> /\ steady' = steady \ {f}
      BY <1>15 DEF GraceEnds
    <2>3. GraceServes'
      BY <1>0, <2>1, <2>2 DEF GraceServes, Served
    <2>4. \A c \in Callers : ScanOK(c)'
      BY <1>0, <2>1, <2>2 DEF ScanOK, Scanning, At, Served
    <2>5. QED
      BY <1>0, <2>1, <2>2, <2>3, <2>4 DEF GraceInv, Readable
  <1>16. ASSUME NEW f \in Files, NEW content \in Edits(f), Edit(f, content)
         PROVE  GraceInv'
    <2>1. UNCHANGED <<files, auths, ops>> /\ steady' \subseteq steady
      BY <1>16 DEF Edit, storeVars
    <2>2. disk'[f] = content /\ \A g \in Files \ {f} : disk'[g] = disk[g]
      BY <1>16, EditOp
    <2>3. f \in steady' => \/ content = Broken
                           \/ content # Absent /\ content.account = files[f].auth.account
      BY <1>16 DEF Edit
    <2>4. \A g \in steady' : disk'[g] = Broken \/ (Readable(g)' /\ disk'[g].account = files[g].auth.account)
      BY <1>0, <2>1, <2>2, <2>3 DEF Readable
    <2>5. GraceServes'
      BY <1>0, <2>1 DEF GraceServes, Served
    <2>6. \A c \in Callers : ScanOK(c)'
      BY <1>0, <2>1 DEF ScanOK, Scanning, At, Served
    <2>7. QED
      BY <2>1, <2>4, <2>5, <2>6 DEF GraceInv
  <1>17. CASE Restart
    <2>1. /\ files' = FirstSeen /\ auths' = Grouped(FirstSeen) /\ steady' = Served(FirstSeen)
          /\ disk' = disk /\ \A c \in Callers : ops'[c] = IdleOp
      BY <1>17 DEF Restart
    <2>2. /\ FirstSeen \in [Files -> Entries \cup {NoFile}]
          /\ \A f \in Served(FirstSeen) : f \in Files /\ Readable(f) /\ FirstSeen[f].auth = disk[f]
      BY FirstScan DEF TypesInv
    <2>3. DOMAIN Grouped(FirstSeen) = {Id(f, FirstSeen[f].auth) : f \in Served(FirstSeen)}
      BY <2>2, GroupedSources
    <2>4. GraceServes'
      BY <2>1, <2>3 DEF GraceServes, Served
    <2>5. \A c \in Callers : ScanOK(c)'
      BY <2>1, IdleNotHolding
    <2>6. QED
      BY <2>1, <2>2, <2>4, <2>5 DEF GraceInv, Readable
  <1>18. CASE UNCHANGED poolVars
    <2>1. UNCHANGED <<disk, files, auths, steady, ops>>
      BY <1>18 DEF poolVars, storeVars, historyVars
    <2>2. \A c \in Callers : ScanOK(c)'
      BY <1>0, <2>1, ScanOKStays
    <2>3. QED
      BY <1>0, <2>1, <2>2 DEF GraceInv, GraceServes, Served, Readable
  <1>19. QED
    BY <1>4, <1>5, <1>6, <1>7, <1>8, <1>9, <1>10, <1>11, <1>12, <1>13, <1>14, <1>15, <1>16, <1>17, <1>18
       DEF PoolNext, Around, Step, Begins

-----------------------------------------------------------------------------
(* Tokens.                                                                    *)

(* What a change is about to write over is no newer than what it read, unless *)
(* an operator has edited the file meanwhile.                                 *)
TokensOK(c) ==
  ops[c].phase \in {"check", "save", "undo"} =>
    \A f \in DOMAIN ops[c].originals :
      /\ ops[c].originals[f].token <= issued
      /\ f \notin edited => Readable(f) /\ disk[f].token = ops[c].originals[f].token

TokensInv ==
  /\ \A f \in Files : Readable(f) => disk[f].token <= issued
  /\ \A c \in Callers : TokensOK(c)

(* The step of TokensNeverGoBack.                                             *)
NoTokenBack ==
  \A f \in Files : Readable(f) /\ disk'[f] \notin {Absent, Broken}
    /\ disk'[f].token < disk[f].token => f \in edited \/ edits' # edits

LEMMA ContentTokens ==
  ASSUME TypesInv, NEW content \in Contents
  PROVE  content.token \in Int /\ issued \in Int /\ content \notin {Absent, Broken}
  BY PoolAssumption DEF Contents, TypesInv

LEMMA OriginalTokens ==
  ASSUME TypesInv, NEW c \in Callers, NEW f \in DOMAIN ops[c].originals
  PROVE  ops[c].originals[f].token \in Int /\ f \in Files
  BY OperationFields, ContentTokens DEF TypesInv

LEMMA TokensStep ==
  ASSUME TypesInv, LockInv, PhaseInv, TokensInv, [PoolNext]_poolVars
  PROVE  TokensInv' /\ NoTokenBack
  <1>0. /\ \A f \in Files : Readable(f) => disk[f] \in Contents /\ disk[f].token \in Int
        /\ issued \in Int
    BY ContentTokens DEF TypesInv, Readable
  <1>1. /\ \A f \in Files : Readable(f) => disk[f].token <= issued
        /\ \A c \in Callers : TokensOK(c)
    BY DEF TokensInv
  <1>2. ASSUME disk' = disk
        PROVE  NoTokenBack
    BY <1>0, <1>2 DEF NoTokenBack
  <1>3. ASSUME NEW c \in Callers, \A d \in Callers \ {c} : ops'[d] = ops[d],
               TokensOK(c)', UNCHANGED <<disk, issued, edited>>
        PROVE  TokensInv' /\ NoTokenBack
    BY <1>1, <1>2, <1>3 DEF TokensInv, TokensOK, Readable
  <1>4. ASSUME NEW c \in Callers, ops' = [ops EXCEPT ![c] = IdleOp], UNCHANGED <<disk, issued>>,
               ops[c].phase \in Holding \/ edited' = edited
        PROVE  TokensInv' /\ NoTokenBack
    <2>1. ops'[c] = IdleOp /\ \A d \in Callers \ {c} : ops'[d] = ops[d]
      BY <1>4, LeaveOp
    <2>2. CASE edited' = edited
      BY <1>3, <1>4, <2>1, <2>2, IdleOpFields DEF TokensOK
    <2>3. CASE ops[c].phase \in Holding
      <3>1. \A d \in Callers : ops'[d].phase \notin {"check", "save", "undo"}
        BY <2>1, <2>3, Alone, IdleOpFields DEF Holding
      <3>2. QED
        BY <1>1, <1>2, <1>4, <3>1 DEF TokensInv, TokensOK, Readable
    <2>4. QED
      BY <1>4, <2>2, <2>3
  <1>5. ASSUME NEW c \in Callers, Begins(c)
        PROVE  TokensInv' /\ NoTokenBack
    BY <1>3, <1>5, BeginsOp DEF TokensOK
  <1>6. ASSUME NEW c \in Callers, ReadFile(c)
        PROVE  TokensInv' /\ NoTokenBack
    <2>1. ops'[c].phase = ops[c].phase /\ \A d \in Callers \ {c} : ops'[d] = ops[d]
      BY <1>6, ReadFileOp
    <2>2. TokensOK(c)' /\ UNCHANGED <<disk, issued, edited>>
      BY <1>6, <2>1 DEF ReadFile, Scanning, At, TokensOK
    <2>3. QED
      BY <1>3, <2>1, <2>2
  <1>7. ASSUME NEW c \in Callers,
               ScanFails(c) \/ CheckFails(c) \/ RenewNothing(c)
        PROVE  TokensInv' /\ NoTokenBack
    BY <1>4, <1>7 DEF ScanFails, CheckFails, RenewNothing, Leave, Scanning, At, Holding
  <1>8. ASSUME NEW c \in Callers, TellFails(c) \/ UseNothing(c) \/ \E i \in Ids : UseAuth(c, i)
        PROVE  TokensInv' /\ NoTokenBack
    BY <1>4, <1>8 DEF TellFails, UseNothing, UseAuth
  <1>9. ASSUME NEW c \in Callers, Publish(c)
        PROVE  TokensInv' /\ NoTokenBack
    <2>1. /\ ops[c].phase \in Holding
          /\ \A d \in Callers \ {c} : ops'[d] = ops[d]
      BY <1>9, PublishOp DEF Scanning, At, Holding
    <2>2. \A d \in Callers \ {c} : ops'[d].phase \notin {"check", "save", "undo"}
      BY <2>1, Alone DEF Holding
    <2>3. ops'[c].phase \in {"check", "save", "undo"} => ops'[c].originals = <<>>
      BY <1>9, PublishOp, IdleOpFields
    <2>4. TokensOK(c)'
      <3>1. DOMAIN <<>> = {}
        OBVIOUS
      <3>2. QED
        BY <2>3, <3>1 DEF TokensOK
    <2>5. UNCHANGED <<disk, issued>>
      BY <1>9 DEF Publish
    <2>6. QED
      BY <1>1, <1>2, <2>2, <2>4, <2>5 DEF TokensInv, TokensOK, Readable
  <1>10. ASSUME NEW c \in Callers, CheckSource(c)
         PROVE  TokensInv' /\ NoTokenBack
    <2>1. PICK f \in ops[c].left :
            /\ f \in Files /\ Readable(f)
            /\ \A d \in Callers \ {c} : ops'[d] = ops[d]
            /\ DOMAIN ops'[c].originals = (DOMAIN ops[c].originals) \cup {f}
            /\ \A g \in DOMAIN ops'[c].originals :
                 ops'[c].originals[g] = IF g = f THEN disk[f] ELSE ops[c].originals[g]
      BY <1>10, CheckSourceOp
    <2>2. At(c, "check") /\ UNCHANGED <<disk, issued, edited>>
      BY <1>10 DEF CheckSource
    <2>3. TokensOK(c)'
      BY <1>1, <2>1, <2>2 DEF TokensOK, At, Readable
    <2>4. QED
      BY <1>3, <2>1, <2>2, <2>3
  <1>11. ASSUME NEW c \in Callers, SaveSource(c)
         PROVE  TokensInv' /\ NoTokenBack
    <2>1. PICK f \in Unsaved(c) :
            /\ f \in Files /\ f \in DOMAIN ops[c].originals
            /\ \A g \in Files \ {f} : disk'[g] = disk[g]
            /\ disk'[f] \in Contents /\ disk'[f].token = ops[c].originals[f].token
            /\ \A d \in Callers \ {c} : ops'[d] = ops[d]
            /\ ops'[c].originals = ops[c].originals
      BY <1>11, SaveSourceOp
    <2>2. ops[c].phase = "save" /\ UNCHANGED <<issued, edited>>
      BY <1>11 DEF SaveSource, At
    <2>3. /\ ops[c].originals[f].token <= issued
          /\ f \notin edited => Readable(f) /\ disk[f].token = ops[c].originals[f].token
      BY <1>1, <2>1, <2>2 DEF TokensOK
    <2>4. disk'[f] \notin {Absent, Broken} /\ ops[c].originals[f].token \in Int
      BY <2>1, ContentTokens, OriginalTokens
    <2>5. TokensOK(c)'
      BY <1>1, <2>1, <2>2, <2>4, OriginalTokens DEF TokensOK, Readable
    <2>6. ASSUME NEW d \in Callers \ {c}
          PROVE  TokensOK(d)'
      <3>1. ops'[d].phase \notin {"check", "save", "undo"}
        BY <2>1, <2>2, Alone DEF Holding
      <3>2. QED
        BY <3>1 DEF TokensOK
    <2>7. \A g \in Files : Readable(g)' => disk'[g].token <= issued'
      BY <1>1, <2>1, <2>2, <2>3 DEF Readable
    <2>8. NoTokenBack
      BY <1>0, <2>1, <2>3, <2>4 DEF NoTokenBack
    <2>9. QED
      BY <2>5, <2>6, <2>7, <2>8 DEF TokensInv
  <1>12. ASSUME NEW c \in Callers, SaveFails(c)
         PROVE  TokensInv' /\ NoTokenBack
    <2>1. UNCHANGED <<disk, issued>> /\ ops[c].phase = "save"
      BY <1>12 DEF SaveFails, At
    <2>2. CASE ops' = [ops EXCEPT ![c] = IdleOp]
      BY <1>4, <2>1, <2>2 DEF Holding
    <2>3. CASE ops' # [ops EXCEPT ![c] = IdleOp]
      <3>1. /\ ops'[c].originals = ops[c].originals /\ edited' = edited
            /\ \A d \in Callers \ {c} : ops'[d] = ops[d]
        BY <1>12, <2>3, SaveFailsOp
      <3>2. TokensOK(c)'
        BY <1>1, <2>1, <3>1 DEF TokensOK, Readable
      <3>3. QED
        BY <1>3, <2>1, <3>1, <3>2
    <2>4. QED
      BY <2>2, <2>3
  <1>13. ASSUME NEW c \in Callers, PutBack(c)
         PROVE  TokensInv' /\ NoTokenBack
    <2>1. PICK f \in ops[c].done :
            /\ f \in Files /\ f \in DOMAIN ops[c].originals /\ ops[c].originals[f] \in Contents
            /\ \A g \in Files \ {f} : disk'[g] = disk[g]
            /\ disk'[f] = ops[c].originals[f] \/ disk' = disk
            /\ \/ ops' = [ops EXCEPT ![c] = IdleOp]
               \/ /\ \A d \in Callers \ {c} : ops'[d] = ops[d]
                  /\ ops'[c].originals = ops[c].originals /\ edited' = edited
      BY <1>13, PutBackOp
    <2>2. ops[c].phase = "undo" /\ issued' = issued
      BY <1>13 DEF PutBack, At
    <2>3. /\ ops[c].originals[f].token <= issued
          /\ f \notin edited => Readable(f) /\ disk[f].token = ops[c].originals[f].token
      BY <1>1, <2>1, <2>2 DEF TokensOK
    <2>4. ops[c].originals[f] \notin {Absent, Broken} /\ ops[c].originals[f].token \in Int
      BY <2>1, ContentTokens
    <2>5. \A g \in Files : Readable(g)' => disk'[g].token <= issued'
      BY <1>1, <2>1, <2>2, <2>3 DEF Readable
    <2>6. NoTokenBack
      BY <1>0, <2>1, <2>3, <2>4 DEF NoTokenBack
    <2>7. TokensOK(c)'
      <3>1. CASE ops' = [ops EXCEPT ![c] = IdleOp]
        BY <3>1, LeaveOp, IdleOpFields DEF TokensOK
      <3>2. CASE ops' # [ops EXCEPT ![c] = IdleOp]
        <4>1. ops'[c].originals = ops[c].originals /\ edited' = edited
          BY <2>1, <3>2
        <4>2. ASSUME NEW g \in DOMAIN ops[c].originals
              PROVE  /\ ops[c].originals[g].token <= issued
                     /\ g \notin edited => Readable(g)' /\ disk'[g].token = ops[c].originals[g].token
          <5>1. /\ ops[c].originals[g].token <= issued
                /\ g \notin edited => Readable(g) /\ disk[g].token = ops[c].originals[g].token
            BY <1>1, <2>2 DEF TokensOK
          <5>2. CASE disk'[g] = disk[g]
            BY <5>1, <5>2 DEF Readable
          <5>3. CASE g = f /\ disk'[f] = ops[c].originals[f]
            BY <2>4, <5>1, <5>3 DEF Readable
          <5>4. QED
            BY <2>1, <5>2, <5>3, OriginalTokens
        <4>3. QED
          BY <2>2, <4>1, <4>2 DEF TokensOK
      <3>3. QED
        BY <3>1, <3>2
    <2>8. ASSUME NEW d \in Callers \ {c}
          PROVE  TokensOK(d)'
      <3>1. ops'[d].phase \notin {"check", "save", "undo"}
        BY <2>1, <2>2, Alone, LeaveOp DEF Holding
      <3>2. QED
        BY <3>1 DEF TokensOK
    <2>9. QED
      BY <2>5, <2>6, <2>7, <2>8 DEF TokensInv
  <1>14. ASSUME NEW c \in Callers, Renew(c)
         PROVE  TokensInv' /\ NoTokenBack
    <2>1. PICK f \in DOMAIN ops[c].originals :
            /\ f \in Files /\ \A g \in Files \ {f} : disk'[g] = disk[g]
            /\ disk'[f].token = issued + 1 /\ issued' = issued + 1
      BY <1>14, RenewOp
    <2>2. ops[c].phase = "renew" /\ ops' = [ops EXCEPT ![c] = IdleOp]
      BY <1>14 DEF Renew, Leave, At
    <2>3. \A d \in Callers : TokensOK(d)'
      <3>1. \A d \in Callers : ops'[d].phase \notin {"check", "save", "undo"}
        BY <2>2, Alone, LeaveOp, IdleOpFields DEF Holding
      <3>2. QED
        BY <3>1 DEF TokensOK
    <2>4. \A g \in Files : Readable(g)' => disk'[g].token <= issued'
      BY <1>0, <1>1, <2>1 DEF Readable
    <2>5. NoTokenBack
      BY <1>0, <1>1, <2>1 DEF NoTokenBack
    <2>6. QED
      BY <2>3, <2>4, <2>5 DEF TokensInv
  <1>15. ASSUME NEW c \in Callers, Tell(c)
         PROVE  TokensInv' /\ NoTokenBack
    BY <1>3, <1>15, TellOp DEF Tell, TokensOK
  <1>16. ASSUME NEW f \in Files, GraceEnds(f)
         PROVE  TokensInv' /\ NoTokenBack
    BY <1>1, <1>2, <1>16 DEF GraceEnds, TokensInv, TokensOK, Readable
  <1>17. ASSUME NEW f \in Files, NEW content \in Edits(f), Edit(f, content)
         PROVE  TokensInv' /\ NoTokenBack
    <2>1. /\ disk'[f] = content /\ \A g \in Files \ {f} : disk'[g] = disk[g]
          /\ issued <= issued' /\ issued' \in Int
          /\ content \notin {Absent, Broken} => content.token <= issued'
      BY <1>17, EditOp, PoolAssumption
    <2>2. ops' = ops /\ edits' # edits
      BY <1>17 DEF Edit, TypesInv
    <2>3. \A g \in Files : Readable(g)' => disk'[g].token <= issued'
      BY <1>0, <1>1, <2>1 DEF Readable
    <2>4. NoTokenBack
      BY <2>2 DEF NoTokenBack
    <2>5. ASSUME NEW c \in Callers, ops[c].phase \in {"check", "save", "undo"},
                 NEW g \in DOMAIN ops[c].originals
          PROVE  /\ ops[c].originals[g].token <= issued'
                 /\ g \notin edited' => Readable(g)' /\ disk'[g].token = ops[c].originals[g].token
      <3>1. lock = c /\ lock # NoCaller
        BY <2>5, PoolAssumption DEF LockInv, Holding
      <3>2. edited' = edited \cup {f}
        BY <1>17, <3>1 DEF Edit
      <3>3. /\ ops[c].originals[g].token <= issued
            /\ g \notin edited => Readable(g) /\ disk[g].token = ops[c].originals[g].token
        BY <1>1, <2>5 DEF TokensOK
      <3>4. ops[c].originals[g].token \in Int /\ g \in Files
        BY <2>5, OriginalTokens
      <3>5. g \notin edited' => disk'[g] = disk[g] /\ g \notin edited
        BY <2>1, <3>2, <3>4
      <3>6. QED
        BY <1>0, <2>1, <3>3, <3>4, <3>5 DEF Readable
    <2>6. \A c \in Callers : TokensOK(c)'
      BY <2>2, <2>5 DEF TokensOK
    <2>7. QED
      BY <2>3, <2>4, <2>6 DEF TokensInv
  <1>18. CASE Restart
    <2>1. \A c \in Callers : ops'[c].phase \notin {"check", "save", "undo"}
      BY <1>18, IdleOpFields DEF Restart
    <2>2. UNCHANGED <<disk, issued>>
      BY <1>18 DEF Restart
    <2>3. QED
      BY <1>1, <1>2, <2>1, <2>2 DEF TokensInv, TokensOK, Readable
  <1>19. CASE UNCHANGED poolVars
    BY <1>1, <1>2, <1>19 DEF poolVars, TokensInv, TokensOK, Readable
  <1>20. QED
    BY <1>5, <1>6, <1>7, <1>8, <1>9, <1>10, <1>11, <1>12, <1>13, <1>14, <1>15, <1>16, <1>17, <1>18, <1>19
       DEF PoolNext, Around, Step, Begins

(* Initially nothing is in progress and every file is as the first scan saw   *)
(* it.                                                                        *)
LEMMA StartsSteady ==
  PoolInit => SourcesInv /\ GraceInv /\ TokensInv
  <1> SUFFICES ASSUME PoolInit PROVE SourcesInv /\ GraceInv /\ TokensInv
    OBVIOUS
  <1>1. TypesInv /\ PhaseInv
    BY TypesInit
  <1>2. \A c \in Callers : ops[c] = IdleOp
    BY DEF PoolInit
  <1>3. /\ files = FirstSeen /\ auths = Grouped(FirstSeen) /\ steady = Served(FirstSeen)
        /\ issued = 1
    BY DEF PoolInit
  <1>4. /\ FirstSeen \in [Files -> Entries \cup {NoFile}]
        /\ \A f \in Files :
             Readable(f) => FirstSeen[f] # NoFile /\ FirstSeen[f].auth = disk[f]
        /\ Served(FirstSeen) = {f \in Files : Readable(f)}
    BY <1>1, FirstScan DEF TypesInv
  <1>5. SourcesInv
    BY <1>2, IdleOpFields DEF SourcesInv, SourcesOK, At, Sourced
  <1>6. \A f \in steady : Id(f, files[f].auth) \in DOMAIN auths
    <2>1. DOMAIN Grouped(FirstSeen) = {Id(f, FirstSeen[f].auth) : f \in Served(FirstSeen)}
      BY <1>4, GroupedSources
    <2>2. QED
      BY <1>3, <2>1
  <1>7. GraceInv
    BY <1>2, <1>3, <1>4, <1>6, IdleOpFields DEF GraceInv, GraceServes, ScanOK, Scanning, At
  <1>8. ASSUME NEW f \in Files, Readable(f)
        PROVE  disk[f].token <= issued
    <2>1. disk[f] \in Initial
      BY DEF PoolInit
    <2>2. disk[f].token = 1
      BY <1>8, <2>1, PoolAssumption DEF Readable
    <2>3. QED
      BY <1>3, <2>2
  <1>9. TokensInv
    BY <1>2, <1>8, IdleOpFields DEF TokensInv, TokensOK
  <1>10. QED
    BY <1>5, <1>7, <1>9

-----------------------------------------------------------------------------
(* The variables have their types, one caller at a time holds mutationMu, and *)
(* an operation has what its phase needs (auth.go).                           *)
THEOREM PoolTypes == PoolSpec => [](TypesInv /\ LockInv /\ PhaseInv)
  <1>1. TypesInv /\ LockInv /\ PhaseInv /\ [PoolNext]_poolVars
          => (TypesInv /\ LockInv /\ PhaseInv)'
    BY TypesStep, LockStep, PhaseStep
  <1>2. QED
    BY TypesInit, <1>1, PTL DEF PoolSpec

(* A file that was served and could not be parsed for less than the grace is  *)
(* served, however many scans find it broken (loadAuthFiles).                 *)
THEOREM GraceKeepsServing == PoolSpec => []GraceServes
  <1>1. SourcesInv /\ GraceInv /\ TypesInv /\ LockInv /\ PhaseInv /\ [PoolNext]_poolVars
          => (SourcesInv /\ GraceInv)'
    BY SourcesStep, GraceStep
  <1>2. GraceInv => GraceServes
    BY DEF GraceInv
  <1>3. PoolInit => SourcesInv /\ GraceInv
    BY StartsSteady
  <1>4. QED
    BY <1>1, <1>2, <1>3, PoolTypes, PTL DEF PoolSpec

(* Neither a change of the disabled state nor its rollback nor a refresh      *)
(* writes an older token over a newer one (SetAccountDisabled,                *)
(* refreshCurrentAuth), unless an operator edits the file meanwhile.          *)
THEOREM NewerTokensStay == PoolSpec => TokensNeverGoBack
  <1>1. TokensInv /\ TypesInv /\ LockInv /\ PhaseInv /\ [PoolNext]_poolVars => TokensInv'
    BY TokensStep
  <1>2. TokensInv /\ TypesInv /\ LockInv /\ PhaseInv /\ [PoolNext]_poolVars
          => [NoTokenBack]_poolVars
    BY TokensStep
  <1>3. PoolInit => TokensInv
    BY StartsSteady
  <1>4. PoolSpec => [][NoTokenBack]_poolVars
    BY <1>1, <1>2, <1>3, PoolTypes, PTL DEF PoolSpec
  <1>5. QED
    BY <1>4 DEF TokensNeverGoBack, NoTokenBack

-----------------------------------------------------------------------------
(* What an account was last given.                                            *)

Names(entry, a) == entry # NoFile /\ entry.auth.account = a

WritingTo(c, a) == ops[c].phase \in {"save", "undo"} /\ ops[c].id = a

Undisturbed(a) == \A c \in Callers : ~WritingTo(c, a)

(* The store knows the files of the account, and they are what it was last    *)
(* given unless a change is writing them.                                     *)
FilesSettled(a) ==
  /\ \A f \in Files : f \in FilesOf(a) <=> Names(files[f], a)
  /\ \A f, g \in Files : Names(files[f], a) /\ Names(files[g], a)
                            => files[f].auth.disabled = files[g].auth.disabled
  /\ Undisturbed(a) => \A f \in FilesOf(a) : disk[f].disabled = standing[a]

(* A scan has seen the files of the account as they are; an operation has     *)
(* read its sources as the account was last given; a change has read them all *)
(* and written those that are done.                                           *)
ScanSettled(c, a) ==
  Scanning(c) => \A f \in Files \ ops[c].left :
    /\ f \in FilesOf(a) <=> Names(ops[c].seen[f], a)
    /\ f \in FilesOf(a) => /\ ops[c].seen[f].parse = "ok"
                           /\ ops[c].seen[f].auth.disabled = disk[f].disabled

SourcesSettled(c, a) ==
  ops[c].phase \in Sourced => \A f \in DOMAIN ops[c].originals :
    /\ f \in FilesOf(a) <=> ops[c].originals[f].account = a
    /\ f \in FilesOf(a) => ops[c].originals[f].disabled = standing[a]

ChangeSettled(c, a) ==
  /\ At(c, "check") /\ ops[c].id = a => FilesOf(a) \subseteq ops[c].left \cup DOMAIN ops[c].originals
  /\ WritingTo(c, a) =>
       /\ FilesOf(a) \subseteq DOMAIN ops[c].originals
       /\ \A f \in FilesOf(a) :
            disk[f].disabled = IF f \in ops[c].done THEN ops[c].flag ELSE standing[a]

CallerSettled(c, a) == ScanSettled(c, a) /\ SourcesSettled(c, a) /\ ChangeSettled(c, a)

Settled(a) == FilesSettled(a) /\ \A c \in Callers : CallerSettled(c, a)

SettledInv == \A a \in Accounts \ touched : Settled(a)

LEMMA SameDisk ==
  ASSUME NEW a, disk' = disk
  PROVE  FilesOf(a)' = FilesOf(a)
  BY DEF FilesOf, Readable

(* A step that changes no file of the account changes nothing for a caller    *)
(* that does not take it.                                                     *)
LEMMA CallerStays ==
  ASSUME NEW a, NEW c \in Callers, CallerSettled(c, a), ops'[c] = ops[c],
         FilesOf(a)' = FilesOf(a), standing'[a] = standing[a],
         \A f \in FilesOf(a) : disk'[f] = disk[f]
  PROVE  CallerSettled(c, a)'
  <1>1. ScanSettled(c, a)'
    BY DEF CallerSettled, ScanSettled, Scanning, At
  <1>2. SourcesSettled(c, a)'
    BY DEF CallerSettled, SourcesSettled
  <1>3. ChangeSettled(c, a)'
    BY DEF CallerSettled, ChangeSettled, WritingTo, At
  <1>4. QED
    BY <1>1, <1>2, <1>3 DEF CallerSettled

LEMMA NotHoldingSettled ==
  ASSUME NEW a, NEW c \in Callers, ops'[c].phase \notin Holding
  PROVE  CallerSettled(c, a)' /\ ~WritingTo(c, a)'
  BY DEF CallerSettled, ScanSettled, SourcesSettled, ChangeSettled, Scanning, At, WritingTo,
         Holding, Sourced

(* A step of one caller that changes no file of the account.                  *)
LEMMA SettledStays ==
  ASSUME NEW a, Settled(a), NEW c \in Callers, CallerSettled(c, a)',
         \A d \in Callers \ {c} : ops'[d] = ops[d],
         WritingTo(c, a) => WritingTo(c, a)',
         files' = files, FilesOf(a)' = FilesOf(a), standing'[a] = standing[a],
         \A f \in FilesOf(a) : disk'[f] = disk[f]
  PROVE  Settled(a)'
  <1>1. \A d \in Callers : CallerSettled(d, a)'
    BY CallerStays DEF Settled
  <1>2. Undisturbed(a)' => Undisturbed(a)
    BY DEF Undisturbed, WritingTo
  <1>3. FilesSettled(a)'
    BY <1>2 DEF Settled, FilesSettled, Names
  <1>4. QED
    BY <1>1, <1>3 DEF Settled

LEMMA BeginsSettled ==
  ASSUME TypesInv, NEW a \in Accounts, Settled(a), NEW c \in Callers, Begins(c)
  PROVE  Settled(a)'
  <1>1. /\ ops'[c].phase = "scan" /\ ops'[c].left = Listed /\ ops'[c].seen = NothingSeen
        /\ \A d \in Callers \ {c} : ops'[d] = ops[d]
        /\ ops[c].phase = "idle"
        /\ UNCHANGED <<disk, files, standing>>
    BY BeginsOp DEF storeVars, historyVars
  <1>2. FilesOf(a)' = FilesOf(a)
    BY <1>1, SameDisk
  <1>3. \A f \in Files \ Listed : f \notin FilesOf(a) /\ NothingSeen[f] = NoFile
    BY DEF Listed, FilesOf, Readable, NothingSeen
  <1>4. CallerSettled(c, a)'
    BY <1>1, <1>2, <1>3
       DEF CallerSettled, ScanSettled, SourcesSettled, ChangeSettled, At, WritingTo, Sourced, Names
  <1>5. ~WritingTo(c, a)
    BY <1>1 DEF WritingTo
  <1>6. QED
    BY <1>1, <1>2, <1>4, <1>5, SettledStays

LEMMA ReadFileSettled ==
  ASSUME TypesInv, NEW a \in Accounts, Settled(a), NEW c \in Callers, ReadFile(c)
  PROVE  Settled(a)'
  <1>1. PICK f \in ops[c].left :
          /\ \A d \in Callers \ {c} : ops'[d] = ops[d]
          /\ ops'[c].left = ops[c].left \ {f} /\ f \in Files
          /\ ops'[c].seen = [ops[c].seen EXCEPT ![f] = Entry(f)]
          /\ ops'[c].phase = ops[c].phase
    BY ReadFileOp
  <1>2. ops[c].phase \in {"scan", "rescan"} /\ UNCHANGED <<disk, files, standing>>
    BY DEF ReadFile, Scanning, At, storeVars, historyVars
  <1>3. FilesOf(a)' = FilesOf(a)
    BY <1>2, SameDisk
  <1>4. ops[c].seen \in [Files -> Entries \cup {NoFile}]
    BY OperationFields DEF TypesInv
  <1>5. /\ f \in FilesOf(a) <=> Names(Entry(f), a)
        /\ f \in FilesOf(a) => Entry(f).parse = "ok" /\ Entry(f).auth.disabled = disk[f].disabled
    <2>1. CASE Readable(f)
      BY <1>1, <2>1, EntryType DEF FilesOf, Names
    <2>2. CASE ~Readable(f)
      <3>1. f \notin FilesOf(a)
        BY <2>2 DEF FilesOf
      <3>2. Names(Entry(f), a) => Names(files[f], a)
        BY <1>1, <2>2, EntryType DEF Names
      <3>3. ~Names(files[f], a)
        BY <1>1, <3>1 DEF Settled, FilesSettled
      <3>4. QED
        BY <3>1, <3>2, <3>3
    <2>3. QED
      BY <2>1, <2>2
  <1>6. \A g \in Files \ ops[c].left :
          /\ g \in FilesOf(a) <=> Names(ops[c].seen[g], a)
          /\ g \in FilesOf(a) => /\ ops[c].seen[g].parse = "ok"
                                 /\ ops[c].seen[g].auth.disabled = disk[g].disabled
    BY <1>2 DEF Settled, CallerSettled, ScanSettled, Scanning, At
  <1>7. \A g \in Files : ops'[c].seen[g] = IF g = f THEN Entry(f) ELSE ops[c].seen[g]
    BY <1>1, <1>4
  <1>8. ScanSettled(c, a)'
    BY <1>1, <1>2, <1>3, <1>5, <1>6, <1>7 DEF ScanSettled, Names
  <1>9. CallerSettled(c, a)' /\ ~WritingTo(c, a)
    BY <1>1, <1>2, <1>8 DEF CallerSettled, SourcesSettled, ChangeSettled, At, WritingTo, Sourced
  <1>10. QED
    BY <1>1, <1>2, <1>3, <1>9, SettledStays

(* An operation that writes no file of the account returns.                   *)
LEMMA LeavesSettled ==
  ASSUME TypesInv, NEW a \in Accounts, Settled(a), NEW c \in Callers,
         ops' = [ops EXCEPT ![c] = IdleOp], ~WritingTo(c, a),
         UNCHANGED <<disk, files, standing>>
  PROVE  Settled(a)'
  <1>1. ops'[c] = IdleOp /\ \A d \in Callers \ {c} : ops'[d] = ops[d]
    BY LeaveOp
  <1>2. CallerSettled(c, a)'
    BY <1>1, IdleOpFields, NotHoldingSettled DEF Holding
  <1>3. QED
    BY <1>1, <1>2, SameDisk, SettledStays

(* Nobody else writes files while a caller has the store.                     *)
LEMMA AloneSettled ==
  ASSUME LockInv, NEW a, NEW c \in Callers, ops[c].phase \in Holding,
         \A d \in Callers \ {c} : ops'[d] = ops[d]
  PROVE  /\ \A d \in Callers \ {c} : CallerSettled(d, a)' /\ ~WritingTo(d, a)' /\ ~WritingTo(d, a)
         /\ ~WritingTo(c, a) => Undisturbed(a)
         /\ ~WritingTo(c, a)' => Undisturbed(a)'
  <1>1. \A d \in Callers \ {c} : ops[d].phase \notin Holding /\ ops'[d].phase \notin Holding
    BY Alone
  <1>2. \A d \in Callers \ {c} : CallerSettled(d, a)' /\ ~WritingTo(d, a)'
    BY <1>1, NotHoldingSettled
  <1>3. \A d \in Callers \ {c} : ~WritingTo(d, a)
    BY <1>1 DEF WritingTo, Holding
  <1>4. QED
    BY <1>2, <1>3 DEF Undisturbed

LEMMA PublishSettled ==
  ASSUME TypesInv, LockInv, PhaseInv, NEW a \in Accounts, Settled(a), NEW c \in Callers, Publish(c)
  PROVE  Settled(a)'
  <1> DEFINE seen == ops[c].seen
  <1>1. /\ seen \in [Files -> Entries \cup {NoFile}] /\ files' = seen /\ auths' = Grouped(seen)
        /\ Scanning(c) /\ ops[c].left = {}
        /\ \A d \in Callers \ {c} : ops'[d] = ops[d]
        /\ ops'[c].seen = NothingSeen
    BY PublishOp
  <1>2. /\ ops[c].phase \in Holding /\ ~WritingTo(c, a) /\ UNCHANGED <<disk, standing>>
        /\ ~WritingTo(c, a)'
    BY <1>1, PublishOp, IdleOpFields DEF Scanning, At, Holding, WritingTo, Publish
  <1>3. FilesOf(a)' = FilesOf(a) /\ FilesOf(a) \subseteq Files
    BY <1>2, SameDisk DEF FilesOf
  <1>4. /\ Undisturbed(a) /\ Undisturbed(a)'
        /\ \A d \in Callers \ {c} : CallerSettled(d, a)'
    BY <1>1, <1>2, AloneSettled
  <1>5. \A f \in FilesOf(a) : disk[f].disabled = standing[a]
    BY <1>4 DEF Settled, FilesSettled
  <1>6. \A f \in Files :
          /\ f \in FilesOf(a) <=> Names(seen[f], a)
          /\ f \in FilesOf(a) => seen[f].parse = "ok" /\ seen[f].auth.disabled = standing[a]
    BY <1>1, <1>5 DEF Settled, CallerSettled, ScanSettled
  <1>7. FilesSettled(a)'
    <2>1. \A f \in Files : f \in FilesOf(a)' <=> Names(files'[f], a)
      BY <1>1, <1>3, <1>6
    <2>2. \A f, g \in Files : Names(files'[f], a) /\ Names(files'[g], a)
                                 => files'[f].auth.disabled = files'[g].auth.disabled
      BY <1>1, <1>6
    <2>3. \A f \in FilesOf(a)' : disk'[f].disabled = standing'[a]
      BY <1>2, <1>3, <1>5
    <2>4. QED
      BY <2>1, <2>2, <2>3 DEF FilesSettled, Names
  <1>8. CallerSettled(c, a)'
    <2>1. CASE ops'[c].phase = "check"
      <3>1. /\ ops'[c].id \in Accounts /\ ops'[c].id \in DOMAIN Grouped(seen)
            /\ ops'[c].left = Grouped(seen)[ops'[c].id].sources /\ DOMAIN ops'[c].originals = {}
        BY <1>1, <2>1, PublishOp, IdleOpFields
      <3>2. ops'[c].left = {f \in Served(seen) : Id(f, seen[f].auth) = ops'[c].id}
        BY <1>1, <3>1, GroupedSources
      <3>3. ASSUME ops'[c].id = a, NEW f \in FilesOf(a)
            PROVE  f \in ops'[c].left
        <4>1. f \in Files /\ Names(seen[f], a) /\ seen[f].parse = "ok"
          BY <1>3, <1>6
        <4>2. f \in Served(seen) /\ Id(f, seen[f].auth) = a
          BY <4>1, PoolAssumption DEF Served, Names, Id
        <4>3. QED
          BY <3>2, <3>3, <4>2
      <3>4. QED
        BY <1>3, <2>1, <3>1, <3>3
           DEF CallerSettled, ScanSettled, SourcesSettled, ChangeSettled, Scanning, At, WritingTo
    <2>2. CASE ops'[c].phase = "renew"
      <3>1. PICK f \in Served(seen) : ops'[c].originals = [g \in {f} |-> seen[g].auth]
        BY <2>2, PublishOp, IdleOpFields
      <3>2. f \in Files /\ seen[f] # NoFile
        BY <3>1 DEF Served
      <3>3. /\ DOMAIN ops'[c].originals = {f} /\ ops'[c].originals[f] = seen[f].auth
        BY <3>1
      <3>4. /\ f \in FilesOf(a) <=> seen[f].auth.account = a
            /\ f \in FilesOf(a) => seen[f].auth.disabled = standing[a]
        BY <1>6, <3>2 DEF Names
      <3>5. SourcesSettled(c, a)'
        BY <1>2, <1>3, <3>3, <3>4 DEF SourcesSettled
      <3>6. QED
        BY <2>2, <3>5 DEF CallerSettled, ScanSettled, ChangeSettled, Scanning, At, WritingTo
    <2>3. CASE ops'[c].phase \notin {"check", "renew"}
      <3>1. ops'[c].phase \notin Holding
        BY <2>3, PublishOp, IdleOpFields DEF Holding
      <3>2. QED
        BY <3>1, NotHoldingSettled
    <2>4. QED
      BY <2>1, <2>2, <2>3
  <1>9. QED
    BY <1>4, <1>7, <1>8 DEF Settled

LEMMA CheckSourceSettled ==
  ASSUME TypesInv, LockInv, PhaseInv, NEW a \in Accounts, Settled(a),
         NEW c \in Callers, CheckSource(c)
  PROVE  Settled(a)'
  <1>1. PICK f \in ops[c].left :
          /\ f \in Files /\ Readable(f) /\ disk[f].account = ops[c].id
          /\ \A d \in Callers \ {c} : ops'[d] = ops[d]
          /\ ops'[c].phase = (IF ops'[c].left = {} THEN "save" ELSE "check")
          /\ ops'[c].left = ops[c].left \ {f}
          /\ DOMAIN ops'[c].originals = (DOMAIN ops[c].originals) \cup {f}
          /\ \A g \in DOMAIN ops'[c].originals :
               ops'[c].originals[g] = IF g = f THEN disk[f] ELSE ops[c].originals[g]
          /\ ops'[c].id = ops[c].id /\ ops'[c].done = ops[c].done
    BY CheckSourceOp
  <1>2. /\ ops[c].phase = "check" /\ ops[c].done = {}
        /\ UNCHANGED <<disk, files, standing>>
    BY DEF CheckSource, At, storeVars, historyVars, PhaseInv, PhaseOK
  <1>3. FilesOf(a)' = FilesOf(a)
    BY <1>2, SameDisk
  <1>4. ~WritingTo(c, a) /\ Undisturbed(a)
    BY <1>1, <1>2, AloneSettled DEF WritingTo, Holding
  <1>5. \A g \in FilesOf(a) : disk[g].disabled = standing[a]
    BY <1>4 DEF Settled, FilesSettled
  <1>6. f \in FilesOf(a) <=> disk[f].account = a
    BY <1>1 DEF FilesOf
  <1>7. \A g \in DOMAIN ops[c].originals :
          /\ g \in FilesOf(a) <=> ops[c].originals[g].account = a
          /\ g \in FilesOf(a) => ops[c].originals[g].disabled = standing[a]
    BY <1>2 DEF Settled, CallerSettled, SourcesSettled, Sourced
  <1>8. SourcesSettled(c, a)'
    BY <1>1, <1>2, <1>3, <1>5, <1>6, <1>7 DEF SourcesSettled
  <1>9. ChangeSettled(c, a)'
    <2>1. ops[c].id = a => FilesOf(a) \subseteq ops'[c].left \cup DOMAIN ops'[c].originals
      BY <1>1, <1>2 DEF Settled, CallerSettled, ChangeSettled, At
    <2>2. ops'[c].phase = "save" => ops'[c].left = {}
      BY <1>1
    <2>3. ops'[c].phase # "undo"
      BY <1>1
    <2>4. QED
      BY <1>1, <1>2, <1>3, <1>5, <2>1, <2>2, <2>3 DEF ChangeSettled, At, WritingTo
  <1>10. CallerSettled(c, a)'
    BY <1>1, <1>8, <1>9 DEF CallerSettled, ScanSettled, Scanning, At
  <1>11. QED
    BY <1>1, <1>2, <1>3, <1>4, <1>10, SettledStays

(* A write over a source that was read keeps the file with its account.       *)
LEMMA WriteKeepsAccount ==
  ASSUME NEW a \in Accounts, NEW c \in Callers, SourcesSettled(c, a), ops[c].phase \in Sourced,
         NEW f \in Files, f \in DOMAIN ops[c].originals,
         disk'[f] \in Contents, disk'[f].account = ops[c].originals[f].account,
         \A g \in Files \ {f} : disk'[g] = disk[g]
  PROVE  FilesOf(a)' = FilesOf(a)
  <1>1. f \in FilesOf(a) <=> ops[c].originals[f].account = a
    BY DEF SourcesSettled
  <1>2. disk'[f] # Absent /\ disk'[f] # Broken
    BY PoolAssumption
  <1>3. f \in FilesOf(a)' <=> disk'[f].account = a
    BY <1>2 DEF FilesOf, Readable
  <1>4. \A g \in Files \ {f} : g \in FilesOf(a)' <=> g \in FilesOf(a)
    BY DEF FilesOf, Readable
  <1>5. FilesOf(a) \subseteq Files /\ FilesOf(a)' \subseteq Files
    BY DEF FilesOf
  <1>6. QED
    BY <1>1, <1>3, <1>4, <1>5

LEMMA SaveSourceSettled ==
  ASSUME TypesInv, LockInv, PhaseInv, NEW a \in Accounts, Settled(a),
         NEW c \in Callers, SaveSource(c)
  PROVE  Settled(a)'
  <1>1. PICK f \in Unsaved(c) :
          /\ f \in Files /\ f \in DOMAIN ops[c].originals
          /\ \A g \in Files \ {f} : disk'[g] = disk[g]
          /\ disk'[f] \in Contents /\ disk'[f].account = ops[c].originals[f].account
          /\ disk'[f].disabled = ops[c].flag
          /\ \A d \in Callers \ {c} : ops'[d] = ops[d]
          /\ ops'[c].done = ops[c].done \cup {f} /\ ops'[c].originals = ops[c].originals
          /\ ops'[c].id = ops[c].id /\ ops'[c].flag = ops[c].flag /\ ops'[c].seen = ops[c].seen
          /\ \/ /\ Unsaved(c) = {f} /\ ops'[c].phase = "rescan" /\ ops'[c].left = Listed \cup {f}
                /\ standing' = [standing EXCEPT ![ops[c].id] = ops[c].flag]
             \/ Unsaved(c) # {f} /\ ops'[c].phase = "save" /\ standing' = standing
    BY SaveSourceOp
  <1>2. /\ ops[c].phase = "save" /\ ops[c].id \in Accounts
        /\ ops[c].done \subseteq DOMAIN ops[c].originals
        /\ \A g \in DOMAIN ops[c].originals : ops[c].originals[g].account = ops[c].id
        /\ ops[c].seen = NothingSeen /\ files' = files
    BY DEF SaveSource, At, PhaseInv, PhaseOK, Scanning, storeVars
  <1>3. /\ SourcesSettled(c, a) /\ ChangeSettled(c, a)
    BY DEF Settled, CallerSettled
  <1>4. FilesOf(a)' = FilesOf(a) /\ FilesOf(a) \subseteq Files
    BY <1>1, <1>2, <1>3, WriteKeepsAccount DEF Sourced, FilesOf
  <1>5. \A d \in Callers \ {c} : CallerSettled(d, a)' /\ ~WritingTo(d, a)' /\ ~WritingTo(d, a)
    BY <1>1, <1>2, AloneSettled DEF Holding
  <1>6. \A g \in DOMAIN ops[c].originals :
          /\ g \in FilesOf(a) <=> ops[c].id = a
          /\ g \in FilesOf(a) => ops[c].originals[g].disabled = standing[a]
    BY <1>2, <1>3 DEF SourcesSettled, Sourced
  <1>7. standing \in [Accounts -> BOOLEAN]
    BY DEF TypesInv
  <1>8. CASE ops[c].id = a
    <2>1. /\ FilesOf(a) \subseteq DOMAIN ops[c].originals
          /\ \A g \in FilesOf(a) :
               disk[g].disabled = IF g \in ops[c].done THEN ops[c].flag ELSE standing[a]
      BY <1>2, <1>3, <1>8 DEF ChangeSettled, WritingTo
    <2>2. \A g \in FilesOf(a) :
            disk'[g].disabled = IF g \in ops'[c].done THEN ops[c].flag ELSE standing[a]
      BY <1>1, <1>4, <2>1
    <2>3. CASE ops'[c].phase = "save"
      <3>1. standing' = standing
        BY <1>1, <2>3
      <3>2. CallerSettled(c, a)'
        BY <1>1, <1>2, <1>4, <1>6, <2>1, <2>2, <2>3, <3>1
           DEF CallerSettled, ScanSettled, SourcesSettled, ChangeSettled, Scanning, At, WritingTo
      <3>3. ~Undisturbed(a)'
        BY <1>1, <1>8, <2>3 DEF Undisturbed, WritingTo
      <3>4. FilesSettled(a)'
        BY <1>2, <1>4, <3>3 DEF Settled, FilesSettled, Names
      <3>5. QED
        BY <1>5, <3>2, <3>4 DEF Settled
    <2>4. CASE ops'[c].phase = "rescan"
      <3>1. /\ Unsaved(c) = {f} /\ ops'[c].left = Listed \cup {f}
            /\ standing' = [standing EXCEPT ![ops[c].id] = ops[c].flag]
        BY <1>1, <2>4
      <3>2. standing'[a] = ops[c].flag
        BY <1>7, <1>8, <3>1
      <3>3. \A g \in FilesOf(a) : disk'[g].disabled = standing'[a]
        BY <1>1, <2>1, <2>2, <3>1, <3>2 DEF Unsaved
      <3>4. \A g \in Files \ ops'[c].left : g \notin FilesOf(a) /\ NothingSeen[g] = NoFile
        BY <3>1 DEF Listed, FilesOf, Readable, NothingSeen
      <3>5. CallerSettled(c, a)'
        BY <1>1, <1>2, <1>4, <2>4, <3>4
           DEF CallerSettled, ScanSettled, SourcesSettled, ChangeSettled, At, WritingTo, Sourced, Names
      <3>6. FilesSettled(a)'
        BY <1>2, <1>4, <3>3 DEF Settled, FilesSettled, Names
      <3>7. QED
        BY <1>5, <3>5, <3>6 DEF Settled
    <2>5. QED
      BY <1>1, <2>3, <2>4
  <1>9. CASE ops[c].id # a
    <2>1. standing'[a] = standing[a] /\ f \notin FilesOf(a)
      BY <1>1, <1>6, <1>7, <1>9
    <2>2. \A g \in FilesOf(a) : disk'[g] = disk[g]
      BY <1>1, <1>4, <2>1
    <2>3. ~WritingTo(c, a)
      BY <1>9 DEF WritingTo
    <2>4. CallerSettled(c, a)'
      <3>1. CASE ops'[c].phase = "save"
        BY <1>1, <1>4, <1>6, <1>9, <2>1, <3>1, <1>2
           DEF CallerSettled, ScanSettled, SourcesSettled, ChangeSettled, Scanning, At, WritingTo
      <3>2. CASE ops'[c].phase = "rescan"
        <4>1. ops'[c].left = Listed \cup {f}
          BY <1>1, <3>2
        <4>2. \A g \in Files \ ops'[c].left : g \notin FilesOf(a) /\ NothingSeen[g] = NoFile
          BY <4>1 DEF Listed, FilesOf, Readable, NothingSeen
        <4>3. QED
          BY <1>1, <1>2, <1>4, <3>2, <4>2
             DEF CallerSettled, ScanSettled, SourcesSettled, ChangeSettled, At, WritingTo, Sourced, Names
      <3>3. QED
        BY <1>1, <3>1, <3>2
    <2>5. QED
      BY <1>1, <1>2, <1>4, <2>1, <2>2, <2>3, <2>4, SettledStays
  <1>10. QED
    BY <1>8, <1>9

LEMMA SaveFailsSettled ==
  ASSUME TypesInv, LockInv, PhaseInv, NEW a \in Accounts, Settled(a),
         NEW c \in Callers, SaveFails(c)
  PROVE  Settled(a)'
  <1>1. ops[c].phase = "save" /\ UNCHANGED <<disk, files, standing>>
    BY DEF SaveFails, At, storeVars, historyVars
  <1>2. FilesOf(a)' = FilesOf(a)
    BY <1>1, SameDisk
  <1>3. CASE ops' = [ops EXCEPT ![c] = IdleOp]
    <2>1. ops'[c] = IdleOp /\ \A d \in Callers \ {c} : ops'[d] = ops[d]
      BY <1>3, LeaveOp
    <2>2. CASE WritingTo(c, a)
      <3>1. ops[c].done = {}
        BY <1>3, SaveFailsOp, <2>1, IdleOpFields
      <3>2. \A f \in FilesOf(a) : disk[f].disabled = standing[a]
        BY <2>2, <3>1 DEF Settled, CallerSettled, ChangeSettled
      <3>3. FilesSettled(a)'
        BY <1>1, <1>2, <3>2 DEF Settled, FilesSettled, Names
      <3>4. CallerSettled(c, a)' /\ \A d \in Callers \ {c} : CallerSettled(d, a)'
        BY <1>1, <2>1, IdleOpFields, NotHoldingSettled, AloneSettled DEF Holding
      <3>5. QED
        BY <3>3, <3>4 DEF Settled
    <2>3. QED
      BY <1>1, <1>3, <2>2, LeavesSettled
  <1>4. CASE ops' # [ops EXCEPT ![c] = IdleOp]
    <2>1. /\ \A d \in Callers \ {c} : ops'[d] = ops[d]
          /\ ops'[c].phase = "undo"
          /\ ops'[c].done = ops[c].done /\ ops'[c].originals = ops[c].originals
          /\ ops'[c].id = ops[c].id /\ ops'[c].flag = ops[c].flag
      BY <1>4, SaveFailsOp
    <2>2. CallerSettled(c, a)'
      BY <1>1, <1>2, <2>1
         DEF Settled, CallerSettled, ScanSettled, SourcesSettled, ChangeSettled, Scanning, At,
             WritingTo, Sourced
    <2>3. WritingTo(c, a) => WritingTo(c, a)'
      BY <2>1 DEF WritingTo
    <2>4. QED
      BY <1>1, <1>2, <2>1, <2>2, <2>3, SettledStays
  <1>5. QED
    BY <1>3, <1>4

LEMMA PutBackSettled ==
  ASSUME TypesInv, LockInv, PhaseInv, NEW a \in Accounts \ touched', Settled(a),
         NEW c \in Callers, PutBack(c)
  PROVE  Settled(a)'
  <1>1. PICK f \in ops[c].done :
          /\ f \in Files /\ f \in DOMAIN ops[c].originals /\ ops[c].originals[f] \in Contents
          /\ \A g \in Files \ {f} : disk'[g] = disk[g]
          /\ \/ disk'[f] = ops[c].originals[f]
             \/ disk' = disk /\ touched' = touched \cup {ops[c].id}
          /\ \/ ops' = [ops EXCEPT ![c] = IdleOp] /\ ops[c].done = {f}
             \/ /\ \A d \in Callers \ {c} : ops'[d] = ops[d]
                /\ ops'[c].done = ops[c].done \ {f}
                /\ ops'[c].phase = "undo" /\ ops'[c].originals = ops[c].originals
                /\ ops'[c].id = ops[c].id /\ ops'[c].flag = ops[c].flag
    BY PutBackOp
  <1>2. /\ ops[c].phase = "undo" /\ UNCHANGED <<files, standing>>
        /\ \A g \in DOMAIN ops[c].originals : ops[c].originals[g].account = ops[c].id
    BY DEF PutBack, At, storeVars, PhaseInv, PhaseOK
  <1>3. \A d \in Callers \ {c} : ops'[d] = ops[d]
    BY <1>1, LeaveOp
  <1>4. SourcesSettled(c, a) /\ ChangeSettled(c, a)
    BY DEF Settled, CallerSettled
  <1>5. /\ FilesOf(a)' = FilesOf(a) /\ FilesOf(a) \subseteq Files
    BY <1>1, <1>2, <1>4, WriteKeepsAccount, SameDisk, ZenonT(30) DEF Sourced, FilesOf
  <1>6. \A g \in DOMAIN ops[c].originals :
          /\ g \in FilesOf(a) <=> ops[c].id = a
          /\ g \in FilesOf(a) => ops[c].originals[g].disabled = standing[a]
    BY <1>2, <1>4 DEF SourcesSettled, Sourced
  <1>7. CASE ops[c].id = a
    <2>1. disk'[f] = ops[c].originals[f]
      BY <1>1, <1>7
    <2>2. /\ FilesOf(a) \subseteq DOMAIN ops[c].originals
          /\ \A g \in FilesOf(a) :
               disk[g].disabled = IF g \in ops[c].done THEN ops[c].flag ELSE standing[a]
      BY <1>2, <1>4, <1>7 DEF ChangeSettled, WritingTo
    <2>3. \A g \in FilesOf(a) :
            disk'[g].disabled = IF g \in ops[c].done \ {f} THEN ops[c].flag ELSE standing[a]
      BY <1>1, <1>5, <1>6, <2>1, <2>2
    <2>4. CASE ops' = [ops EXCEPT ![c] = IdleOp]
      <3>1. ops'[c] = IdleOp
        BY <2>4, LeaveOp
      <3>2. ops[c].done = {f}
        BY <1>1, <1>2, <3>1, IdleOpFields
      <3>3. \A g \in FilesOf(a) : disk'[g].disabled = standing[a]
        BY <2>3, <3>2
      <3>4. FilesSettled(a)'
        BY <1>2, <1>5, <3>3 DEF Settled, FilesSettled, Names
      <3>5. CallerSettled(c, a)' /\ \A d \in Callers \ {c} : CallerSettled(d, a)'
        BY <1>2, <1>3, <3>1, IdleOpFields, NotHoldingSettled, AloneSettled DEF Holding
      <3>6. QED
        BY <3>4, <3>5 DEF Settled
    <2>5. CASE ops' # [ops EXCEPT ![c] = IdleOp]
      <3>1. /\ ops'[c].done = ops[c].done \ {f}
            /\ ops'[c].phase = "undo" /\ ops'[c].originals = ops[c].originals
            /\ ops'[c].id = ops[c].id /\ ops'[c].flag = ops[c].flag
        BY <1>1, <2>5
      <3>2. CallerSettled(c, a)' /\ \A d \in Callers \ {c} : CallerSettled(d, a)'
        <4>1. CallerSettled(c, a)'
          BY <1>2, <1>5, <1>6, <2>2, <2>3, <3>1
             DEF CallerSettled, ScanSettled, SourcesSettled, ChangeSettled, Scanning, At, WritingTo
        <4>2. QED
          BY <1>2, <1>3, <4>1, AloneSettled DEF Holding
      <3>3. ~Undisturbed(a)'
        BY <1>7, <3>1 DEF Undisturbed, WritingTo
      <3>4. FilesSettled(a)'
        BY <1>2, <1>5, <3>3 DEF Settled, FilesSettled, Names
      <3>5. QED
        BY <3>2, <3>4 DEF Settled
    <2>6. QED
      BY <2>4, <2>5
  <1>8. CASE ops[c].id # a
    <2>1. f \notin FilesOf(a) /\ \A g \in FilesOf(a) : disk'[g] = disk[g]
      BY <1>1, <1>5, <1>6, <1>8
    <2>2. ~WritingTo(c, a)
      BY <1>8 DEF WritingTo
    <2>3. CallerSettled(c, a)'
      <3>1. CASE ops' = [ops EXCEPT ![c] = IdleOp]
        BY <3>1, LeaveOp, IdleOpFields, NotHoldingSettled DEF Holding
      <3>2. CASE ops' # [ops EXCEPT ![c] = IdleOp]
        BY <1>1, <1>2, <1>5, <1>6, <1>8, <3>2
           DEF CallerSettled, ScanSettled, SourcesSettled, ChangeSettled, Scanning, At, WritingTo
      <3>3. QED
        BY <3>1, <3>2
    <2>4. QED
      BY <1>2, <1>3, <1>5, <2>1, <2>2, <2>3, SettledStays
  <1>9. QED
    BY <1>7, <1>8

LEMMA RenewSettled ==
  ASSUME TypesInv, LockInv, NEW a \in Accounts, Settled(a), NEW c \in Callers, Renew(c)
  PROVE  Settled(a)'
  <1>1. PICK f \in DOMAIN ops[c].originals :
          /\ f \in Files /\ \A g \in Files \ {f} : disk'[g] = disk[g]
          /\ disk'[f] \in Contents /\ disk'[f].account = ops[c].originals[f].account
          /\ disk'[f].disabled = ops[c].originals[f].disabled
    BY RenewOp
  <1>2. /\ ops[c].phase = "renew" /\ ops' = [ops EXCEPT ![c] = IdleOp]
        /\ UNCHANGED <<files, standing>>
    BY DEF Renew, Leave, At, storeVars, historyVars
  <1>3. ops'[c] = IdleOp /\ \A d \in Callers \ {c} : ops'[d] = ops[d]
    BY <1>2, LeaveOp
  <1>4. SourcesSettled(c, a)
    BY DEF Settled, CallerSettled
  <1>5. FilesOf(a)' = FilesOf(a) /\ FilesOf(a) \subseteq Files
    BY <1>1, <1>2, <1>4, WriteKeepsAccount DEF Sourced, FilesOf
  <1>6. /\ Undisturbed(a)
        /\ \A d \in Callers \ {c} : CallerSettled(d, a)'
    BY <1>2, <1>3, AloneSettled DEF WritingTo, Holding
  <1>7. \A g \in FilesOf(a) : disk'[g].disabled = standing[a]
    <2>1. \A g \in FilesOf(a) : disk[g].disabled = standing[a]
      BY <1>6 DEF Settled, FilesSettled
    <2>2. f \in FilesOf(a) => ops[c].originals[f].disabled = standing[a]
      BY <1>2, <1>4 DEF SourcesSettled, Sourced
    <2>3. QED
      BY <1>1, <1>5, <2>1, <2>2
  <1>8. CallerSettled(c, a)'
    BY <1>3, IdleOpFields, NotHoldingSettled DEF Holding
  <1>9. FilesSettled(a)'
    BY <1>2, <1>5, <1>7 DEF Settled, FilesSettled, Names
  <1>10. QED
    BY <1>6, <1>8, <1>9 DEF Settled

(* An edit of a file that is or becomes one of the account touches it.        *)
LEMMA EditSettled ==
  ASSUME TypesInv, NEW a \in Accounts \ touched', Settled(a),
         NEW f \in Files, NEW content \in Edits(f), Edit(f, content)
  PROVE  Settled(a)'
  <1>1. /\ disk'[f] = content /\ \A g \in Files \ {f} : disk'[g] = disk[g]
    BY EditOp
  <1>2. /\ UNCHANGED <<files, ops, standing>> /\ a \notin AccountOf(disk[f])
        /\ a \notin AccountOf(content)
    BY DEF Edit, storeVars
  <1>3. f \notin FilesOf(a) /\ f \notin FilesOf(a)'
    BY <1>1, <1>2, PoolAssumption DEF AccountOf, FilesOf, Readable
  <1>4. FilesOf(a)' = FilesOf(a) /\ FilesOf(a) \subseteq Files
    <2>1. \A g \in Files \ {f} : g \in FilesOf(a)' <=> g \in FilesOf(a)
      BY <1>1 DEF FilesOf, Readable
    <2>2. FilesOf(a) \subseteq Files /\ FilesOf(a)' \subseteq Files
      BY DEF FilesOf
    <2>3. QED
      BY <1>3, <2>1, <2>2
  <1>5. \A g \in FilesOf(a) : disk'[g] = disk[g]
    BY <1>1, <1>3, <1>4
  <1>6. \A c \in Callers : CallerSettled(c, a)'
    BY <1>2, <1>4, <1>5, CallerStays DEF Settled
  <1>7. FilesSettled(a)'
    BY <1>2, <1>4, <1>5 DEF Settled, FilesSettled, Names, Undisturbed, WritingTo
  <1>8. QED
    BY <1>6, <1>7 DEF Settled

LEMMA GraceEndsSettled ==
  ASSUME TypesInv, NEW a, Settled(a), NEW f \in Files, GraceEnds(f)
  PROVE  Settled(a)'
  <1>1. UNCHANGED <<disk, ops, standing>>
    BY DEF GraceEnds
  <1>2. \A g \in Files : /\ files'[g] # NoFile <=> files[g] # NoFile
                         /\ files[g] # NoFile => files'[g].auth = files[g].auth
    BY GraceEndsFiles
  <1>3. FilesOf(a)' = FilesOf(a)
    BY <1>1, SameDisk
  <1>4. \A c \in Callers : CallerSettled(c, a)'
    BY <1>1, <1>3, CallerStays DEF Settled
  <1>5. FilesSettled(a)'
    BY <1>1, <1>2, <1>3 DEF Settled, FilesSettled, Names, Undisturbed, WritingTo
  <1>6. QED
    BY <1>4, <1>5 DEF Settled

(* The process that stops while it writes files of an account touches it.     *)
LEMMA RestartSettled ==
  ASSUME TypesInv, NEW a \in Accounts \ touched', Settled(a), Restart
  PROVE  Settled(a)'
  <1>1. /\ \A c \in Callers : ops'[c] = IdleOp
        /\ files' = FirstSeen /\ UNCHANGED <<disk, standing>>
    BY DEF Restart
  <1>2. Undisturbed(a)
    BY DEF Restart, Undisturbed, WritingTo, At
  <1>3. FilesOf(a)' = FilesOf(a)
    BY <1>1, SameDisk
  <1>4. \A f \in FilesOf(a) : disk[f].disabled = standing[a]
    BY <1>2 DEF Settled, FilesSettled
  <1>5. \A f \in Files :
          /\ f \in FilesOf(a) <=> Names(FirstSeen[f], a)
          /\ f \in FilesOf(a) => FirstSeen[f].auth.disabled = standing[a]
    BY <1>4, FirstScan DEF TypesInv, FilesOf, Names
  <1>6. \A c \in Callers : CallerSettled(c, a)'
    BY <1>1, IdleOpFields, NotHoldingSettled DEF Holding
  <1>7. FilesSettled(a)'
    BY <1>1, <1>3, <1>4, <1>5 DEF FilesSettled, Names
  <1>8. QED
    BY <1>6, <1>7 DEF Settled

LEMMA TouchedGrows ==
  ASSUME [PoolNext]_poolVars
  PROVE  touched \subseteq touched'
  BY ZenonT(30) DEF PoolNext, Around, Step, BeginReconcile, BeginSetAccountDisabled, BeginRefresh, Begin,
         ReadFile, ScanFails, Publish, CheckSource, CheckFails, SaveSource, SaveFails, PutBack,
         Renew, RenewNothing, Tell, TellFails, UseNothing, UseAuth, GraceEnds, Edit, Restart,
         poolVars, historyVars

LEMMA SettledStep ==
  ASSUME TypesInv, LockInv, PhaseInv, SettledInv, [PoolNext]_poolVars
  PROVE  SettledInv'
  <1> SUFFICES ASSUME NEW a \in Accounts \ touched'
               PROVE  Settled(a)'
    BY DEF SettledInv
  <1>1. Settled(a)
    BY TouchedGrows DEF SettledInv
  <1>2. ASSUME NEW c \in Callers, Begins(c)
        PROVE  Settled(a)'
    BY <1>1, <1>2, BeginsSettled
  <1>3. ASSUME NEW c \in Callers, ReadFile(c)
        PROVE  Settled(a)'
    BY <1>1, <1>3, ReadFileSettled
  <1>4. ASSUME NEW c \in Callers,
               \/ ScanFails(c) \/ CheckFails(c) \/ RenewNothing(c)
               \/ TellFails(c) \/ UseNothing(c) \/ \E i \in Ids : UseAuth(c, i)
        PROVE  Settled(a)'
    <2>1. /\ ops' = [ops EXCEPT ![c] = IdleOp] /\ UNCHANGED <<disk, files, standing>>
          /\ ~WritingTo(c, a)
      BY <1>4 DEF ScanFails, CheckFails, RenewNothing, Leave, TellFails, UseNothing, UseAuth,
                  storeVars, historyVars, Scanning, At, WritingTo
    <2>2. QED
      BY <1>1, <2>1, LeavesSettled
  <1>5. ASSUME NEW c \in Callers, Publish(c)
        PROVE  Settled(a)'
    BY <1>1, <1>5, PublishSettled
  <1>6. ASSUME NEW c \in Callers, CheckSource(c)
        PROVE  Settled(a)'
    BY <1>1, <1>6, CheckSourceSettled
  <1>7. ASSUME NEW c \in Callers, SaveSource(c)
        PROVE  Settled(a)'
    BY <1>1, <1>7, SaveSourceSettled
  <1>8. ASSUME NEW c \in Callers, SaveFails(c)
        PROVE  Settled(a)'
    BY <1>1, <1>8, SaveFailsSettled
  <1>9. ASSUME NEW c \in Callers, PutBack(c)
        PROVE  Settled(a)'
    BY <1>1, <1>9, PutBackSettled
  <1>10. ASSUME NEW c \in Callers, Renew(c)
         PROVE  Settled(a)'
    BY <1>1, <1>10, RenewSettled
  <1>11. ASSUME NEW c \in Callers, Tell(c)
         PROVE  Settled(a)'
    <2>1. ops'[c].phase = "use" /\ \A d \in Callers \ {c} : ops'[d] = ops[d]
      BY <1>11, TellOp
    <2>2. CallerSettled(c, a)' /\ ~WritingTo(c, a)
      BY <1>11, <2>1, NotHoldingSettled DEF Holding, Tell, At, WritingTo
    <2>3. UNCHANGED <<disk, files, standing>>
      BY <1>11 DEF Tell, storeVars
    <2>4. QED
      BY <1>1, <2>1, <2>2, <2>3, SameDisk, SettledStays
  <1>12. ASSUME NEW f \in Files, GraceEnds(f)
         PROVE  Settled(a)'
    BY <1>1, <1>12, GraceEndsSettled
  <1>13. ASSUME NEW f \in Files, NEW content \in Edits(f), Edit(f, content)
         PROVE  Settled(a)'
    BY <1>1, <1>13, EditSettled
  <1>14. CASE Restart
    BY <1>1, <1>14, RestartSettled
  <1>15. CASE UNCHANGED poolVars
    <2>1. UNCHANGED <<disk, files, ops, standing>>
      BY <1>15 DEF poolVars, storeVars, historyVars
    <2>2. \A c \in Callers : CallerSettled(c, a)'
      BY <1>1, <2>1, SameDisk, CallerStays DEF Settled
    <2>3. FilesSettled(a)'
      BY <1>1, <2>1, SameDisk DEF Settled, FilesSettled, Names, Undisturbed, WritingTo
    <2>4. QED
      BY <2>2, <2>3 DEF Settled
  <1>16. QED
    BY <1>2, <1>3, <1>4, <1>5, <1>6, <1>7, <1>8, <1>9, <1>10, <1>11, <1>12, <1>13, <1>14, <1>15
       DEF PoolNext, Around, Step, Begins

LEMMA StartsSettled == PoolInit => SettledInv
  <1> SUFFICES ASSUME PoolInit, NEW a \in Accounts \ touched
               PROVE  Settled(a)
    BY DEF SettledInv
  <1>1. TypesInv
    BY TypesInit
  <1>2. /\ \A c \in Callers : ops[c].phase = "idle"
        /\ files = FirstSeen
    BY IdleOpFields DEF PoolInit
  <1>3. \A f, g \in FilesOf(a) : disk[f].disabled = disk[g].disabled
    BY DEF PoolInit, Agreeing
  <1>4. standing[a] = \E f \in FilesOf(a) : disk[f].disabled
    BY DEF PoolInit
  <1>5. \A f \in FilesOf(a) : disk[f].disabled \in BOOLEAN
    BY <1>1 DEF TypesInv, FilesOf, Readable, Contents
  <1>6. \A f \in FilesOf(a) : disk[f].disabled = standing[a]
    BY <1>3, <1>4, <1>5
  <1>7. \A f \in Files :
          /\ f \in FilesOf(a) <=> Names(FirstSeen[f], a)
          /\ f \in FilesOf(a) => FirstSeen[f].auth.disabled = disk[f].disabled
    BY <1>1, FirstScan DEF TypesInv, FilesOf, Names
  <1>8. FilesSettled(a)
    BY <1>2, <1>6, <1>7 DEF FilesSettled
  <1>9. \A c \in Callers : CallerSettled(c, a)
    BY <1>2 DEF CallerSettled, ScanSettled, SourcesSettled, ChangeSettled, Scanning, At, WritingTo,
                Sourced
  <1>10. QED
    BY <1>8, <1>9 DEF Settled

(* Whether the files of an account are disabled is what the last change that  *)
(* wrote all of them said, and no scan sees a change half done                *)
(* (SetAccountDisabled under mutationMu, its rollback, refreshes beside it).  *)
THEOREM AccountsStand == PoolSpec => []ChangesStand
  <1>1. SettledInv /\ TypesInv /\ LockInv /\ PhaseInv /\ [PoolNext]_poolVars => SettledInv'
    BY SettledStep
  <1>2. TypesInv /\ LockInv /\ SettledInv => ChangesStand
    <2> SUFFICES ASSUME TypesInv, LockInv, SettledInv, NEW a \in Accounts \ touched
                 PROVE  /\ Free => \A f \in FilesOf(a) : disk[f].disabled = standing[a]
                        /\ \A f, g \in Files :
                             files[f] # NoFile /\ files[g] # NoFile
                               /\ files[f].auth.account = a /\ files[g].auth.account = a
                             => files[f].auth.disabled = files[g].auth.disabled
      BY DEF ChangesStand
    <2>1. FilesSettled(a)
      BY DEF SettledInv, Settled
    <2>2. Free => Undisturbed(a)
      BY PoolAssumption DEF Free, LockInv, Undisturbed, WritingTo, Holding
    <2>3. QED
      BY <2>1, <2>2 DEF FilesSettled, Names
  <1>3. QED
    BY <1>1, <1>2, StartsSettled, PoolTypes, PTL DEF PoolSpec
=============================================================================
