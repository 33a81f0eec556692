------------------------------- MODULE AuthPool -------------------------------
(***************************************************************************)
(* The auth directory and the file store that reads and writes it          *)
(* (auth.go): scans that group the files of an account into one logical    *)
(* auth, the grace a file has while it cannot be parsed, the change of all *)
(* files of an account with its rollback, the write of a refreshed token,  *)
(* and what the callers of a reconcile do with the removals it reports.    *)
(*                                                                         *)
(* The store's operations exclude one another by mutationMu, but the       *)
(* directory is also an operator's, who edits any file between any two     *)
(* steps.  Reading or replacing one file is a step.                        *)
(***************************************************************************)
EXTENDS Integers, FiniteSets, FiniteSetsExt

CONSTANTS
  Files,       \* relative paths, as numbers in the order of a directory walk
  Accounts,    \* account ids
  NoAccount,   \* the account of a file that names none
  Absent,      \* no file, or not one of a Codex auth
  Broken,      \* a file that cannot be parsed
  NoFile,      \* what the store remembers of a file it knows nothing of
  Callers,     \* goroutines that use the store
  NoCaller,
  Initial,     \* what a file may be when the process first starts
  MaxIssued,   \* bound: tokens issued
  MaxEdits     \* bound: edits of an operator

(* A file of a Codex auth.                                                 *)
Contents == [account : Accounts \cup {NoAccount}, token : 1 .. MaxIssued, disabled : BOOLEAN]

(* What a scan makes of a file: the auth in it, or the last good one while *)
(* the file cannot be parsed, in its grace or after it.                    *)
Entries == [auth : Contents, parse : {"ok", "grace", "over"}]

ASSUME PoolAssumption ==
  /\ Files # {} /\ IsFiniteSet(Files) /\ Files \subseteq Nat
  /\ NoAccount \notin Accounts /\ Accounts \cap Files = {}
  /\ NoCaller \notin Callers
  /\ Absent \notin Contents /\ Broken \notin Contents \cup {Absent} /\ NoFile \notin Entries
  /\ MaxIssued \in Nat \ {0} /\ MaxEdits \in Nat
  /\ Initial \subseteq [account : Accounts \cup {NoAccount}, token : {1}, disabled : BOOLEAN]
                       \cup {Absent, Broken}

VARIABLES
  disk,      \* file |-> what is in the directory
  files,     \* FileAuthStore.files: what the last scan made of each file
  auths,     \* FileAuthStore.auths: id |-> the logical auth
  lock,      \* the caller that holds mutationMu
  ops,       \* caller |-> the operation it is in
  issued,    \* tokens issued so far; a later one has a larger number
  kept,      \* ids that bindings, verdicts or catalogs are kept for
  edits,     \* edits so far
  edited,    \* history: files an operator has edited since mutationMu was taken
  touched,   \* history: accounts an operator, a crash or a failed rollback touched
  standing,  \* history: account |-> the disabled state it was last given
  steady,    \* history: files that were served and are since the same auth,
             \* or unparsed for less than the grace
  unheard    \* history: ids whose removal nobody will tell

storeVars   == <<files, auths>>
historyVars == <<touched, standing, steady, unheard>>
poolVars    == <<disk, storeVars, lock, ops, issued, kept, edits, edited, historyVars>>

-----------------------------------------------------------------------------
Ids == Files \cup Accounts

(* stableAuthID: the account, or else the path.                            *)
Id(f, content) == IF content.account = NoAccount THEN f ELSE content.account

Readable(f) == disk[f] # Absent /\ disk[f] # Broken

FilesOf(a) == {f \in Files : Readable(f) /\ disk[f].account = a}

NothingSeen == [f \in Files |-> NoFile]

Subfunctions == UNION {[S -> Contents] : S \in SUBSET Files}

Operations ==
  [phase : {"idle", "scan", "check", "save", "undo", "rescan", "renew", "tell", "use"},
   kind  : {"reconcile", "set", "refresh"},
   id    : Ids \cup {NoFile},
   flag  : BOOLEAN,       \* the state to set, or whether the refresh is forced
   left  : SUBSET Files,  \* files still to be read
   seen  : [Files -> Entries \cup {NoFile}],
   originals : Subfunctions,  \* the sources as they were read
   done  : SUBSET Files,  \* the sources that were replaced
   news  : SUBSET Ids,    \* removals it reports
   have  : SUBSET Ids]    \* the active auths of its result

IdleOp ==
  [phase |-> "idle", kind |-> "reconcile", id |-> NoFile, flag |-> FALSE, left |-> {},
   seen |-> NothingSeen, originals |-> <<>>, done |-> {}, news |-> {}, have |-> {}]

At(c, phase) == ops[c].phase = phase

-----------------------------------------------------------------------------
(* groupAuthFiles: the files of one id are one auth, enabled if one of     *)
(* them is; the first enabled one represents it.                           *)

Served(seen) == {f \in Files : seen[f] # NoFile /\ seen[f].parse # "over"}

Grouped(seen) ==
  [i \in {Id(f, seen[f].auth) : f \in Served(seen)} |->
     LET sources == {f \in Served(seen) : Id(f, seen[f].auth) = i} IN
     [sources |-> sources, disabled |-> \A f \in sources : seen[f].auth.disabled]]

Representative(seen, sources) ==
  LET enabled == {f \in sources : ~seen[f].auth.disabled} IN
  Min(IF enabled = {} THEN sources ELSE enabled)

ActiveIds(logical) == {i \in DOMAIN logical : ~logical[i].disabled}

(* The removals of reconcileAuthChanges.  The mutant compares the auths    *)
(* that can be selected.                                                   *)
Mutant_RemovedActive(before, after) == ActiveIds(before) \ DOMAIN after

Removed(before, after) == DOMAIN before \ DOMAIN after

-----------------------------------------------------------------------------
(* mutationMu.  The mutant runs an operation beside another.               *)
Mutant_FreeAlways == TRUE

Free == lock = NoCaller

Listed == {f \in Files : disk[f] # Absent}

Begin(c, op) ==
  /\ At(c, "idle") /\ Free
  /\ lock' = c
  /\ ops' = [ops EXCEPT ![c] = [op EXCEPT !.phase = "scan", !.left = Listed]]
  /\ UNCHANGED <<disk, storeVars, issued, kept, edits, edited, historyVars>>

BeginReconcile(c) == Begin(c, IdleOp)

BeginSetAccountDisabled(c, a, disabled) ==
  Begin(c, [IdleOp EXCEPT !.kind = "set", !.id = a, !.flag = disabled])

BeginRefresh(c, i, force) ==
  Begin(c, [IdleOp EXCEPT !.kind = "refresh", !.id = i, !.flag = force])

(* The operation returns, mutationMu is released.                          *)
Leave(c) ==
  /\ ops' = [ops EXCEPT ![c] = IdleOp]
  /\ lock' = NoCaller /\ edited' = {}

Scanning(c) == At(c, "scan") \/ At(c, "rescan")

(* A file that cannot be parsed is what it was, with the time it was found *)
(* so.  The mutant allows for one scan.                                    *)
Mutant_EntryOnce(f) ==
  IF Readable(f) THEN [auth |-> disk[f], parse |-> "ok"]
  ELSE IF disk[f] = Broken /\ files[f] # NoFile
  THEN [files[f] EXCEPT !.parse = IF @ = "ok" THEN "grace" ELSE "over"]
  ELSE NoFile

Entry(f) ==
  IF Readable(f) THEN [auth |-> disk[f], parse |-> "ok"]
  ELSE IF disk[f] = Broken /\ files[f] # NoFile
  THEN [files[f] EXCEPT !.parse = IF @ = "ok" THEN "grace" ELSE @]
  ELSE NoFile

ReadFile(c) ==
  /\ Scanning(c) /\ ops[c].left # {}
  /\ LET f == Min(ops[c].left) IN
     ops' = [ops EXCEPT ![c] =
       [ops[c] EXCEPT !.left = @ \ {f}, !.seen = [@ EXCEPT ![f] = Entry(f)]]]
  /\ UNCHANGED <<disk, storeVars, lock, issued, kept, edits, edited, historyVars>>

(* The directory cannot be read or the context is done: the store keeps    *)
(* what it had.                                                            *)
ScanFails(c) ==
  /\ Scanning(c)
  /\ Leave(c)
  /\ UNCHANGED <<disk, storeVars, issued, kept, edits, historyVars>>

(* The scan is complete; the operation goes on with its result.            *)
Continued(c, logical) ==
  LET op       == ops[c]
      next     == [op EXCEPT !.seen = NothingSeen, !.originals = <<>>, !.done = {}]
      eligible == op.id \in (IF op.flag THEN DOMAIN logical ELSE ActiveIds(logical))
      source   == Representative(op.seen, logical[op.id].sources)
  IN
  IF op.kind = "reconcile" THEN
    [next EXCEPT !.phase = "tell", !.news = Removed(auths, logical),
                 !.have = ActiveIds(logical)]
  ELSE IF op.kind = "set" /\ op.phase = "scan" /\ op.id \in DOMAIN logical THEN
    [next EXCEPT !.phase = "check", !.left = logical[op.id].sources]
  ELSE IF op.kind = "refresh" /\ eligible THEN
    [next EXCEPT !.phase = "renew",
                 !.originals = [f \in {source} |-> op.seen[f].auth]]
  ELSE IdleOp

Publish(c) ==
  /\ Scanning(c) /\ ops[c].left = {}
  /\ LET seen    == ops[c].seen
         logical == Grouped(seen)
         op      == Continued(c, logical)
     IN
     /\ files' = seen
     /\ auths' = logical
     /\ ops' = [ops EXCEPT ![c] = op]
     /\ IF op.phase \in {"tell", "idle"} THEN lock' = NoCaller /\ edited' = {}
        ELSE UNCHANGED <<lock, edited>>
     /\ steady' = steady \cup
          {f \in Served(seen) : \/ disk[f] = Broken
                                \/ Readable(f) /\ disk[f].account = seen[f].auth.account}
     /\ unheard' = (IF op.phase = "tell" THEN unheard
                    ELSE unheard \cup (kept \cap DOMAIN auths)) \ DOMAIN logical
  /\ UNCHANGED <<disk, issued, kept, edits, touched, standing>>

-----------------------------------------------------------------------------
(* SetAccountDisabled: every source is read again, then each is replaced;  *)
(* a failure puts back those that were, last one first.                    *)

CheckSource(c) ==
  /\ At(c, "check") /\ ops[c].left # {}
  /\ LET f    == Min(ops[c].left)
         rest == ops[c].left \ {f}
     IN
     /\ Readable(f) /\ disk[f].account = ops[c].id
     /\ ops' = [ops EXCEPT ![c] =
          [ops[c] EXCEPT !.left = rest,
                         !.originals = [g \in (DOMAIN @) \cup {f} |->
                                          IF g = f THEN disk[f] ELSE @[g]],
                         !.phase = IF rest = {} THEN "save" ELSE "check"]]
  /\ UNCHANGED <<disk, storeVars, lock, issued, kept, edits, edited, historyVars>>

(* The source is not what it was, or the context is done.                  *)
CheckFails(c) ==
  /\ At(c, "check")
  /\ Leave(c)
  /\ UNCHANGED <<disk, storeVars, issued, kept, edits, historyVars>>

Unsaved(c) == (DOMAIN ops[c].originals) \ ops[c].done

SaveSource(c) ==
  /\ At(c, "save")
  /\ LET f    == Min(Unsaved(c))
         last == Unsaved(c) = {f}
     IN
     /\ disk' = [disk EXCEPT ![f] = [ops[c].originals[f] EXCEPT !.disabled = ops[c].flag]]
     /\ ops' = [ops EXCEPT ![c] =
          [ops[c] EXCEPT !.done  = @ \cup {f},
                         !.phase = IF last THEN "rescan" ELSE "save",
                         !.left  = IF last THEN Listed \cup {f} ELSE {}]]
     /\ standing' = IF last THEN [standing EXCEPT ![ops[c].id] = ops[c].flag] ELSE standing
  /\ UNCHANGED <<storeVars, lock, issued, kept, edits, edited, touched, steady, unheard>>

(* The mutant takes the first source for the one that failed.              *)
Mutant_NothingToPutBack(c) == Cardinality(ops[c].done) <= 1

NothingToPutBack(c) == ops[c].done = {}

SaveFails(c) ==
  /\ At(c, "save")
  /\ IF NothingToPutBack(c) THEN Leave(c)
     ELSE ops' = [ops EXCEPT ![c].phase = "undo"] /\ UNCHANGED <<lock, edited>>
  /\ UNCHANGED <<disk, storeVars, issued, kept, edits, historyVars>>

PutBackRest(c) == ops[c].done \ {Max(ops[c].done)}

(* The rollback goes on when putting one back fails.                       *)
PutBack(c) ==
  /\ At(c, "undo")
  /\ LET f == Max(ops[c].done) IN
     \/ /\ disk' = [disk EXCEPT ![f] = ops[c].originals[f]]
        /\ touched' = touched
     \/ /\ disk' = disk
        /\ touched' = touched \cup {ops[c].id}
  /\ IF PutBackRest(c) = {} THEN Leave(c)
     ELSE ops' = [ops EXCEPT ![c].done = PutBackRest(c)] /\ UNCHANGED <<lock, edited>>
  /\ UNCHANGED <<storeVars, issued, kept, edits, standing, steady, unheard>>

-----------------------------------------------------------------------------
(* refreshCurrentAuth: the token endpoint answers and the source is        *)
(* replaced, or the refresh fails, or it finds a token that will do.       *)

Renew(c) ==
  /\ At(c, "renew") /\ issued < MaxIssued
  /\ \E f \in DOMAIN ops[c].originals :
       disk' = [disk EXCEPT ![f] = [ops[c].originals[f] EXCEPT !.token = issued + 1]]
  /\ issued' = issued + 1
  /\ Leave(c)
  /\ UNCHANGED <<storeVars, kept, edits, historyVars>>

RenewNothing(c) ==
  /\ At(c, "renew")
  /\ Leave(c)
  /\ UNCHANGED <<disk, storeVars, issued, kept, edits, historyVars>>

-----------------------------------------------------------------------------
(* reconcileAuths after the scan: bindings, verdicts and catalogs of the   *)
(* removed auths are dropped; then the request may use an auth of its      *)
(* list, and something is kept for it.                                     *)

Tell(c) ==
  /\ At(c, "tell")
  /\ kept' = kept \ ops[c].news
  /\ unheard' = unheard \ ops[c].news
  /\ ops' = [ops EXCEPT ![c] = [ops[c] EXCEPT !.phase = "use", !.news = {}]]
  /\ UNCHANGED <<disk, storeVars, lock, issued, edits, edited, touched, standing, steady>>

(* The client has left, or a statement fails.                              *)
TellFails(c) ==
  /\ At(c, "tell")
  /\ unheard' = unheard \cup ((kept \cap ops[c].news) \ DOMAIN auths)
  /\ ops' = [ops EXCEPT ![c] = IdleOp]
  /\ UNCHANGED <<disk, storeVars, lock, issued, kept, edits, edited, touched, standing, steady>>

UseAuth(c, i) ==
  /\ At(c, "use") /\ i \in ops[c].have
  /\ kept' = kept \cup {i}
  /\ unheard' = IF i \in DOMAIN auths THEN unheard ELSE unheard \cup {i}
  /\ ops' = [ops EXCEPT ![c] = IdleOp]
  /\ UNCHANGED <<disk, storeVars, lock, issued, edits, edited, touched, standing, steady>>

UseNothing(c) ==
  /\ At(c, "use")
  /\ ops' = [ops EXCEPT ![c] = IdleOp]
  /\ UNCHANGED <<disk, storeVars, lock, issued, kept, edits, edited, historyVars>>

-----------------------------------------------------------------------------
(* Around the store.                                                       *)

AccountOf(content) ==
  IF content = Absent \/ content = Broken THEN {} ELSE {content.account} \ {NoAccount}

(* An operator logs in, toggles, moves, breaks or removes a file.          *)
Edit(f, content) ==
  /\ edits < MaxEdits /\ content # disk[f]
  /\ disk' = [disk EXCEPT ![f] = content]
  /\ edits' = edits + 1
  /\ issued' = IF content \in {Absent, Broken} THEN issued
               ELSE IF content.token > issued THEN content.token ELSE issued
  /\ edited' = IF lock = NoCaller THEN {} ELSE edited \cup {f}
  /\ touched' = touched \cup AccountOf(disk[f]) \cup AccountOf(content)
  /\ steady' = IF \/ content = Broken
                  \/ /\ content # Absent /\ files[f] # NoFile
                     /\ content.account = files[f].auth.account
               THEN steady ELSE steady \ {f}
  /\ UNCHANGED <<storeVars, lock, ops, kept, standing, unheard>>

(* An edit keeps the token of the file or brings the next one.             *)
Edits(f) ==
  {Absent, Broken} \cup
  {content \in Contents : \/ content.token = issued + 1
                          \/ Readable(f) /\ content.token = disk[f].token}

(* The grace of f runs out (not while a scan has its result: that would be *)
(* as if it had run out after the scan).                                   *)
GraceEnds(f) ==
  /\ files[f] # NoFile /\ files[f].parse = "grace"
  /\ \A c \in Callers : ops[c].seen[f] = NoFile
  /\ files' = [files EXCEPT ![f].parse = "over"]
  /\ steady' = steady \ {f}
  /\ UNCHANGED <<disk, auths, lock, ops, issued, kept, edits, edited, touched, standing, unheard>>

FirstSeen == [f \in Files |-> IF Readable(f) THEN [auth |-> disk[f], parse |-> "ok"] ELSE NoFile]

(* The process stops at any point.  The next one scans the directory and   *)
(* keeps what is about the auths it finds.                                 *)
Restart ==
  /\ ops' = [c \in Callers |-> IdleOp]
  /\ lock' = NoCaller /\ edited' = {}
  /\ files' = FirstSeen
  /\ auths' = Grouped(FirstSeen)
  /\ kept' = kept \cap DOMAIN auths'
  /\ touched' = touched \cup {ops[c].id : c \in {c \in Callers : At(c, "save") \/ At(c, "undo")}}
  /\ steady' = Served(FirstSeen)
  /\ unheard' = {}
  /\ UNCHANGED <<disk, issued, edits, standing>>

-----------------------------------------------------------------------------
Agreeing(a) == \A f, g \in FilesOf(a) : disk[f].disabled = disk[g].disabled

PoolInit ==
  /\ disk \in [Files -> Initial]
  /\ files = FirstSeen
  /\ auths = Grouped(FirstSeen)
  /\ lock = NoCaller
  /\ ops = [c \in Callers |-> IdleOp]
  /\ issued = 1
  /\ kept = {}
  /\ edits = 0
  /\ edited = {}
  /\ touched = {a \in Accounts : ~Agreeing(a)}
  /\ standing = [a \in Accounts |-> \E f \in FilesOf(a) : disk[f].disabled]
  /\ steady = Served(FirstSeen)
  /\ unheard = {}

Step(c) ==
  \/ BeginReconcile(c)
  \/ \E a \in Accounts, disabled \in BOOLEAN : BeginSetAccountDisabled(c, a, disabled)
  \/ \E i \in Ids, force \in BOOLEAN : BeginRefresh(c, i, force)
  \/ ReadFile(c)    \/ ScanFails(c)  \/ Publish(c)
  \/ CheckSource(c) \/ CheckFails(c) \/ SaveSource(c) \/ SaveFails(c) \/ PutBack(c)
  \/ Renew(c)       \/ RenewNothing(c)
  \/ Tell(c)        \/ TellFails(c)
  \/ UseNothing(c)  \/ \E i \in Ids : UseAuth(c, i)

Around ==
  \/ \E f \in Files : GraceEnds(f) \/ \E content \in Edits(f) : Edit(f, content)
  \/ Restart

PoolNext == Around \/ \E c \in Callers : Step(c)

PoolSpec == PoolInit /\ [][PoolNext]_poolVars

-----------------------------------------------------------------------------
(* Whether an account is enabled is what the last change that wrote all of *)
(* its files said: a change that failed or was refused and a refresh that  *)
(* ran before, after or between leave every file as it was, and no scan    *)
(* sees a change half done.  (Not so when somebody else edits files of the *)
(* account, the process stops between the writes or a rollback fails.)     *)
ChangesStand ==
  \A a \in Accounts \ touched :
    /\ Free => \A f \in FilesOf(a) : disk[f].disabled = standing[a]
    /\ \A f, g \in Files :
         files[f] # NoFile /\ files[g] # NoFile
           /\ files[f].auth.account = a /\ files[g].auth.account = a
         => files[f].auth.disabled = files[g].auth.disabled

(* The store never puts an older token over a newer one: the rotated token *)
(* that a refresh has saved survives every change of the disabled state,   *)
(* its rollback and other refreshes, unless an operator edits the file     *)
(* while the operation runs.                                               *)
TokensNeverGoBack ==
  [][\A f \in Files : Readable(f) /\ disk'[f] \notin {Absent, Broken}
       /\ disk'[f].token < disk[f].token => f \in edited \/ edits' # edits]_poolVars

(* A file that was served, and since then was the same auth or could not   *)
(* be parsed for less than the grace, is served: a partial write takes no  *)
(* auth out of the pool, however many scans see it.                        *)
GraceServes ==
  /\ steady \subseteq Served(files)
  /\ \A f \in steady : Id(f, files[f].auth) \in DOMAIN auths

(* What is kept for an auth that is gone will be dropped by the reconcile  *)
(* that saw it go, unless the removal went to one that does not tell it    *)
(* (a change of the disabled state, a refresh, a client that left) or a    *)
(* request used an old list.                                               *)
RemovalsHeard ==
  kept \subseteq DOMAIN auths \cup unheard \cup UNION {ops[c].news : c \in Callers}
=============================================================================
