------------------------------ MODULE UserStore ------------------------------
(***************************************************************************)
(* Users and their API keys (user_store.go), and the requests that create, *)
(* update, reset and authenticate them, statement by statement, over the   *)
(* failure handling of StorageFailure.  The database has one connection:   *)
(* a transaction is one step, and so is a statement outside of one.  An    *)
(* operation that calls another one checks readiness twice in a row, which *)
(* is one check here.                                                      *)
(***************************************************************************)
EXTENDS StorageFailure, FiniteSetsExt

CONSTANTS
  Users,     \* user ids
  Names,     \* normalized user names
  Keep,      \* a field that a PATCH leaves out
  MaxKeys    \* bound: keys ever made

ASSUME UserAssumption == Keep \notin Names /\ Keep \notin BOOLEAN /\ MaxKeys \in Nat

VARIABLES
  users,     \* the users table: id |-> [name, enabled], its domain the rows
  keys,      \* the api_keys table: [user, number, enabled], numbered as made
  made,      \* how many keys were ever made
  job,       \* request |-> what it is for
  line,      \* request |-> the statement it is at
  read,      \* request |-> the user row it read, while it needs it
  given,     \* request |-> the number of the key a reset hands out, or a
             \* proxy request came with
  floor      \* history: request |-> the keys of its user that resets had
             \* handed out when it arrived

tableVars == <<users, keys, made>>
jobVars   == <<job, line, read, given, floor>>
userVars  == <<storageVars, tableVars, jobVars>>

Row   == [name : Names, enabled : BOOLEAN]
NoRow == [name |-> Keep, enabled |-> FALSE]

NoJob == [kind |-> "none"]

Jobs ==
  [kind : {"create"}, name : Names, enabled : BOOLEAN]
    \cup [kind : {"update"}, user : Users, name : Names \cup {Keep},
          enabled : BOOLEAN \cup {Keep}]
    \cup [kind : {"reset"}, user : Users]
    \cup [kind : {"proxy"}, user : Users]

At(r, kind, n) == job[r].kind = kind /\ line[r] = n

NextLine(r) == line' = [line EXCEPT ![r] = @ + 1]

ActiveKeys(u) == {k \in keys : k.user = u /\ k.enabled}

NameFree(u, name) == \A v \in DOMAIN users \ {u} : users[v].name # name

(* The keys that resets have handed out: an answer with a key was written. *)
HandedOut(u) ==
  {given[q] : q \in {q \in Requests : /\ job[q] = [kind |-> "reset", user |-> u]
                                     /\ response[q] = "success"}}

(* A request arrives; one for the proxy brings a key that was ever made.   *)
Start(r, j) ==
  /\ Begin(r)
  /\ job' = [job EXCEPT ![r] = j]
  /\ IF j.kind = "proxy"
     THEN /\ \E k \in keys : k.user = j.user /\ given' = [given EXCEPT ![r] = k.number]
          /\ floor' = [floor EXCEPT ![r] = HandedOut(j.user)]
     ELSE UNCHANGED <<given, floor>>
  /\ UNCHANGED <<tableVars, line, read>>

NewKey(u) == [user |-> u, number |-> made + 1, enabled |-> TRUE]

(* CreateUser: a user with a fresh id and its key, in one transaction.     *)
CreateUser(r) ==
  /\ At(r, "create", 1)
  /\ made < MaxKeys
  /\ Query(r, "answer")
  /\ \E u \in Users \ DOMAIN users :
       /\ NameFree(u, job[r].name)
       /\ users' = [v \in DOMAIN users \cup {u} |->
            IF v = u THEN [name |-> job[r].name, enabled |-> job[r].enabled]
            ELSE users[v]]
       /\ keys' = keys \cup {NewKey(u)}
  /\ made' = made + 1
  /\ NextLine(r)
  /\ UNCHANGED <<job, read, given, floor>>

(* GetUser, the first statement of UpdateUser and of ResetUserAPIKey.      *)
GetUser(r) ==
  /\ At(r, "update", 1) \/ At(r, "reset", 1)
  /\ job[r].user \in DOMAIN users
  /\ Query(r, "query")
  /\ read' = [read EXCEPT ![r] =
       IF job[r].kind = "update" THEN users[job[r].user] ELSE NoRow]
  /\ NextLine(r)
  /\ UNCHANGED <<tableVars, job, given, floor>>

(* UpdateUser writes both fields, the one it was not given as it was read. *)
Chosen(asked, current) == IF asked = Keep THEN current ELSE asked

UpdateUser(r) ==
  LET u    == job[r].user
      name == Chosen(job[r].name, read[r].name)
  IN
  /\ At(r, "update", 2)
  /\ NameFree(u, name)
  /\ Query(r, "check")
  /\ users' = [users EXCEPT ![u] =
       [name |-> name, enabled |-> Chosen(job[r].enabled, read[r].enabled)]]
  /\ read' = [read EXCEPT ![r] = NoRow]
  /\ NextLine(r)
  /\ UNCHANGED <<keys, made, job, given, floor>>

(* and reads the row it answers with.                                      *)
GetUpdatedUser(r) ==
  /\ At(r, "update", 3)
  /\ Query(r, "answer")
  /\ NextLine(r)
  /\ UNCHANGED <<tableVars, job, read, given, floor>>

(* ResetUserAPIKey: every active key is disabled and a new one made, in one*)
(* transaction.  The mutant disables after it inserts.                     *)
Disabled(u, table) ==
  {IF k.user = u THEN [k EXCEPT !.enabled = FALSE] ELSE k : k \in table}

Mutant_KeysAfterResetSwapped(u) == Disabled(u, keys \cup {NewKey(u)})

KeysAfterReset(u) == Disabled(u, keys) \cup {NewKey(u)}

ResetUserAPIKey(r) ==
  /\ At(r, "reset", 2)
  /\ made < MaxKeys
  /\ Query(r, "answer")
  /\ keys' = KeysAfterReset(job[r].user)
  /\ made' = made + 1
  /\ given' = [given EXCEPT ![r] = made + 1]
  /\ NextLine(r)
  /\ UNCHANGED <<users, job, read, floor>>

(* AuthenticateAPIKey: key and user are read, then the key's last use is   *)
(* written.  The mutant asks for the user only.                            *)
Mutant_AuthenticUser(u, n) == users[u].enabled

Authentic(u, n) ==
  /\ users[u].enabled
  /\ \E k \in ActiveKeys(u) : k.number = n

AuthenticateAPIKey(r) ==
  /\ At(r, "proxy", 1)
  /\ Authentic(job[r].user, given[r])
  /\ Query(r, "query")
  /\ NextLine(r)
  /\ UNCHANGED <<tableVars, job, read, given, floor>>

TouchAPIKey(r) ==
  /\ At(r, "proxy", 2)
  /\ Query(r, "answer")
  /\ NextLine(r)
  /\ UNCHANGED <<tableVars, job, read, given, floor>>

(* RecordUsage, after the response.                                        *)
RecordUsage(r) ==
  /\ At(r, "proxy", 3)
  /\ Query(r, "over")
  /\ UNCHANGED <<tableVars, jobVars>>

Respond(r) ==
  /\ \/ Answer(r)
     \/ Write(r, IF job[r].kind = "proxy" THEN "stream" ELSE "over")
     \/ Refuse(r)
  /\ UNCHANGED <<tableVars, jobVars>>

(* The other ends of a statement: no row, a constraint, a context that is  *)
(* done, a failure.  A transaction is rolled back.                         *)
StatementFails(r) == (QueryRefused(r) \/ Failing(r)) /\ UNCHANGED <<tableVars, jobVars>>

-----------------------------------------------------------------------------
(* The process opens a database that an earlier one left: some users, each *)
(* with the key it was created with.                                       *)
UserInit ==
  /\ StorageInit
  /\ \E existing \in SUBSET Users :
       /\ IsFiniteSet(existing)
       /\ users \in [existing -> Row]
       /\ \A u, v \in existing : u # v => users[u].name # users[v].name
       /\ made = Cardinality(existing)
       /\ \E number \in [existing -> 1..Cardinality(existing)] :
            /\ \A u, v \in existing : u # v => number[u] # number[v]
            /\ keys = {[user |-> u, number |-> number[u], enabled |-> TRUE] : u \in existing}
  /\ job = [r \in Requests |-> NoJob]
  /\ line = [r \in Requests |-> 1]
  /\ read = [r \in Requests |-> NoRow]
  /\ given = [r \in Requests |-> 0]
  /\ floor = [r \in Requests |-> {}]

Statement(r) ==
  \/ CreateUser(r) \/ GetUser(r) \/ UpdateUser(r) \/ GetUpdatedUser(r)
  \/ ResetUserAPIKey(r) \/ AuthenticateAPIKey(r) \/ TouchAPIKey(r) \/ RecordUsage(r)
  \/ StatementFails(r)

UserNext ==
  \/ \E r \in Requests :
       \/ \E j \in Jobs : Start(r, j)
       \/ Statement(r)
       \/ Respond(r)
       \/ StreamEnds(r) /\ UNCHANGED <<tableVars, jobVars>>
  \/ (Process \/ Surroundings) /\ UNCHANGED <<tableVars, jobVars>>

UserSpec == UserInit /\ [][UserNext]_userVars

-----------------------------------------------------------------------------
(* The tables, the requests and the failure state have their types.        *)
UserTypeOK ==
  /\ StorageTypeOK
  /\ DOMAIN users \subseteq Users
  /\ users \in [DOMAIN users -> Row]
  /\ made \in Nat
  /\ keys \subseteq [user : Users, number : Nat \ {0}, enabled : BOOLEAN]
  /\ job \in [Requests -> Jobs \cup {NoJob}]
  /\ line \in [Requests -> Nat]
  /\ read \in [Requests -> Row \cup {NoRow}]
  /\ given \in [Requests -> Nat] /\ floor \in [Requests -> SUBSET Nat]

(* Every user has exactly one active key, whatever creations and resets    *)
(* overlap, fail or are rolled back.                                       *)
OneActiveKey == \A u \in DOMAIN users : Cardinality(ActiveKeys(u)) = 1

(* Once a reset has answered with its new key, no request of the user that *)
(* arrives later is served with an older one.                              *)
ResetCutsOff ==
  \A r \in Requests :
    job[r].kind = "proxy" /\ response[r] = "success" =>
      \A number \in floor[r] : given[r] >= number
=============================================================================
