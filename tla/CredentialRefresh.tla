------------------------- MODULE CredentialRefresh -------------------------
(***************************************************************************)
(* The coordinated OAuth refresh of internal/codexonly/server.go           *)
(* (AuthManager.refresh and refreshCurrentAuth) and refresh.go             *)
(* (Refresher.Refresh), with the auth file it reads and replaces, the scan *)
(* it reads it by (FileAuthStore.reconcile in auth.go), the token endpoint *)
(* it talks to, and the verdict its caller draws in failover.go and        *)
(* auth_management.go.                                                     *)
(*                                                                         *)
(* A call is one goroutine that asks for one refresh: before a request     *)
(* whose token expired (prepare), after a 401 (repair), or for the         *)
(* administrator (force).  Calls for one credential share a flight: the    *)
(* first leads it, the others follow and take its result.  A leader holds  *)
(* the file store's mutationMu, one lock for all credentials, from the     *)
(* moment it reads the auth file to the moment it has replaced it.         *)
(*                                                                         *)
(* A file another program writes in place does not parse for a while.  A   *)
(* scan then serves what the scan before it found, for five seconds from   *)
(* the first scan that met the broken file.                                *)
(*                                                                         *)
(* A token is a number: the token endpoint numbers what it issues to a     *)
(* credential.  A new refresh token may or may not come with a new access  *)
(* token; a rotated one is worth nothing from then on.                     *)
(***************************************************************************)
EXTENDS Naturals

CONSTANTS
  Calls,        \* the calls of refresh, each made once
  Auths,        \* stable IDs of logical credentials, one source file each
  Asks,         \* which call may be made for which auth, and what for
  Disturbances, \* what happens around them
  Touched,      \* the auths it happens to, where it happens to one
  NoCall,
  MaxAttempts,  \* maxOAuthRefreshAttempts
  MaxIssued,    \* bound: how many tokens one credential is ever issued
  MaxDisturbances  \* bound: how many of them happen

ASSUME RefreshAssumption ==
  /\ NoCall \notin Calls
  /\ Auths # {}
  /\ Asks \subseteq Calls \X Auths \X {"prepare", "repair", "force"}
  /\ Touched \subseteq Auths
  /\ Disturbances \subseteq
       {"cancel", "disable", "login", "remove", "tear", "crash"}
  /\ MaxAttempts \in Nat \ {0}
  /\ MaxIssued \in Nat \ {0}
  /\ MaxDisturbances \in Nat

VARIABLES
  disk,      \* auth |-> the tokens in its file
  disabled,  \* the auths whose file says so
  torn,      \* the auths whose file does not parse: its writer is at work,
             \* and disk and disabled are what it will leave
  seen,      \* s.files: auth |-> the tokens the last scan took from its file
  shut,      \* the auths that were disabled in that scan
  trouble,   \* parseErrorSince: auth |-> no time, or in the grace, or past it
  issued,    \* auth |-> the number of the last token issued to it
  live,      \* auth |-> the refresh tokens the endpoint honours
  pc,        \* call |-> where it is
  req,       \* call |-> what it was asked: auth, kind, failedAccessToken
  canceled,  \* calls whose context is done
  flight,    \* m.refreshes: auth |-> the call that leads its flight
  lead,      \* call |-> the call it follows
  holder,    \* who holds the store's mutationMu
  tries,     \* call |-> token requests made
  hold,      \* call |-> the tokens of its candidate
  blind,     \* history: the leaders whose candidate is not their file's, but
             \* the earlier scan's, because the file did not parse
  result,    \* call |-> the access token it returned with, and the error
  verdict,   \* call |-> what its caller then makes of the credential
  retired,   \* history: <<auth, refresh token>> a saved file has replaced
  damaged,   \* history: auths whose last rotated token got lost on the way
  disturbances  \* how many have happened

upstreamVars == <<issued, live>>
fileVars     == <<disk, disabled, torn>>
storeVars    == <<seen, shut, trouble>>
leaderVars   == <<holder, tries, hold, blind>>
history      == <<retired, damaged, disturbances>>
refreshVars  == <<disk, disabled, torn, seen, shut, trouble, issued, live, pc,
                  req, canceled, flight, lead, holder, tries, hold, blind,
                  result, verdict, retired, damaged, disturbances>>

-----------------------------------------------------------------------------
Kinds    == {"prepare", "repair", "force"}
Tokens   == [access : Nat, refresh : Nat]
NoTokens == [access |-> 0, refresh |-> 0]

Requests  == [auth : Auths, kind : Kinds, failed : Nat]
NoRequest == CHOOSE r \in [auth : Auths, kind : Kinds, failed : {0}] : TRUE

(* Why a refresh fails: the file store could not be read; the credential   *)
(* is gone or disabled; a definitive answer, or no refresh token to send;  *)
(* invalid_grant; a failure that may pass; the new file was not written;   *)
(* the context was done.                                                   *)
Errors ==
  {"reload", "unavailable", "refused", "invalid_grant", "retryable",
   "persistence", "canceled"}

Results  == [access : Nat, error : Errors \cup {"none"}]
NoResult == [access |-> 0, error |-> "none"]

Places ==
  {"idle", "selected", "lock", "send", "wait", "save", "publish", "follow",
   "done", "gone"}

Working == {"send", "wait", "save"}  \* the places inside the critical section

Auth(c) == req[c].auth

(* preparationFailure and the caller around it: a caller whose own context *)
(* is done draws no conclusion.                                            *)
VerdictOn(c, error) ==
  IF error = "none" THEN "good"
  ELSE IF c \in canceled THEN "no verdict"
  ELSE IF error = "invalid_grant" THEN "invalid_grant"
  ELSE IF error = "retryable" THEN "transient"
  ELSE "credential_invalid"

Verdicts ==
  {"no verdict", "good", "invalid_grant", "transient", "credential_invalid"}

-----------------------------------------------------------------------------
(* The scan.                                                               *)

(* What a scan takes for the tokens of a: those of its file or, when the   *)
(* file does not parse, those of the scan before.                          *)
Read(a) == IF a \in torn THEN seen[a] ELSE disk[a]

(* A credential without tokens is none, and one whose file is broken for   *)
(* longer than the grace is excluded.                                      *)
Served(a) == Read(a) # NoTokens /\ (a \in torn => trouble[a] # "over")

Shut(a) == IF a \in torn THEN a \in shut ELSE a \in disabled

(* What it leaves in s.files, when the files say that those of flags are   *)
(* disabled: the grace begins with the first scan that meets a broken file *)
(* and ends its count with one that does not.                              *)
Scan(flags) ==
  /\ seen' = [a \in Auths |-> Read(a)]
  /\ shut' = {a \in Auths : IF a \in torn THEN a \in shut ELSE a \in flags}
  /\ trouble' = [a \in Auths |->
                   IF a \notin torn \/ seen[a] = NoTokens THEN "none"
                   ELSE IF trouble[a] = "none" THEN "grace"
                   ELSE trouble[a]]

(* Every other request, and every reconciliation, scans the directory too; *)
(* so does SetAccountDisabled when it then finds nothing it can change.    *)
Rescan ==
  /\ holder = NoCall
  /\ Scan(disabled)
  /\ UNCHANGED <<fileVars, upstreamVars, pc, req, canceled, flight, lead,
                 leaderVars, result, verdict, history>>

(* Five seconds pass: nothing bounds what happens in them.                 *)
GracePasses(a) ==
  /\ trouble[a] = "grace"
  /\ trouble' = [trouble EXCEPT ![a] = "over"]
  /\ UNCHANGED <<fileVars, seen, shut, upstreamVars, pc, req, canceled, flight,
                 lead, leaderVars, result, verdict, history>>

-----------------------------------------------------------------------------
(* The caller: it reads the credential by a scan, uses it or finds it      *)
(* expired, and some time later asks for a refresh.                        *)

Select(c, a, kind) ==
  /\ pc[c] = "idle"
  /\ <<c, a, kind>> \in Asks
  /\ holder = NoCall
  /\ Served(a)
  /\ kind = "repair" => Read(a).access # 0
  /\ kind # "force" => ~Shut(a)
  /\ Scan(disabled)
  /\ pc' = [pc EXCEPT ![c] = "selected"]
  /\ req' = [req EXCEPT ![c] =
       [auth |-> a, kind |-> kind,
        failed |-> IF kind = "force" THEN 0 ELSE Read(a).access]]
  /\ UNCHANGED <<fileVars, upstreamVars, canceled, flight, lead, leaderVars,
                 result, verdict, history>>

Lead(c) ==
  /\ pc[c] = "selected"
  /\ flight[Auth(c)] = NoCall
  /\ flight' = [flight EXCEPT ![Auth(c)] = c]
  /\ pc' = [pc EXCEPT ![c] = "lock"]
  /\ UNCHANGED <<fileVars, storeVars, upstreamVars, req, canceled, lead,
                 leaderVars, result, verdict, history>>

Follow(c) ==
  /\ pc[c] = "selected"
  /\ flight[Auth(c)] # NoCall
  /\ lead' = [lead EXCEPT ![c] = flight[Auth(c)]]
  /\ pc' = [pc EXCEPT ![c] = "follow"]
  /\ UNCHANGED <<fileVars, storeVars, upstreamVars, req, canceled, flight,
                 leaderVars, result, verdict, history>>

Return(c, r) ==
  /\ pc' = [pc EXCEPT ![c] = "done"]
  /\ result' = [result EXCEPT ![c] = r]
  /\ verdict' = [verdict EXCEPT ![c] = VerdictOn(c, r.error)]
  /\ canceled' = canceled \ {c}

TakeResult(c) ==
  /\ pc[c] = "follow"
  /\ pc[lead[c]] = "done"
  /\ Return(c, result[lead[c]])
  /\ UNCHANGED <<fileVars, storeVars, upstreamVars, req, flight, lead,
                 leaderVars, history>>

(* A follower gives up when its context is done: a client that left, or    *)
(* the 30 seconds of a forced refresh, which leave the request alive.      *)
StopFollowing(c) ==
  /\ pc[c] = "follow"
  /\ c \in canceled \/ req[c].kind = "force"
  /\ Return(c, [access |-> 0, error |-> "canceled"])
  /\ UNCHANGED <<fileVars, storeVars, upstreamVars, req, flight, lead,
                 leaderVars, history>>

-----------------------------------------------------------------------------
(* The leader, under the lock.                                             *)

(* Who holds the lock when a leader has come to r: nobody.  The mutant     *)
(* forgets to unlock when the file could not be written.                   *)
Mutant_HolderAfterUnlessSaveFailed(r) ==
  IF r.error = "persistence" THEN holder ELSE NoCall

HolderAfter(r) == NoCall

(* It returns from the critical section with r and forgets its candidate.  *)
Finish(c, r) ==
  /\ pc' = [pc EXCEPT ![c] = "publish"]
  /\ result' = [result EXCEPT ![c] = r]
  /\ holder' = HolderAfter(r)
  /\ hold' = [hold EXCEPT ![c] = NoTokens]
  /\ blind' = blind \ {c}
  /\ tries' = [tries EXCEPT ![c] = 0]

Fail(c, error) == Finish(c, [access |-> 0, error |-> error])

CanLock(c) == pc[c] = "lock" /\ holder = NoCall

(* What the leader's own scan found serves the call as it is: it holds     *)
(* another token than the one that failed, and, for a request not yet      *)
(* sent, one that has not expired (fresh).  The mutant compares nothing.   *)
Mutant_ReusesAny(c, fresh) ==
  /\ req[c].kind # "force"
  /\ Read(Auth(c)).access # 0
  /\ req[c].kind = "repair" \/ fresh

Reuses(c, fresh) ==
  /\ req[c].kind # "force"
  /\ Read(Auth(c)).access # 0
  /\ Read(Auth(c)).access # req[c].failed
  /\ req[c].kind = "repair" \/ fresh

Selectable(c) ==
  /\ Served(Auth(c))
  /\ req[c].kind = "force" \/ ~Shut(Auth(c))

(* The candidate is a copy of what that scan found.  The mutant works on   *)
(* the copy the caller brought, with the refresh token of that time.       *)
Mutant_CandidateOfCaller(c) ==
  IF req[c].failed = 0 THEN Read(Auth(c))
  ELSE [access |-> req[c].failed, refresh |-> req[c].failed]

Candidate(c) == Read(Auth(c))

Reload(c) ==
  /\ CanLock(c)
  /\ Fail(c, "reload")
  /\ UNCHANGED <<fileVars, storeVars, upstreamVars, req, canceled, flight, lead,
                 verdict, history>>

Reread(c, fresh) ==
  /\ CanLock(c)
  /\ c \notin canceled
  /\ Scan(disabled)
  /\ \/ /\ ~Selectable(c)
        /\ Fail(c, "unavailable")
     \/ /\ Selectable(c)
        /\ Reuses(c, fresh)
        /\ Finish(c, [access |-> Read(Auth(c)).access, error |-> "none"])
     \/ /\ Selectable(c)
        /\ ~Reuses(c, fresh)
        /\ Candidate(c).refresh = 0
        /\ Fail(c, "refused")
     \/ /\ Selectable(c)
        /\ ~Reuses(c, fresh)
        /\ Candidate(c).refresh # 0
        /\ hold' = [hold EXCEPT ![c] = Candidate(c)]
        /\ blind' = IF Auth(c) \in torn THEN blind \cup {c} ELSE blind
        /\ pc' = [pc EXCEPT ![c] = "send"]
        /\ holder' = c
        /\ UNCHANGED <<result, tries>>
  /\ UNCHANGED <<fileVars, upstreamVars, req, canceled, flight, lead, verdict,
                 history>>

(* What the token endpoint does with a request for auth a with refresh     *)
(* token r: nothing, a new access token, or a new pair that ends r.        *)
Effects == {"nothing", "renewed", "rotated"}

Serve(a, r, effect) ==
  /\ effect # "nothing" => r \in live[a] /\ issued[a] < MaxIssued
  /\ issued' = IF effect = "nothing" THEN issued
               ELSE [issued EXCEPT ![a] = @ + 1]
  /\ live' = IF effect = "rotated"
             THEN [live EXCEPT ![a] = (@ \ {r}) \cup {issued[a] + 1}]
             ELSE live

(* The answer arrives with new tokens.  The mutant forgets to keep the new *)
(* refresh token.                                                          *)
Mutant_GrantedKeepingRefresh(c, effect) ==
  [access |-> issued[Auth(c)] + 1, refresh |-> hold[c].refresh]

Granted(c, effect) ==
  [access |-> issued[Auth(c)] + 1,
   refresh |-> IF effect = "rotated" THEN issued[Auth(c)] + 1 ELSE hold[c].refresh]

Exchange(c, effect) ==
  /\ pc[c] = "send"
  /\ effect # "nothing"
  /\ Serve(Auth(c), hold[c].refresh, effect)
  /\ hold' = [hold EXCEPT ![c] = Granted(c, effect)]
  /\ pc' = [pc EXCEPT ![c] = "save"]
  /\ tries' = [tries EXCEPT ![c] = @ + 1]
  /\ UNCHANGED <<fileVars, storeVars, req, canceled, flight, lead, holder, blind,
                 result, verdict, history>>

(* No answer the leader can use.  A rotated token whose answer is lost or  *)
(* malformed leaves the file with a dead one; a new access token that got  *)
(* lost is as good as none.                                                *)
Unanswered(c, effect) ==
  /\ pc[c] = "send"
  /\ effect # "renewed"
  /\ Serve(Auth(c), hold[c].refresh, effect)
  /\ damaged' = IF effect = "rotated" THEN damaged \cup {Auth(c)} ELSE damaged
  /\ UNCHANGED <<fileVars, storeVars, req, canceled, flight, lead, verdict,
                 retired, disturbances>>

(* Another attempt follows unless this was the last or the 30 seconds of   *)
(* the refresh are over.                                                   *)
Retry(c, effect) ==
  /\ Unanswered(c, effect)
  /\ tries[c] + 1 < MaxAttempts
  /\ tries' = [tries EXCEPT ![c] = @ + 1]
  /\ pc' = [pc EXCEPT ![c] = "wait"]
  /\ UNCHANGED <<holder, hold, blind, result>>

AttemptFails(c, effect, error) ==
  /\ Unanswered(c, effect)
  /\ error \in {"retryable", "refused", "invalid_grant", "canceled"}
  /\ error = "canceled" => c \in canceled
  /\ error = "invalid_grant" => effect = "nothing"
  /\ Fail(c, error)

RetryTimer(c) ==
  /\ pc[c] = "wait"
  /\ pc' = [pc EXCEPT ![c] = "send"]
  /\ UNCHANGED <<fileVars, storeVars, upstreamVars, req, canceled, flight, lead,
                 leaderVars, result, verdict, history>>

(* waitOAuthRefreshRetry ends early: the client left, or a Retry-After     *)
(* reaches beyond the 30 seconds.                                          *)
WaitCut(c) ==
  /\ pc[c] = "wait"
  /\ Fail(c, "canceled")
  /\ UNCHANGED <<fileVars, storeVars, upstreamVars, req, canceled, flight, lead,
                 verdict, history>>

(* The file is replaced by a rename, wholly or not at all: whoever writes  *)
(* the old one in place writes to a file nobody reads.  The flag is the    *)
(* candidate's, and s.files is not told: the next scan finds the new file. *)
Save(c) ==
  /\ pc[c] = "save"
  /\ disk' = [disk EXCEPT ![Auth(c)] = hold[c]]
  /\ disabled' = IF Auth(c) \in shut THEN disabled \cup {Auth(c)}
                 ELSE disabled \ {Auth(c)}
  /\ torn' = torn \ {Auth(c)}
  /\ retired' = IF disk[Auth(c)].refresh \in {0, hold[c].refresh} THEN retired
                ELSE retired \cup {<<Auth(c), disk[Auth(c)].refresh>>}
  /\ Finish(c, [access |-> hold[c].access, error |-> "none"])
  /\ UNCHANGED <<storeVars, upstreamVars, req, canceled, flight, lead, verdict,
                 damaged, disturbances>>

SaveFails(c) ==
  /\ pc[c] = "save"
  /\ damaged' = damaged \cup {Auth(c)}
  /\ Fail(c, "persistence")
  /\ UNCHANGED <<fileVars, storeVars, upstreamVars, req, canceled, flight, lead,
                 verdict, retired, disturbances>>

(* The flight is over.  The mutant leaves it in m.refreshes after a        *)
(* failure.                                                                *)
Mutant_FlightAfterSuccessOnly(c) ==
  IF result[c].error = "none" THEN [flight EXCEPT ![Auth(c)] = NoCall] ELSE flight

FlightAfter(c) == [flight EXCEPT ![Auth(c)] = NoCall]

Publish(c) ==
  /\ pc[c] = "publish"
  /\ flight' = FlightAfter(c)
  /\ Return(c, result[c])
  /\ UNCHANGED <<fileVars, storeVars, upstreamVars, req, lead, leaderVars,
                 history>>

-----------------------------------------------------------------------------
(* Around the calls.                                                       *)

Disturb ==
  /\ disturbances < MaxDisturbances
  /\ disturbances' = disturbances + 1

Cancel(c) ==
  /\ Disturb
  /\ pc[c] \notin {"idle", "done", "gone"}
  /\ canceled' = canceled \cup {c}
  /\ UNCHANGED <<fileVars, storeVars, upstreamVars, pc, req, flight, lead,
                 leaderVars, result, verdict, retired, damaged>>

(* SetAccountDisabled takes the same lock, scans, rewrites the file if it  *)
(* can read it, and scans again unless its context is done by then.        *)
SetAccountDisabled(a) ==
  /\ Disturb
  /\ holder = NoCall
  /\ a \notin torn /\ disk[a] # NoTokens
  /\ disabled' = IF a \in disabled THEN disabled \ {a} ELSE disabled \cup {a}
  /\ \/ Scan(disabled')
     \/ Scan(disabled)
  /\ UNCHANGED <<disk, torn, upstreamVars, pc, req, canceled, flight, lead,
                 leaderVars, result, verdict, retired, damaged>>

(* Another program begins to write the file in place, ends what it began,  *)
(* or removes the file.  No lock of the proxy keeps it out.                *)
Tear(a) ==
  /\ Disturb
  /\ disk[a] # NoTokens
  /\ a \notin torn
  /\ torn' = torn \cup {a}
  /\ UNCHANGED <<disk, disabled, storeVars, upstreamVars, pc, req, canceled,
                 flight, lead, leaderVars, result, verdict, retired, damaged>>

Mend(a) ==
  /\ a \in torn
  /\ torn' = torn \ {a}
  /\ UNCHANGED <<disk, disabled, storeVars, upstreamVars, pc, req, canceled,
                 flight, lead, leaderVars, result, verdict, history>>

Remove(a) ==
  /\ Disturb
  /\ disk[a] # NoTokens
  /\ disk' = [disk EXCEPT ![a] = NoTokens]
  /\ torn' = torn \ {a}
  /\ UNCHANGED <<disabled, storeVars, upstreamVars, pc, req, canceled, flight,
                 lead, leaderVars, result, verdict, retired, damaged>>

(* A new login writes the file, with both tokens or only one of them.      *)
Login(a, tokens) ==
  LET n == issued[a] + 1
  IN
  /\ Disturb
  /\ n <= MaxIssued
  /\ tokens \in {[access |-> n, refresh |-> n], [access |-> n, refresh |-> 0],
                 [access |-> 0, refresh |-> n]}
  /\ issued' = [issued EXCEPT ![a] = n]
  /\ live' = [live EXCEPT ![a] = @ \cup ({tokens.refresh} \ {0})]
  /\ disk' = [disk EXCEPT ![a] = tokens]
  /\ torn' = torn \ {a}
  /\ damaged' = damaged \ {a}
  /\ UNCHANGED <<disabled, storeVars, pc, req, canceled, flight, lead, leaderVars,
                 result, verdict, retired>>

(* The process stops and starts again, with a scan that knows of none      *)
(* before it; what it was doing is gone.                                   *)
Crash ==
  /\ Disturb
  /\ pc' = [c \in Calls |-> IF pc[c] \in {"idle", "done"} THEN pc[c] ELSE "gone"]
  /\ flight' = [a \in Auths |-> NoCall]
  /\ holder' = NoCall
  /\ damaged' = damaged \cup {a \in Auths : \E c \in Calls :
                                pc[c] = "save" /\ Auth(c) = a}
  /\ hold' = [c \in Calls |-> NoTokens]
  /\ blind' = {}
  /\ tries' = [c \in Calls |-> 0]
  /\ canceled' = {}
  /\ seen' = [a \in Auths |-> IF a \in torn THEN NoTokens ELSE disk[a]]
  /\ shut' = disabled \ torn
  /\ trouble' = [a \in Auths |-> "none"]
  /\ UNCHANGED <<fileVars, upstreamVars, req, lead, result, verdict, retired>>

-----------------------------------------------------------------------------
RefreshInit ==
  /\ disk = [a \in Auths |-> [access |-> 1, refresh |-> 1]]
  /\ disabled = {}
  /\ torn = {}
  /\ seen = disk
  /\ shut = {}
  /\ trouble = [a \in Auths |-> "none"]
  /\ issued = [a \in Auths |-> 1]
  /\ live = [a \in Auths |-> {1}]
  /\ pc = [c \in Calls |-> "idle"]
  /\ req = [c \in Calls |-> NoRequest]
  /\ canceled = {}
  /\ flight = [a \in Auths |-> NoCall]
  /\ lead = [c \in Calls |-> NoCall]
  /\ holder = NoCall
  /\ tries = [c \in Calls |-> 0]
  /\ hold = [c \in Calls |-> NoTokens]
  /\ blind = {}
  /\ result = [c \in Calls |-> NoResult]
  /\ verdict = [c \in Calls |-> "no verdict"]
  /\ retired = {}
  /\ damaged = {}
  /\ disturbances = 0

(* The steps of a call once it has begun.                                  *)
Step(c) ==
  \/ Lead(c) \/ Follow(c) \/ TakeResult(c) \/ StopFollowing(c)
  \/ Reload(c) \/ \E fresh \in BOOLEAN : Reread(c, fresh)
  \/ \E effect \in Effects :
       \/ Exchange(c, effect)
       \/ Retry(c, effect)
       \/ \E error \in Errors : AttemptFails(c, effect, error)
  \/ RetryTimer(c) \/ WaitCut(c)
  \/ Save(c) \/ SaveFails(c) \/ Publish(c)

Surroundings ==
  \/ \E c \in Calls, a \in Auths, kind \in Kinds : Select(c, a, kind)
  \/ Rescan
  \/ \E a \in Auths : Mend(a) \/ GracePasses(a)
  \/ "cancel" \in Disturbances /\ \E c \in Calls : Cancel(c)
  \/ "disable" \in Disturbances /\ \E a \in Touched : SetAccountDisabled(a)
  \/ "login" \in Disturbances /\ \E a \in Touched :
       \E t \in [access : {0, issued[a] + 1}, refresh : {0, issued[a] + 1}] : Login(a, t)
  \/ "remove" \in Disturbances /\ \E a \in Touched : Remove(a)
  \/ "tear" \in Disturbances /\ \E a \in Touched : Tear(a)
  \/ "crash" \in Disturbances /\ Crash

RefreshNext == (\E c \in Calls : Step(c)) \/ Surroundings

RefreshSpec == RefreshInit /\ [][RefreshNext]_refreshVars

(* A goroutine that can take a step takes it: the scheduler, the lock and  *)
(* the timers of Go are fair, and the deadlines of the refresh and of the  *)
(* HTTP client end every wait for the endpoint.                            *)
FairRefreshSpec == RefreshSpec /\ \A c \in Calls : WF_refreshVars(Step(c))

-----------------------------------------------------------------------------
(* The variables have their types.                                         *)
RefreshTypeOK ==
  /\ disk \in [Auths -> Tokens]
  /\ disabled \subseteq Auths /\ torn \subseteq Auths
  /\ seen \in [Auths -> Tokens] /\ shut \subseteq Auths
  /\ trouble \in [Auths -> {"none", "grace", "over"}]
  /\ issued \in [Auths -> Nat]
  /\ live \in [Auths -> SUBSET Nat]
  /\ pc \in [Calls -> Places]
  /\ req \in [Calls -> Requests]
  /\ canceled \subseteq Calls
  /\ flight \in [Auths -> Calls \cup {NoCall}]
  /\ lead \in [Calls -> Calls \cup {NoCall}]
  /\ holder \in Calls \cup {NoCall}
  /\ tries \in [Calls -> Nat]
  /\ hold \in [Calls -> Tokens] /\ blind \subseteq Calls
  /\ result \in [Calls -> Results]
  /\ verdict \in [Calls -> Verdicts]
  /\ retired \subseteq Auths \X Nat
  /\ damaged \subseteq Auths
  /\ disturbances \in Nat

(* One flight serves a credential at a time: the call that m.refreshes     *)
(* names is at work on it, and a leader at work is the one it names.  A    *)
(* call that joined a finished flight would take a result older than its   *)
(* question; two leaders would exchange one refresh token twice.           *)
AtWork(c) == pc[c] \in Working \cup {"lock", "publish"}

OneFlight ==
  /\ \A a \in Auths : flight[a] # NoCall => AtWork(flight[a]) /\ Auth(flight[a]) = a
  /\ \A c \in Calls : AtWork(c) => flight[Auth(c)] = c

(* A leader whose file parsed never sends the token endpoint a refresh     *)
(* token that a saved file has replaced, whatever calls were waiting with  *)
(* an old copy of the credential: an endpoint that rotates tokens would    *)
(* answer invalid_grant and the credential would be condemned.  In the     *)
(* grace of a broken file the code cannot promise it: the scan before may  *)
(* be older than the last save, and its refresh token is sent again.       *)
NoReplay ==
  \A c \in Calls \ blind :
    pc[c] \in {"send", "wait"} => <<Auth(c), hold[c].refresh>> \notin retired

(* The refresh token in an auth file is one the endpoint honours, or a     *)
(* leader is about to write one, unless the answer that brought its        *)
(* successor was lost, could not be saved, or died with the process.       *)
DiskRedeemable ==
  \A a \in Auths \ damaged :
    \/ disk[a].refresh \in live[a] \cup {0}
    \/ \E c \in Calls : pc[c] = "save" /\ Auth(c) = a /\ hold[c].refresh \in live[a]

(* A leader that repairs a 401 never returns the token that was refused:   *)
(* it takes another token from its scan, or exchanges the refresh token.   *)
LeadersRepair ==
  \A c \in Calls :
    /\ pc[c] \in {"publish", "done"} /\ lead[c] = NoCall
    /\ req[c].kind = "repair" /\ result[c].error = "none"
    => result[c].access # req[c].failed

(* Every call that begins returns, leader or follower, unless the process  *)
(* stops: no flight is left without a leader, and no leader without the    *)
(* lock.  A call is made once, so it comes back to none being under way.   *)
EveryCallReturns ==
  []<>(\A c \in Calls : pc[c] \in {"idle", "done", "gone"})
=============================================================================
